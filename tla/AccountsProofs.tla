---------------------------- MODULE AccountsProofs ----------------------------
(***************************************************************************)
(* Proofs about the sessions and the one-time links of an account, for any *)
(* number of tokens, links and requests and any mix of operations.         *)
(*                                                                         *)
(* The inductive invariant adds to the types that a family has one live    *)
(* token at most, that a request's token is of the kind it presents, and   *)
(* that a password reset holds its link from the look to the commit: it    *)
(* holds the user's row, so no other reset is under way.                   *)
(***************************************************************************)
EXTENDS AccountsProperties, FiniteSetTheorems, TLAPS

RowsOK ==
  /\ row \in [Tokens -> TokenRow]
  /\ \A t \in Tokens : row[t].state = "absent" => row[t].family = t
  /\ \A t \in Tokens : row[t].state # "absent" => row[t].family \in Roots
  /\ \A s, t \in AllUnrevoked : row[s].family = row[t].family => s = t

LinksOK == link \in [Links -> LinkRow] /\ LinkServesOnce

\* The purpose a request's link has.
Presented == [ reset |-> "reset", confirm |-> "verify", verify |-> "challenge" ]
TokenFits(op, token) ==
  /\ op \in {"rotate", "family"} => token \in Tokens
  /\ op \in {"reset", "confirm", "verify"} =>
       token \in Links /\ link[token].state # "absent" /\ link[token].purpose = Presented[op]

InTx(r) == req[r].inTx
Locks(r) == InTx(r) /\ req[r].op \in LockUser
ReqsOK ==
  /\ req \in [Requests -> Request]
  /\ \A r \in Requests : TokenFits(req[r].op, req[r].token)
  /\ \A r \in Requests : InTx(r) /\ req[r].op = "reset" => Unused(req[r].token)
  /\ \A r, q \in Requests : Locks(r) /\ Locks(q) => r = q

AccountOK == account \in Account /\ menu \in Menus

IInv == RowsOK /\ LinksOK /\ ReqsOK /\ AccountOK

-----------------------------------------------------------------------------
(* What a request does to its own record *)

\* A request that begins, goes on or ends: the others keep what they hold, as long as
\* no link loses its purpose and no link under reset is touched.
LEMMA GoesKeeps ==
  ASSUME ReqsOK, NEW r \in Requests, NEW op \in Ops, NEW token \in Tokens \cup Links \cup {None},
         Goes(r, op, token), TokenFits(op, token)',
         \A k \in Links : link[k].state # "absent" =>
           link'[k].state # "absent" /\ link'[k].purpose = link[k].purpose,
         \A q \in Requests : q # r /\ InTx(q) /\ req[q].op = "reset" =>
           link'[req[q].token].state = "unused"
  PROVE  ReqsOK'
<1> USE DEF ReqsOK, Goes, Started
<1>1. Started(op, token) \in Request
  BY DEF Request
<1>2. req' \in [Requests -> Request]
  BY <1>1
<1>3. req'[r] = Started(op, token) /\ \A q \in Requests : q # r => req'[q] = req[q]
  OBVIOUS
<1>4. ASSUME NEW q \in Requests
      PROVE  TokenFits(req[q].op, req[q].token)'
  <2>1. CASE q = r
    BY <1>3, <2>1 DEF TokenFits
  <2>2. CASE q # r
    <3>1. TokenFits(req[q].op, req[q].token) /\ req'[q] = req[q]
      BY <1>3, <2>2
    <3> QED
      BY <3>1 DEF TokenFits
  <2> QED
    BY <2>1, <2>2
<1>5. ASSUME NEW q \in Requests
      PROVE  (InTx(q) /\ req[q].op = "reset" => Unused(req[q].token))'
  BY <1>3 DEF InTx, Unused
<1>6. ASSUME NEW p \in Requests, NEW q \in Requests
      PROVE  (Locks(p) /\ Locks(q) => p = q)'
  BY <1>3 DEF Locks, InTx
<1> QED
  BY <1>2, <1>4, <1>5, <1>6

LEMMA EndsIsGoes ==
  ASSUME NEW r \in Requests, Ends(r)
  PROVE  Goes(r, "idle", None) /\ "idle" \in Ops /\ None \in Tokens \cup Links \cup {None}
BY DEF Ends, Goes, Idle, Ops

\* Ends, with the links as they were.
LEMMA EndsKeeps ==
  ASSUME ReqsOK, NEW r \in Requests, Ends(r), UNCHANGED link
  PROVE  ReqsOK'
<1>1. TokenFits("idle", None)'
  BY DEF TokenFits
<1>2. \A q \in Requests : q # r /\ InTx(q) /\ req[q].op = "reset" => link'[req[q].token].state = "unused"
  BY DEF ReqsOK, Unused
<1> QED
  BY <1>1, <1>2, EndsIsGoes, GoesKeeps

-----------------------------------------------------------------------------
(* Reads *)

\* A read leaves every row alone and starts one operation with a token that fits it.
LEMMA ReadGoes ==
  ASSUME IInv, NEW r \in Requests, Read(r)
  PROVE  \E op \in Ops, token \in Tokens \cup Links \cup {None} :
           TokenFits(op, token) /\ Goes(r, op, token)
<1> USE DEF Begins, TokenFits, Ops, Sweeps, Issues, PurposeOf, Updates, Presented
<1> DEFINE Fits == \E op \in Ops, token \in Tokens \cup Links \cup {None} :
                     TokenFits(op, token) /\ Goes(r, op, token)
<1>1. ASSUME NEW op \in Ops \ {"rotate", "family", "reset", "confirm", "verify"}, Goes(r, op, None)
      PROVE  Fits
  <2>1. TokenFits(op, None)
    OBVIOUS
  <2> QED
    BY <1>1, <2>1
<1>2. CASE Login(r)
  BY <1>1, <1>2 DEF Login
<1>3. CASE LogoutAll(r) \/ DeleteMe(r) \/ Block(r) \/ Unblock(r)
  BY <1>1, <1>3 DEF LogoutAll, DeleteMe, Block, Unblock
<1>4. CASE RequestReset(r) \/ Resend(r)
  BY <1>1, <1>4 DEF RequestReset, Resend
<1>5. CASE SetUpTotp(r) \/ EnableTotp(r) \/ DisableTotp(r)
  BY <1>1, <1>5 DEF SetUpTotp, EnableTotp, DisableTotp
<1>6. ASSUME NEW t \in Tokens, NEW op \in {"rotate", "family", "change"}, Goes(r, op, t)
      PROVE  Fits
  BY <1>6
<1>7. ASSUME NEW t \in Tokens, Refresh(r, t) \/ RevokeSession(r, t) \/ ChangePassword(r, t)
      PROVE  Fits
  <2>1. row[t].family \in Tokens
    BY DEF IInv, RowsOK, TokenRow
  <2> QED
    BY <1>6, <1>7, <2>1 DEF Refresh, RevokeSession, ChangePassword
<1>8. ASSUME NEW k \in Links, Present(r, k)
      PROVE  Fits
  BY <1>8 DEF Present
<1> QED
  BY <1>2, <1>3, <1>4, <1>5, <1>7, <1>8 DEF Read

LEMMA ReadKeeps ==
  ASSUME IInv, NEW r \in Requests, Read(r), UNCHANGED <<row, link, account, menu>>
  PROVE  IInv'
<1>1. PICK op \in Ops, token \in Tokens \cup Links \cup {None} :
        TokenFits(op, token) /\ Goes(r, op, token)
  BY ReadGoes
<1>2. TokenFits(op, token)'
  BY <1>1 DEF TokenFits
<1>3. \A q \in Requests : q # r /\ InTx(q) /\ req[q].op = "reset" => link'[req[q].token].state = "unused"
  BY DEF IInv, ReqsOK, Unused
<1>4. ReqsOK'
  BY <1>1, <1>2, <1>3, GoesKeeps DEF IInv
<1>5. RowsOK' /\ LinksOK' /\ AccountOK'
  BY DEF IInv, RowsOK, LinksOK, AccountOK, LinkServesOnce, Roots, AllUnrevoked, Unrevoked
<1> QED
  BY <1>4, <1>5 DEF IInv

\* The statement that takes the rows it will update.
LEMMA SnapshotKeeps ==
  ASSUME IInv, NEW r \in Requests, Snapshot(r), UNCHANGED menu
  PROVE  IInv'
<1> USE DEF Snapshot
<1>1. RowsOK' /\ LinksOK' /\ AccountOK'
  BY DEF IInv, RowsOK, LinksOK, AccountOK, LinkServesOnce, Roots, AllUnrevoked, Unrevoked
<1>2. ReqsOK'
  <2>1. CASE Ends(r)
    BY <2>1, EndsKeeps DEF IInv
  <2>2. CASE /\ ~(req[r].op = "reset" /\ ~Serveable(req[r].token))
             /\ req' = [req EXCEPT ![r] = [ @ EXCEPT !.inTx = TRUE, !.seen = Visible(r) ]]
    <3> USE DEF IInv, ReqsOK
    <3>1. req[r] \in Request
      OBVIOUS
    <3>2. Visible(r) \in SUBSET (Tokens \cup Links)
      BY DEF Visible, Outstanding, Family, AllUnrevoked
    <3>3. [ req[r] EXCEPT !.inTx = TRUE, !.seen = Visible(r) ] \in Request
      BY <3>1, <3>2 DEF Request
    <3>4. req' \in [Requests -> Request]
      BY <2>2, <3>3
    <3>5. \A q \in Requests : q # r => req'[q] = req[q]
      BY <2>2
    <3>6. req'[r].op = req[r].op /\ req'[r].token = req[r].token /\ req'[r].inTx
      BY <2>2, <3>1 DEF Request
    <3>7. ASSUME NEW q \in Requests
          PROVE  /\ TokenFits(req[q].op, req[q].token)'
                 /\ (InTx(q) /\ req[q].op = "reset" => Unused(req[q].token))'
      <4>1. req'[q].op = req[q].op /\ req'[q].token = req[q].token
        BY <3>5, <3>6
      <4>2. TokenFits(req[q].op, req[q].token)'
        BY <4>1 DEF TokenFits
      <4>3. CASE q = r
        BY <2>2, <4>1, <4>2, <4>3 DEF Unused, Serveable, InTx
      <4>4. CASE q # r
        BY <3>5, <4>2, <4>4 DEF Unused, InTx
      <4> QED
        BY <4>3, <4>4
    <3>8. ASSUME NEW p \in Requests, NEW q \in Requests, Locks(p)', Locks(q)'
          PROVE  p = q
      <4>1. \A s \in Requests : s # r => Locks(s)' = Locks(s)
        BY <3>5 DEF Locks, InTx
      <4>2. req[r].op \in LockUser => \A s \in Requests : ~Locks(s)
        BY DEF UserLocked, Locks, InTx
      <4>3. Locks(r)' => req[r].op \in LockUser
        BY <3>6 DEF Locks
      <4> QED
        BY <3>8, <4>1, <4>2, <4>3, Zenon
    <3> QED
      BY <3>4, <3>7, <3>8
  <2> QED
    BY <2>1, <2>2
<1> QED
  BY <1>1, <1>2 DEF IInv

-----------------------------------------------------------------------------
(* Refresh tokens *)

LEMMA OpenedRows ==
  ASSUME RowsOK, NEW t \in Tokens, row[t].state = "absent", row' = Opened(t)
  PROVE  /\ RowsOK'
         /\ Roots' = Roots \cup {t} /\ t \notin Roots
         /\ \A f \in Tokens : Family(f)' = IF f = t THEN {t} ELSE Family(f)
<1> USE DEF RowsOK, Opened
<1>1. row'[t] = [ row[t] EXCEPT !.state = "live" ] /\ \A s \in Tokens : s # t => row'[s] = row[s]
  OBVIOUS
<1>2. row[t].family = t /\ row[t] \in TokenRow
  OBVIOUS
<1>3. row' \in [Tokens -> TokenRow]
  BY <1>2 DEF TokenRow, TokenStates
<1>4. row'[t].state = "live" /\ row'[t].family = t
  BY <1>1, <1>2 DEF TokenRow
<1>5. Roots' = Roots \cup {t} /\ t \notin Roots
  BY <1>1, <1>4 DEF Roots
<1>6. AllUnrevoked' = AllUnrevoked \cup {t} /\ t \notin AllUnrevoked
  BY <1>1, <1>4 DEF AllUnrevoked, Unrevoked
<1>7. \A s \in AllUnrevoked : row[s].family # t /\ row'[s] = row[s]
  BY <1>1, <1>5, <1>6 DEF AllUnrevoked, Unrevoked
<1>8. RowsOK'
  <2>1. \A s \in Tokens : row'[s].state = "absent" => row'[s].family = s
    BY <1>1, <1>4
  <2>2. \A s \in Tokens : row'[s].state # "absent" => row'[s].family \in Roots'
    BY <1>1, <1>4, <1>5
  <2>3. \A s, u \in AllUnrevoked' : row'[s].family = row'[u].family => s = u
    BY <1>4, <1>6, <1>7
  <2> QED
    BY <1>3, <2>1, <2>2, <2>3
<1>9. \A f \in Tokens : Family(f)' = IF f = t THEN {t} ELSE Family(f)
  BY <1>4, <1>6, <1>7 DEF Family
<1> QED
  BY <1>5, <1>8, <1>9

\* Of a family, a rotation leaves the successor alone.
LEMMA RotatedRows ==
  ASSUME RowsOK, NEW t \in Tokens, NEW s \in Tokens, Consumable(t), row[s].state = "absent",
         row' = Rotated(t, s)
  PROVE  /\ RowsOK'
         /\ Roots' = Roots /\ row[t].family \in Roots
         /\ \A f \in Tokens : Family(f)' = IF f = row[t].family THEN {s} ELSE Family(f)
         /\ \A u \in Tokens : row'[u].state # "absent" <=> row[u].state # "absent" \/ u = s
<1> USE DEF RowsOK, Rotated
<1> DEFINE g == row[t].family
<1>1. row[t].state = "live" /\ t # s /\ g \in Roots /\ g \in Tokens /\ g # s
  BY DEF Consumable, Unrevoked, Roots, TokenRow
<1>2. row'[s] = [ state |-> "live", family |-> g ]
  BY <1>1
<1>3. row'[t] = [ row[t] EXCEPT !.state = "used" ]
  BY <1>1
<1>4. \A u \in Tokens : u # s /\ u # t => row'[u] = row[u]
  OBVIOUS
<1>5. row'[t].state = "used" /\ row'[t].family = g /\ row'[t] \in TokenRow /\ row'[s] \in TokenRow
  BY <1>1, <1>2, <1>3 DEF TokenRow, TokenStates
<1>6. row' \in [Tokens -> TokenRow]
  BY <1>5
<1>7. Roots' = Roots
  BY <1>1, <1>2, <1>4, <1>5 DEF Roots
<1>8. AllUnrevoked' = (AllUnrevoked \ {t}) \cup {s} /\ s \notin AllUnrevoked /\ t \in AllUnrevoked
  BY <1>1, <1>2, <1>4, <1>5 DEF AllUnrevoked, Unrevoked
<1>9. ASSUME NEW u \in AllUnrevoked \ {t}
      PROVE  u \in Tokens /\ row'[u] = row[u] /\ row[u].family # g
  <2>1. u \in Tokens /\ u # s
    BY <1>8 DEF AllUnrevoked
  <2>2. row'[u] = row[u]
    BY <1>4, <2>1
  <2>3. row[u].family # row[t].family
    BY <1>8
  <2> QED
    BY <2>1, <2>2, <2>3
<1>10. RowsOK'
  <2>1. \A u \in Tokens : row'[u].state = "absent" => row'[u].family = u
    BY <1>2, <1>4, <1>5
  <2>2. \A u \in Tokens : row'[u].state # "absent" => row'[u].family \in Roots'
    BY <1>1, <1>2, <1>4, <1>5, <1>7
  <2>3. \A u, v \in AllUnrevoked' : row'[u].family = row'[v].family => u = v
    BY <1>2, <1>8, <1>9
  <2> QED
    BY <1>6, <2>1, <2>2, <2>3
<1>11. ASSUME NEW f \in Tokens
       PROVE  Family(f)' = IF f = g THEN {s} ELSE Family(f)
  <2>1. Family(f)' = { u \in AllUnrevoked' : row'[u].family = f }
    BY DEF Family
  <2>2. row'[s].family = g
    BY <1>2
  <2>3. Family(f) = { u \in AllUnrevoked : row[u].family = f }
    BY DEF Family
  <2>4. CASE f = g
    BY <1>8, <1>9, <2>1, <2>2, <2>4
  <2>5. CASE f # g
    <3>1. \A u : u \in Family(f)' <=> u \in Family(f)
      BY <1>8, <1>9, <2>1, <2>2, <2>3, <2>5
    <3> QED
      BY <3>1, <2>5
  <2> QED
    BY <2>4, <2>5
<1>12. \A u \in Tokens : row'[u].state # "absent" <=> row[u].state # "absent" \/ u = s
  BY <1>1, <1>2, <1>4, <1>5
<1> QED
  BY <1>1, <1>7, <1>10, <1>11, <1>12

\* A revocation ends some families, whole, as each has one token that works at most.
LEMMA RevokedRows ==
  ASSUME RowsOK, NEW seen, row' = Revoked(seen)
  PROVE  /\ RowsOK'
         /\ Roots' = Roots
         /\ \A f \in Tokens : Family(f)' = IF Family(f) \subseteq seen THEN {} ELSE Family(f)
         /\ \A u \in Tokens : row'[u].state # "absent" <=> row[u].state # "absent"
<1> USE DEF RowsOK, Revoked
<1>1. \A u \in Tokens : u \notin seen \/ ~Unrevoked(u) => row'[u] = row[u]
  OBVIOUS
<1>2. \A u \in Tokens : u \in seen /\ Unrevoked(u) => row'[u] = [ row[u] EXCEPT !.state = "revoked" ]
  OBVIOUS
<1>3. ASSUME NEW u \in Tokens
      PROVE  /\ row'[u] \in TokenRow /\ row'[u].family = row[u].family
             /\ row'[u].state # "absent" <=> row[u].state # "absent"
             /\ row'[u].state = "live" <=> row[u].state = "live" /\ u \notin seen
  <2>1. row[u] \in TokenRow
    OBVIOUS
  <2>2. CASE u \in seen /\ Unrevoked(u)
    BY <1>2, <2>1, <2>2 DEF TokenRow, TokenStates, Unrevoked
  <2>3. CASE ~(u \in seen /\ Unrevoked(u))
    BY <1>1, <2>1, <2>3 DEF Unrevoked
  <2> QED
    BY <2>2, <2>3
<1>4. row' \in [Tokens -> TokenRow]
  BY <1>3
<1>5. Roots' = Roots
  BY <1>3 DEF Roots
<1>6. AllUnrevoked' = AllUnrevoked \ seen
  BY <1>3 DEF AllUnrevoked, Unrevoked
<1>7. RowsOK'
  <2>1. \A u \in Tokens : row'[u].state = "absent" => row'[u].family = u
    BY <1>3
  <2>2. \A u \in Tokens : row'[u].state # "absent" => row'[u].family \in Roots'
    BY <1>3, <1>5
  <2>3. \A u, v \in AllUnrevoked' : row'[u].family = row'[v].family => u = v
    BY <1>3, <1>6 DEF AllUnrevoked
  <2> QED
    BY <1>4, <2>1, <2>2, <2>3
<1>8. ASSUME NEW f \in Tokens
      PROVE  Family(f)' = IF Family(f) \subseteq seen THEN {} ELSE Family(f)
  <2>1. Family(f)' = Family(f) \ seen
    BY <1>3, <1>6 DEF Family, AllUnrevoked
  <2>2. \A u, v \in Family(f) : u = v
    BY DEF Family, AllUnrevoked
  <2> QED
    BY <2>1, <2>2
<1> QED
  BY <1>3, <1>5, <1>7, <1>8

-----------------------------------------------------------------------------
(* One-time links *)

LEMMA ConsumedLinks ==
  ASSUME LinksOK, NEW k \in Links, Unused(k), link' = Consumed(k)
  PROVE  /\ LinksOK'
         /\ \A j \in Links : j # k => link'[j] = link[j]
         /\ \A j \in Links : link[j].state # "absent" =>
              link'[j].state # "absent" /\ link'[j].purpose = link[j].purpose
<1> USE DEF LinksOK, LinkServesOnce, Consumed
<1>1. link[k] \in LinkRow /\ link[k].served = 0
  <2>1. link[k] \in LinkRow /\ link[k].served \in 0 .. 2
    BY DEF LinkRow
  <2>2. link[k].served <= 1 /\ link[k].served # 1
    BY DEF Unused
  <2> QED
    BY <2>1, <2>2
<1>2. link'[k] = [ link[k] EXCEPT !.state = "used", !.served = link[k].served + 1 ]
  OBVIOUS
<1>3. /\ link'[k].state = "used" /\ link'[k].served = 1
      /\ link'[k].purpose = link[k].purpose /\ link'[k] \in LinkRow
  <2>1. PICK state \in LinkStates, purpose \in Purposes :
          link[k] = [ state |-> state, purpose |-> purpose, served |-> 0 ]
    BY <1>1 DEF LinkRow
  <2>2. link'[k] = [ state |-> "used", purpose |-> purpose, served |-> 1 ]
    BY <1>2, <2>1
  <2>3. [ state |-> "used", purpose |-> purpose, served |-> 1 ] \in LinkRow
    BY DEF LinkRow, LinkStates
  <2> QED
    BY <2>1, <2>2, <2>3
<1>4. \A j \in Links : j # k => link'[j] = link[j]
  OBVIOUS
<1>5. link' \in [Links -> LinkRow]
  BY <1>3
<1>6. LinkServesOnce'
  BY <1>3, <1>4
<1> QED
  BY <1>3, <1>4, <1>5, <1>6

LEMMA IssuedLinks ==
  ASSUME LinksOK, NEW seen, NEW purpose \in Purposes, NEW k \in Links, link[k].state = "absent",
         link' = Issued(seen, purpose, k)
  PROVE  /\ LinksOK'
         /\ \A j \in Links : j # k /\ j \notin seen => link'[j] = link[j]
         /\ \A j \in Links : link[j].state # "absent" =>
              link'[j].state # "absent" /\ link'[j].purpose = link[j].purpose
<1> USE DEF LinksOK, LinkServesOnce, Issued
<1>1. link'[k] = [ state |-> "unused", purpose |-> purpose, served |-> 0 ]
  OBVIOUS
<1>2. \A j \in Links : j # k /\ j \notin seen => link'[j] = link[j]
  OBVIOUS
<1>3. ASSUME NEW j \in Links, j # k, j \in seen
      PROVE  /\ link'[j].state = "used" /\ link'[j].purpose = link[j].purpose
             /\ link'[j].served = link[j].served /\ link'[j] \in LinkRow
  <2>1. link[j] \in LinkRow /\ link'[j] = [ link[j] EXCEPT !.state = "used" ]
    BY <1>3
  <2> QED
    BY <2>1 DEF LinkRow, LinkStates
<1>4. link'[k] \in LinkRow
  BY <1>1 DEF LinkRow, LinkStates
<1>5. link' \in [Links -> LinkRow]
  BY <1>2, <1>3, <1>4
<1>6. LinkServesOnce'
  BY <1>1, <1>2, <1>3
<1>7. \A j \in Links : link[j].state # "absent" =>
        link'[j].state # "absent" /\ link'[j].purpose = link[j].purpose
  BY <1>2, <1>3
<1> QED
  BY <1>2, <1>5, <1>6, <1>7

\* A request that consumes a link of which no reset holds the lock, and goes on or ends.
LEMMA ConsumeKeeps ==
  ASSUME LinksOK, ReqsOK, NEW r \in Requests, NEW k \in Links, Unused(k), link' = Consumed(k),
         \A q \in Requests : q # r /\ InTx(q) /\ req[q].op = "reset" => req[q].token # k,
         NEW op \in {"idle", "open"}, Goes(r, op, None)
  PROVE  LinksOK' /\ ReqsOK'
<1>1. TokenFits(op, None)'
  BY DEF TokenFits
<1>2. \A q \in Requests : q # r /\ InTx(q) /\ req[q].op = "reset" => link'[req[q].token].state = "unused"
  BY ConsumedLinks DEF ReqsOK, Unused, TokenFits
<1>3. op \in Ops
  BY DEF Ops
<1> QED
  BY <1>1, <1>2, <1>3, ConsumedLinks, GoesKeeps

-----------------------------------------------------------------------------
(* The steps *)

LEMMA IssuePairKeeps ==
  ASSUME IInv, NEW r \in Requests, IssuePair(r), UNCHANGED menu
  PROVE  IInv'
<1>1. RowsOK'
  BY OpenedRows DEF IInv, IssuePair
<1>2. ReqsOK'
  BY EndsKeeps DEF IInv, IssuePair
<1> QED
  BY <1>1, <1>2 DEF IInv, IssuePair, LinksOK, LinkServesOnce, AccountOK

LEMMA RotateKeeps ==
  ASSUME IInv, NEW r \in Requests, Rotate(r), UNCHANGED menu
  PROVE  IInv'
<1>1. req[r].token \in Tokens
  BY DEF IInv, ReqsOK, TokenFits, Rotate
<1>3. RowsOK'
  <2>1. CASE Consumable(req[r].token)
    BY <1>1, <2>1, RotatedRows DEF IInv, Rotate
  <2>2. CASE ~Consumable(req[r].token)
    BY <2>2 DEF IInv, Rotate, RowsOK, Roots, AllUnrevoked, Unrevoked
  <2> QED
    BY <2>1, <2>2
<1>4. ReqsOK'
  BY EndsKeeps DEF IInv, Rotate
<1> QED
  BY <1>3, <1>4 DEF IInv, Rotate, LinksOK, LinkServesOnce, AccountOK

LEMMA ConsumeChallengeKeeps ==
  ASSUME IInv, NEW r \in Requests, ConsumeChallenge(r), UNCHANGED menu
  PROVE  IInv'
<1> USE DEF IInv, ConsumeChallenge
<1>1. req[r].token \in Links /\ link[req[r].token].purpose = "challenge"
  BY DEF ReqsOK, TokenFits, Presented
<1>2. \A q \in Requests : InTx(q) /\ req[q].op = "reset" => req[q].token # req[r].token
  BY <1>1 DEF ReqsOK, TokenFits, Presented
<1>3. LinksOK' /\ ReqsOK'
  <2>1. CASE Serveable(req[r].token)
    BY <1>1, <1>2, <2>1, ConsumeKeeps DEF Serveable
  <2>2. CASE ~Serveable(req[r].token)
    BY <2>2, EndsKeeps DEF LinksOK, LinkServesOnce
  <2> QED
    BY <2>1, <2>2
<1> QED
  BY <1>3 DEF AccountOK, RowsOK, Roots, AllUnrevoked, Unrevoked

LEMMA ConfirmEmailKeeps ==
  ASSUME IInv, NEW r \in Requests, ConfirmEmail(r), UNCHANGED menu
  PROVE  IInv'
<1> USE DEF IInv, ConfirmEmail
<1>1. req[r].token \in Links /\ link[req[r].token].purpose = "verify"
  BY DEF ReqsOK, TokenFits, Presented
<1>2. \A q \in Requests : InTx(q) /\ req[q].op = "reset" => req[q].token # req[r].token
  BY <1>1 DEF ReqsOK, TokenFits, Presented
<1>3. LinksOK' /\ ReqsOK'
  <2>1. CASE Serveable(req[r].token)
    BY <1>1, <1>2, <2>1, ConsumeKeeps, EndsIsGoes DEF Serveable
  <2>2. CASE ~Serveable(req[r].token)
    BY <2>2, EndsKeeps DEF LinksOK, LinkServesOnce
  <2> QED
    BY <2>1, <2>2
<1>4. account' \in Account
  BY DEF AccountOK, Account
<1> QED
  BY <1>3, <1>4 DEF AccountOK, RowsOK, Roots, AllUnrevoked, Unrevoked

LEMMA UpdateUserKeeps ==
  ASSUME IInv, NEW r \in Requests, UpdateUser(r), UNCHANGED menu
  PROVE  IInv'
<1>1. account' \in Account
  BY DEF IInv, AccountOK, Account, Statuses, UpdateUser, Updates
<1>2. ReqsOK'
  BY EndsKeeps DEF IInv, UpdateUser
<1> QED
  BY <1>1, <1>2 DEF IInv, UpdateUser, AccountOK, RowsOK, Roots, AllUnrevoked, Unrevoked,
                     LinksOK, LinkServesOnce

LEMMA CommitIssueKeeps ==
  ASSUME IInv, NEW r \in Requests, CommitIssue(r), UNCHANGED menu
  PROVE  IInv'
<1> USE DEF IInv, CommitIssue
<1>1. PICK k \in Links : link[k].state = "absent" /\ link' = Issued(req[r].seen, PurposeOf[req[r].op], k)
  OBVIOUS
<1>2. PurposeOf[req[r].op] \in Purposes
  BY DEF Issues, PurposeOf, Purposes
<1>3. /\ LinksOK'
      /\ \A j \in Links : j # k /\ j \notin req[r].seen => link'[j] = link[j]
      /\ \A j \in Links : link[j].state # "absent" =>
           link'[j].state # "absent" /\ link'[j].purpose = link[j].purpose
  BY <1>1, <1>2, IssuedLinks
<1>4. ASSUME NEW q \in Requests, InTx(q), req[q].op = "reset"
      PROVE  link'[req[q].token].state = "unused"
  <2>1. req[q].token \in Links /\ link[req[q].token].state = "unused"
    BY <1>4 DEF ReqsOK, TokenFits, Unused
  <2>2. req[q].token \notin req[r].seen
    BY <1>4 DEF HeldLinks, InTx
  <2> QED
    BY <1>1, <1>3, <2>1, <2>2
<1>5. PICK op \in {"open", "idle"} : Goes(r, op, None)
  BY EndsIsGoes
<1>6. TokenFits(op, None)' /\ op \in Ops
  BY DEF TokenFits, Ops
<1>7. ReqsOK'
  BY <1>3, <1>4, <1>5, <1>6, GoesKeeps
<1> QED
  BY <1>3, <1>7 DEF AccountOK, RowsOK, Roots, AllUnrevoked, Unrevoked

LEMMA CommitSweepKeeps ==
  ASSUME IInv, NEW r \in Requests, CommitSweep(r), UNCHANGED menu
  PROVE  IInv'
<1> USE DEF IInv, CommitSweep
<1>1. RowsOK'
  BY RevokedRows
<1>2. account' \in Account
  BY DEF AccountOK, Account, Statuses
<1>3. LinksOK' /\ ReqsOK'
  <2>1. CASE req[r].op = "reset"
    <3>1. req[r].token \in Links /\ Unused(req[r].token)
      BY <2>1 DEF ReqsOK, TokenFits, InTx
    <3>2. \A q \in Requests : InTx(q) /\ req[q].op = "reset" => q = r
      BY <2>1 DEF ReqsOK, Locks, InTx, LockUser
    <3> QED
      BY <2>1, <3>1, <3>2, ConsumeKeeps, EndsIsGoes
  <2>2. CASE req[r].op # "reset"
    BY <2>2, EndsKeeps DEF LinksOK, LinkServesOnce
  <2> QED
    BY <2>1, <2>2
<1> QED
  BY <1>1, <1>2, <1>3 DEF AccountOK

LEMMA LogoutKeeps ==
  ASSUME IInv, NEW r \in Requests, NEW t \in Tokens, Logout(r, t), UNCHANGED menu
  PROVE  IInv'
<1>1. RowsOK'
  BY RevokedRows DEF IInv, Logout
<1>2. ReqsOK'
  BY DEF IInv, Logout, ReqsOK, TokenFits, Locks, InTx, Unused
<1> QED
  BY <1>1, <1>2 DEF IInv, Logout, LinksOK, LinkServesOnce, AccountOK

LEMMA CrashKeeps ==
  ASSUME IInv, NEW r \in Requests, Crash(r), UNCHANGED menu
  PROVE  IInv'
<1>1. ReqsOK'
  BY EndsKeeps DEF IInv, Crash
<1> QED
  BY <1>1 DEF IInv, Crash, AccountOK, RowsOK, Roots, AllUnrevoked, Unrevoked, LinksOK, LinkServesOnce

LEMMA InitKeeps == InitAccounts => IInv
<1> SUFFICES ASSUME InitAccounts PROVE IInv
  OBVIOUS
<1> USE DEF InitAccounts, InitSessions
<1>1. RowsOK
  BY DEF RowsOK, TokenRow, TokenStates, Roots, AllUnrevoked, Unrevoked
<1>2. LinksOK
  BY DEF LinksOK, LinkServesOnce, LinkRow, LinkStates, Purposes
<1>3. ReqsOK
  <2>1. Started("register", None) \in Request /\ Idle \in Request
    BY DEF Started, Idle, Request, Ops, Issues, PurposeOf
  <2>2. \A r \in Requests : req[r] \in {Started("register", None), Idle}
    OBVIOUS
  <2>3. req \in [Requests -> Request]
    BY <2>1
  <2>4. \A r \in Requests : ~InTx(r) /\ req[r].op \in {"register", "idle"}
    BY <2>2 DEF InTx, Started, Idle
  <2> QED
    BY <2>3, <2>4 DEF ReqsOK, TokenFits, Locks
<1>4. AccountOK
  BY DEF AccountOK, Account, Statuses
<1> QED
  BY <1>1, <1>2, <1>3, <1>4 DEF IInv

LEMMA NextKeeps == IInv /\ [NextAccounts]_accountVars => IInv'
<1> SUFFICES ASSUME IInv, [NextAccounts]_accountVars PROVE IInv'
  OBVIOUS
<1>1. CASE UNCHANGED accountVars
  BY <1>1 DEF accountVars, IInv, RowsOK, LinksOK, LinkServesOnce, ReqsOK, AccountOK, TokenFits, InTx,
              Locks, Roots, AllUnrevoked, Unrevoked, Unused
<1>2. CASE NextAccounts
  <2> USE DEF NextAccounts
  <2>1. ASSUME NEW r \in Requests, Read(r), UNCHANGED <<row, link, account>>
        PROVE  IInv'
    BY <1>2, <2>1, ReadKeeps
  <2>2. ASSUME NEW r \in Requests, IssuePair(r) \/ Rotate(r) \/ ConsumeChallenge(r)
        PROVE  IInv'
    BY <1>2, <2>2, IssuePairKeeps, RotateKeeps, ConsumeChallengeKeeps
  <2>3. ASSUME NEW r \in Requests, ConfirmEmail(r) \/ UpdateUser(r) \/ Snapshot(r)
        PROVE  IInv'
    BY <1>2, <2>3, ConfirmEmailKeeps, UpdateUserKeeps, SnapshotKeeps
  <2>4. ASSUME NEW r \in Requests, CommitIssue(r) \/ CommitSweep(r) \/ Crash(r)
        PROVE  IInv'
    BY <1>2, <2>4, CommitIssueKeeps, CommitSweepKeeps, CrashKeeps
  <2>5. ASSUME NEW r \in Requests, NEW t \in Tokens, Logout(r, t)
        PROVE  IInv'
    BY <1>2, <2>5, LogoutKeeps
  <2> QED
    BY <1>2, <2>1, <2>2, <2>3, <2>4, <2>5
<1> QED
  BY <1>1, <1>2

-----------------------------------------------------------------------------
\* The types hold in every reachable state.
THEOREM AccountsTypes == AccountsSpec => []AccountsTypeOK
<1>1. IInv => AccountsTypeOK
  BY DEF IInv, RowsOK, LinksOK, ReqsOK, AccountOK, AccountsTypeOK
<1> QED
  BY <1>1, InitKeeps, NextKeeps, PTL DEF AccountsSpec

\* No reset link, verification link or challenge is served twice: the reset by its lock on
\* the user's row, the others by the WHERE usedAt IS NULL of the statement itself.
THEOREM ServedOnce == AccountsSpec => []LinkServesOnce
<1>1. IInv => LinkServesOnce
  BY DEF IInv, LinksOK
<1> QED
  BY <1>1, InitKeeps, NextKeeps, PTL DEF AccountsSpec

-----------------------------------------------------------------------------
(* How many links of a purpose are outstanding *)

Issuing(r, purpose) == InTx(r) /\ req[r].op \in Issues /\ PurposeOf[req[r].op] = purpose

\* Every outstanding link of a purpose has a request of its own, the one that inserted
\* it: when that request issues again it sees that link, so that it supersedes it.
Owned(purpose, owner) ==
  /\ \A j, k \in Outstanding(purpose) : owner[j] = owner[k] => j = k
  /\ \A k \in Outstanding(purpose) :
       Issuing(owner[k], purpose) => k \in req[owner[k]].seen
EachOwned(purpose) == \E owner \in [Outstanding(purpose) -> Requests] : Owned(purpose, owner)
OwnInv == \A purpose \in Purposes : EachOwned(purpose)

\* Links that are consumed or superseded leave the others to their requests, as long as
\* whoever issues was issuing already, or sees every link there is.
LEMMA FewerOwned ==
  ASSUME NEW purpose \in Purposes, EachOwned(purpose),
         Outstanding(purpose)' \subseteq Outstanding(purpose),
         \A q \in Requests : Issuing(q, purpose)' =>
           \/ Issuing(q, purpose) /\ req'[q].seen = req[q].seen
           \/ Outstanding(purpose)' \subseteq req'[q].seen
  PROVE  EachOwned(purpose)'
<1>1. PICK owner \in [Outstanding(purpose) -> Requests] : Owned(purpose, owner)
  BY DEF EachOwned
<1>2. PICK new \in [Outstanding(purpose)' -> Requests] :
        \A k \in Outstanding(purpose)' : new[k] = owner[k]
  <2>1. [k \in Outstanding(purpose)' |-> owner[k]] \in [Outstanding(purpose)' -> Requests]
    OBVIOUS
  <2> QED
    BY <2>1
<1>3. \A j, k \in Outstanding(purpose)' : new[j] = new[k] => j = k
  BY <1>1, <1>2 DEF Owned
<1>4. ASSUME NEW k \in Outstanding(purpose)', Issuing(new[k], purpose)'
      PROVE  k \in req'[new[k]].seen
  <2>1. new[k] = owner[k] /\ owner[k] \in Requests /\ k \in Outstanding(purpose)
    BY <1>2
  <2>2. Issuing(owner[k], purpose)'
    BY <1>4, <2>1
  <2> QED
    BY <1>1, <2>1, <2>2 DEF Owned
<1>5. Owned(purpose, new)'
  BY <1>3, <1>4 DEF Owned
<1> QED
  BY <1>2, <1>5 DEF EachOwned

\* A request that begins, goes on or ends is not issuing yet.
LEMMA GoesOwned ==
  ASSUME ReqsOK, OwnInv, NEW r \in Requests, NEW op, NEW token, Goes(r, op, token),
         \A purpose \in Purposes : Outstanding(purpose)' \subseteq Outstanding(purpose)
  PROVE  OwnInv'
<1>1. \A q \in Requests : q # r => req'[q] = req[q]
  BY DEF Goes, ReqsOK
<1>2. ~InTx(r)'
  BY DEF Goes, Started, InTx, ReqsOK
<1>3. ASSUME NEW purpose \in Purposes
      PROVE  EachOwned(purpose)'
  <2>1. \A q \in Requests : Issuing(q, purpose)' =>
          Issuing(q, purpose) /\ req'[q].seen = req[q].seen
    BY <1>1, <1>2 DEF Issuing, InTx
  <2> QED
    BY <2>1, FewerOwned DEF OwnInv
<1> QED
  BY <1>3 DEF OwnInv

LEMMA SameOutstanding ==
  ASSUME UNCHANGED link
  PROVE  \A purpose \in Purposes : Outstanding(purpose)' = Outstanding(purpose)
BY DEF Outstanding, Unused

\* The UPDATE that supersedes takes every link of its purpose that is outstanding.
LEMMA SnapshotOwned ==
  ASSUME ReqsOK, OwnInv, NEW r \in Requests, Snapshot(r)
  PROVE  OwnInv'
<1> USE DEF Snapshot
<1>1. \A purpose \in Purposes : Outstanding(purpose)' = Outstanding(purpose)
  BY SameOutstanding
<1>2. CASE Ends(r)
  BY <1>1, <1>2, EndsIsGoes, GoesOwned
<1>3. CASE req' = [req EXCEPT ![r] = [ @ EXCEPT !.inTx = TRUE, !.seen = Visible(r) ]]
  <2>1. req[r] \in Request /\ req'[r] = [ req[r] EXCEPT !.inTx = TRUE, !.seen = Visible(r) ]
    BY <1>3 DEF ReqsOK
  <2>2. req'[r].op = req[r].op /\ req'[r].seen = Visible(r)
    BY <2>1 DEF Request
  <2>3. \A q \in Requests : q # r => req'[q] = req[q]
    BY <1>3 DEF ReqsOK
  <2>4. ASSUME NEW purpose \in Purposes
        PROVE  EachOwned(purpose)'
    <3>1. ASSUME NEW q \in Requests, q # r, Issuing(q, purpose)'
          PROVE  Issuing(q, purpose) /\ req'[q].seen = req[q].seen
      BY <2>3, <3>1 DEF Issuing, InTx
    <3>2. ASSUME Issuing(r, purpose)'
          PROVE  Outstanding(purpose) = req'[r].seen
      <4>1. req[r].op \in Issues /\ PurposeOf[req[r].op] = purpose
        BY <2>2, <3>2 DEF Issuing
      <4>2. Visible(r) = Outstanding(PurposeOf[req[r].op])
        BY <4>1 DEF Visible, Issues, PurposeOf
      <4> QED
        BY <2>2, <4>1, <4>2
    <3>3. EachOwned(purpose) /\ Outstanding(purpose)' = Outstanding(purpose)
      BY <1>1 DEF OwnInv
    <3> QED
      BY <3>1, <3>2, <3>3, FewerOwned
  <2> QED
    BY <2>4 DEF OwnInv
<1> QED
  BY <1>2, <1>3

\* The one step that adds a link: its request owns it from now on, and what the request
\* owned before was among the links it saw.
LEMMA CommitIssueOwned ==
  ASSUME ReqsOK, LinksOK, OwnInv, NEW r \in Requests, CommitIssue(r)
  PROVE  OwnInv'
<1> USE DEF CommitIssue
<1>2. PICK mine \in Purposes : mine = PurposeOf[req[r].op]
  BY DEF Issues, PurposeOf, Purposes
<1>1. PICK k \in Links : link[k].state = "absent" /\ link' = Issued(req[r].seen, mine, k)
  BY <1>2
<1>3. /\ link'[k] = [ state |-> "unused", purpose |-> mine, served |-> 0 ]
      /\ \A j \in Links : j # k /\ j \notin req[r].seen => link'[j] = link[j]
      /\ \A j \in Links : j # k /\ j \in req[r].seen => link'[j] = [ link[j] EXCEPT !.state = "used" ]
  BY <1>1 DEF Issued
<1>4. ASSUME NEW j \in Links, j # k, j \in req[r].seen
      PROVE  link'[j].state = "used"
  <2>1. link[j] \in LinkRow /\ link'[j] = [ link[j] EXCEPT !.state = "used" ]
    BY <1>3, <1>4 DEF LinksOK
  <2> QED
    BY <2>1 DEF LinkRow
<1>5. Outstanding(mine)' \subseteq (Outstanding(mine) \ req[r].seen) \cup {k}
  BY <1>3, <1>4 DEF Outstanding, Unused
<1>6. \A purpose \in Purposes : purpose # mine => Outstanding(purpose)' \subseteq Outstanding(purpose)
  BY <1>3, <1>4 DEF Outstanding, Unused
<1>7. ~InTx(r)' /\ \A q \in Requests : q # r => req'[q] = req[q]
  BY EndsIsGoes DEF ReqsOK, InTx, Goes, Started
<1>8. ASSUME NEW purpose \in Purposes, NEW q \in Requests, Issuing(q, purpose)'
      PROVE  q # r /\ Issuing(q, purpose) /\ req'[q].seen = req[q].seen
  BY <1>7, <1>8 DEF Issuing, InTx
<1>9. EachOwned(mine)'
  <2>1. PICK owner \in [Outstanding(mine) -> Requests] : Owned(mine, owner)
    BY DEF OwnInv, EachOwned
  <2>2. Issuing(r, mine)
    BY <1>2 DEF Issuing, InTx
  <2>3. ASSUME NEW j \in Outstanding(mine)', j # k
        PROVE  j \in Outstanding(mine) /\ owner[j] \in Requests /\ owner[j] # r
    <3>1. j \in Outstanding(mine) /\ j \notin req[r].seen
      BY <1>5, <2>3
    <3> QED
      BY <2>1, <2>2, <3>1 DEF Owned
  <2>4. PICK new \in [Outstanding(mine)' -> Requests] :
          \A j \in Outstanding(mine)' : new[j] = IF j = k THEN r ELSE owner[j]
    <3>1. [j \in Outstanding(mine)' |-> IF j = k THEN r ELSE owner[j]]
            \in [Outstanding(mine)' -> Requests]
      BY <2>3
    <3> QED
      BY <3>1
  <2>5. ASSUME NEW i \in Outstanding(mine)', NEW j \in Outstanding(mine)', new[i] = new[j]
        PROVE  i = j
    <3>1. CASE i # k /\ j # k
      BY <2>1, <2>3, <2>4, <2>5, <3>1 DEF Owned
    <3>2. CASE i = k \/ j = k
      BY <2>3, <2>4, <2>5, <3>2
    <3> QED
      BY <3>1, <3>2
  <2>6. ASSUME NEW j \in Outstanding(mine)', Issuing(new[j], mine)'
        PROVE  j \in req'[new[j]].seen
    <3>1. new[j] \in Requests
      BY <2>4
    <3>2. new[j] # r /\ Issuing(new[j], mine) /\ req'[new[j]].seen = req[new[j]].seen
      BY <1>8, <2>6, <3>1
    <3>3. j # k
      BY <2>4, <3>2
    <3>4. j \in Outstanding(mine) /\ new[j] = owner[j]
      BY <2>3, <2>4, <3>3
    <3> QED
      BY <2>1, <3>2, <3>4 DEF Owned
  <2>7. Owned(mine, new)'
    BY <2>5, <2>6 DEF Owned
  <2> QED
    BY <2>4, <2>7 DEF EachOwned
<1>10. ASSUME NEW purpose \in Purposes, purpose # mine
       PROVE  EachOwned(purpose)'
  <2>1. EachOwned(purpose)
    BY DEF OwnInv
  <2>2. \A q \in Requests : Issuing(q, purpose)' =>
          Issuing(q, purpose) /\ req'[q].seen = req[q].seen
    BY <1>8
  <2> QED
    BY <1>6, <1>10, <2>1, <2>2, FewerOwned
<1> QED
  BY <1>9, <1>10 DEF OwnInv

\* Only an issue adds a link that is outstanding.
LEMMA ConsumedShrinks ==
  ASSUME LinksOK, NEW k \in Links, Unused(k), link' = Consumed(k)
  PROVE  \A purpose \in Purposes : Outstanding(purpose)' \subseteq Outstanding(purpose)
<1>1. \A j \in Links : j # k => link'[j] = link[j]
  BY ConsumedLinks
<1>2. link[k].state # "absent" => link'[k].purpose = link[k].purpose
  BY ConsumedLinks
<1> QED
  BY <1>1, <1>2 DEF Outstanding, Unused

LEMMA LinksShrink ==
  ASSUME IInv, NEW r \in Requests, ConsumeChallenge(r) \/ ConfirmEmail(r) \/ CommitSweep(r)
  PROVE  \A purpose \in Purposes : Outstanding(purpose)' \subseteq Outstanding(purpose)
<1>1. CASE UNCHANGED link
  BY <1>1, SameOutstanding
<1>2. ASSUME NEW k \in Links, Unused(k), link' = Consumed(k)
      PROVE  \A purpose \in Purposes : Outstanding(purpose)' \subseteq Outstanding(purpose)
  BY <1>2, ConsumedShrinks DEF IInv
<1>3. CASE ConsumeChallenge(r) \/ ConfirmEmail(r)
  <2>1. req[r].token \in Links
    BY <1>3 DEF IInv, ReqsOK, TokenFits, ConsumeChallenge, ConfirmEmail
  <2> QED
    BY <1>1, <1>2, <1>3, <2>1 DEF ConsumeChallenge, ConfirmEmail, Serveable
<1>4. CASE CommitSweep(r)
  <2>1. req[r].op = "reset" => req[r].token \in Links /\ Unused(req[r].token)
    BY <1>4 DEF IInv, ReqsOK, TokenFits, CommitSweep, InTx
  <2> QED
    BY <1>1, <1>2, <1>4, <2>1 DEF CommitSweep
<1> QED
  BY <1>3, <1>4

LEMMA NextOwned ==
  ASSUME IInv, OwnInv, [NextAccounts]_accountVars
  PROVE  OwnInv'
<1> USE DEF NextAccounts, IInv
<1>1. ASSUME UNCHANGED <<req, link>>
      PROVE  OwnInv'
  <2>1. \A purpose \in Purposes : Outstanding(purpose)' = Outstanding(purpose)
    BY <1>1, SameOutstanding
  <2>2. ASSUME NEW purpose \in Purposes
        PROVE  EachOwned(purpose)'
    <3>1. \A q \in Requests : Issuing(q, purpose)' =>
            Issuing(q, purpose) /\ req'[q].seen = req[q].seen
      BY <1>1 DEF Issuing, InTx
    <3> QED
      BY <2>1, <3>1, FewerOwned DEF OwnInv
  <2> QED
    BY <2>2 DEF OwnInv
<1>2. ASSUME NEW r \in Requests, Read(r), UNCHANGED <<row, link, account>>
      PROVE  OwnInv'
  <2>1. PICK op \in Ops, token \in Tokens \cup Links \cup {None} : Goes(r, op, token)
    BY <1>2, ReadGoes
  <2> QED
    BY <1>2, <2>1, SameOutstanding, GoesOwned
<1>3. ASSUME NEW r \in Requests, IssuePair(r) \/ Rotate(r) \/ UpdateUser(r) \/ Crash(r)
      PROVE  OwnInv'
  <2>1. Ends(r) /\ UNCHANGED link
    BY <1>3 DEF IssuePair, Rotate, UpdateUser, Crash
  <2> QED
    BY <2>1, SameOutstanding, EndsIsGoes, GoesOwned
<1>4. ASSUME NEW r \in Requests, ConsumeChallenge(r) \/ ConfirmEmail(r) \/ CommitSweep(r)
      PROVE  OwnInv'
  <2>1. PICK op \in {"open", "idle"} : Goes(r, op, None)
    BY <1>4, EndsIsGoes DEF ConsumeChallenge, ConfirmEmail, CommitSweep
  <2> QED
    BY <1>4, <2>1, LinksShrink, GoesOwned
<1>5. ASSUME NEW r \in Requests, Snapshot(r) \/ CommitIssue(r)
      PROVE  OwnInv'
  BY <1>5, SnapshotOwned, CommitIssueOwned
<1>6. ASSUME NEW r \in Requests, NEW t \in Tokens, Logout(r, t)
      PROVE  OwnInv'
  BY <1>1, <1>6 DEF Logout
<1>7. CASE UNCHANGED accountVars
  BY <1>1, <1>7 DEF accountVars
<1> QED
  BY <1>2, <1>3, <1>4, <1>5, <1>6, <1>7

LEMMA InitOwned == InitAccounts => OwnInv
<1> SUFFICES ASSUME InitAccounts PROVE OwnInv
  OBVIOUS
<1>1. \A purpose \in Purposes : Outstanding(purpose) = {}
  BY DEF InitAccounts, InitSessions, Outstanding, Unused
<1>2. ASSUME NEW purpose \in Purposes
      PROVE  EachOwned(purpose)
  <2>1. [k \in {} |-> None] \in [Outstanding(purpose) -> Requests]
    BY <1>1
  <2>2. Owned(purpose, [k \in {} |-> None])
    BY <1>1 DEF Owned
  <2> QED
    BY <2>1, <2>2 DEF EachOwned
<1> QED
  BY <1>2 DEF OwnInv

\* The requests that own them bound the links of a purpose.
LEMMA OwnedBounds ==
  ASSUME OwnInv
  PROVE  LinksSuperseded
<1>1. ASSUME NEW purpose \in Purposes
      PROVE  Cardinality(Outstanding(purpose)) <= Cardinality(Requests)
  <2>1. PICK owner \in [Outstanding(purpose) -> Requests] : Owned(purpose, owner)
    BY DEF OwnInv, EachOwned
  <2>2. owner \in Injection(Outstanding(purpose), Requests)
    BY <2>1 DEF Owned, Injection, IsInjective
  <2> QED
    BY <2>2, AccountsAssumption, FS_Injection DEF AccountsAssumption
<1> QED
  BY <1>1 DEF LinksSuperseded

\* "Issuing a new link invalidates the previous one": a request that issues leaves one link
\* of its own outstanding, so there are no more than there are requests at a time, however
\* the issues overlap, crash or wait for a password reset.
THEOREM OneLinkPerIssuer == AccountsSpec => []LinksSuperseded
<1>1. AccountsSpec => [](IInv /\ OwnInv)
  BY InitKeeps, InitOwned, NextKeeps, NextOwned, PTL DEF AccountsSpec
<1> QED
  BY <1>1, OwnedBounds, PTL

-----------------------------------------------------------------------------
(* What was under way when the account was closed *)

Openings == {"open", "register", "issueChallenge"}

\* The parts of Closed, apart from the account's own row.
NothingOpen == AllUnrevoked = {} /\ Outstanding("challenge") = {}
NobodyOpening == \A r \in Requests : req[r].op \notin Openings

LEMMA ClosedParts == Closed <=> Shut /\ NothingOpen /\ NobodyOpening
BY DEF Closed, NothingOpen, NobodyOpening, Openings

LEMMA SameOpen ==
  ASSUME NothingOpen, UNCHANGED <<row, link>>
  PROVE  NothingOpen'
BY DEF NothingOpen, AllUnrevoked, Unrevoked, Outstanding, Unused

\* A request that goes on with anything but an opening.
LEMMA GoesShut ==
  ASSUME ReqsOK, NobodyOpening, NEW r \in Requests, NEW op, NEW token, Goes(r, op, token),
         op \notin Openings
  PROVE  NobodyOpening'
BY DEF ReqsOK, NobodyOpening, Goes, Started

LEMMA EndsShut ==
  ASSUME ReqsOK, NobodyOpening, NEW r \in Requests, Ends(r)
  PROVE  NobodyOpening'
<1>1. "idle" \notin Openings
  BY DEF Openings
<1> QED
  BY <1>1, EndsIsGoes, GoesShut

\* A login asks for an account that can be used, a refresh for a token that is live.
LEMMA ReadShut ==
  ASSUME IInv, Closed, NEW r \in Requests, Read(r), UNCHANGED <<row, link, account>>
  PROVE  NothingOpen' /\ NobodyOpening'
<1>1. ReqsOK /\ NothingOpen /\ NobodyOpening /\ ~Usable
  BY ClosedParts DEF IInv, Shut, Usable
<1>2. \E op \in Ops \ Openings, token \in Tokens \cup Links \cup {None} : Goes(r, op, token)
  <2> USE DEF Begins, Ops, Sweeps, Updates, Openings
  <2>1. CASE Login(r)
    BY <1>1, <2>1 DEF Login
  <2>2. CASE LogoutAll(r) \/ DeleteMe(r) \/ Block(r) \/ Unblock(r)
    BY <2>2 DEF LogoutAll, DeleteMe, Block, Unblock
  <2>3. CASE RequestReset(r) \/ Resend(r)
    BY <2>3 DEF RequestReset, Resend, Issues, PurposeOf
  <2>4. CASE SetUpTotp(r) \/ EnableTotp(r) \/ DisableTotp(r)
    BY <2>4 DEF SetUpTotp, EnableTotp, DisableTotp
  <2>5. ASSUME NEW t \in Tokens, Refresh(r, t) \/ RevokeSession(r, t) \/ ChangePassword(r, t)
        PROVE  \E op \in Ops \ Openings, token \in Tokens \cup Links \cup {None} : Goes(r, op, token)
    <3>1. row[t].family \in Tokens
      BY DEF IInv, RowsOK, TokenRow
    <3> QED
      BY <2>5, <3>1 DEF Refresh, RevokeSession, ChangePassword
  <2>6. ASSUME NEW k \in Links, Present(r, k)
        PROVE  \E op \in Ops \ Openings, token \in Tokens \cup Links \cup {None} : Goes(r, op, token)
    BY <2>6 DEF Present
  <2> QED
    BY <2>1, <2>2, <2>3, <2>4, <2>5, <2>6 DEF Read
<1> QED
  BY <1>1, <1>2, SameOpen, GoesShut

\* What was read before the account was closed comes to nothing: the token to rotate and
\* the challenge to consume are looked at again, and neither is there.
LEMMA LateShut ==
  ASSUME IInv, Closed, NEW r \in Requests, Rotate(r) \/ ConsumeChallenge(r)
  PROVE  Ends(r) /\ UNCHANGED <<row, link, account>>
<1>1. AllUnrevoked = {} /\ Outstanding("challenge") = {}
  BY DEF Closed
<1>2. CASE Rotate(r)
  <2>1. req[r].token \in Tokens
    BY <1>2 DEF IInv, ReqsOK, TokenFits, Rotate
  <2>2. ~Consumable(req[r].token)
    BY <1>1, <2>1 DEF Consumable, AllUnrevoked
  <2> QED
    BY <1>2, <2>2 DEF Rotate
<1>3. CASE ConsumeChallenge(r)
  <2>1. req[r].token \in Links /\ link[req[r].token].purpose = "challenge"
    BY <1>3 DEF IInv, ReqsOK, TokenFits, Presented, ConsumeChallenge
  <2>2. ~Serveable(req[r].token)
    BY <1>1, <2>1 DEF Serveable, Outstanding
  <2> QED
    BY <1>3, <2>2 DEF ConsumeChallenge
<1> QED
  BY <1>2, <1>3

LEMMA IssueShut ==
  ASSUME IInv, Closed, NEW r \in Requests, CommitIssue(r)
  PROVE  NothingOpen' /\ NobodyOpening'
<1> USE DEF CommitIssue
<1>1. ReqsOK /\ LinksOK /\ NothingOpen /\ NobodyOpening
  BY ClosedParts DEF IInv
<1>2. req[r].op \in {"issueReset", "issueVerify"}
  BY <1>1 DEF NobodyOpening, Openings, Issues, PurposeOf
<1>3. PICK k \in Links : link' = Issued(req[r].seen, PurposeOf[req[r].op], k)
  OBVIOUS
<1>4. PurposeOf[req[r].op] \in Purposes \ {"challenge"}
  BY <1>2 DEF PurposeOf, Purposes
<1>5. /\ link'[k].purpose # "challenge"
      /\ \A j \in Links : j # k /\ j \notin req[r].seen => link'[j] = link[j]
  BY <1>3, <1>4 DEF Issued
<1>6. ASSUME NEW j \in Links, j # k, j \in req[r].seen
      PROVE  link'[j].state = "used"
  <2>1. link[j] \in LinkRow /\ link'[j] = [ link[j] EXCEPT !.state = "used" ]
    BY <1>1, <1>3, <1>6 DEF LinksOK, Issued
  <2> QED
    BY <2>1 DEF LinkRow
<1>7. NothingOpen'
  BY <1>1, <1>5, <1>6 DEF NothingOpen, AllUnrevoked, Unrevoked, Outstanding, Unused
<1>8. Ends(r)
  BY <1>2
<1> QED
  BY <1>1, <1>7, <1>8, EndsShut

LEMMA NextShut ==
  ASSUME IInv, Closed, [NextAccounts]_accountVars
  PROVE  NothingOpen' /\ NobodyOpening'
<1> USE DEF NextAccounts
<1>1. ReqsOK /\ RowsOK /\ NothingOpen /\ NobodyOpening
  BY ClosedParts DEF IInv
<1>2. ASSUME NEW r \in Requests, Ends(r), UNCHANGED <<row, link>>
      PROVE  NothingOpen' /\ NobodyOpening'
  BY <1>1, <1>2, SameOpen, EndsShut
<1>3. ASSUME NEW r \in Requests, Read(r), UNCHANGED <<row, link, account>>
      PROVE  NothingOpen' /\ NobodyOpening'
  BY <1>3, ReadShut
<1>4. ASSUME NEW r \in Requests, IssuePair(r)
      PROVE  FALSE
  BY <1>1, <1>4 DEF IssuePair, NobodyOpening, Openings
<1>5. ASSUME NEW r \in Requests, Rotate(r) \/ ConsumeChallenge(r) \/ UpdateUser(r) \/ Crash(r)
      PROVE  NothingOpen' /\ NobodyOpening'
  BY <1>2, <1>5, LateShut DEF UpdateUser, Crash
<1>6. "challenge" \in Purposes
  BY DEF Purposes
<1>7. ASSUME NEW r \in Requests, ConfirmEmail(r)
      PROVE  NothingOpen' /\ NobodyOpening'
  <2>1. Outstanding("challenge")' \subseteq Outstanding("challenge")
    BY <1>6, <1>7, LinksShrink
  <2>2. NothingOpen'
    BY <1>1, <1>7, <2>1 DEF NothingOpen, AllUnrevoked, Unrevoked, ConfirmEmail
  <2> QED
    BY <1>1, <1>7, <2>2, EndsShut DEF ConfirmEmail
<1>8. ASSUME NEW seen, row' = Revoked(seen), Outstanding("challenge")' \subseteq Outstanding("challenge")
      PROVE  NothingOpen'
  <2>1. \A t \in Tokens : row'[t] = row[t]
    BY <1>1, <1>8 DEF Revoked, NothingOpen, AllUnrevoked
  <2> QED
    BY <1>1, <1>8, <2>1 DEF NothingOpen, AllUnrevoked, Unrevoked
<1>9. ASSUME NEW r \in Requests, CommitSweep(r)
      PROVE  NothingOpen' /\ NobodyOpening'
  <2>1. Outstanding("challenge")' \subseteq Outstanding("challenge")
    BY <1>6, <1>9, LinksShrink
  <2> QED
    BY <1>1, <1>8, <1>9, <2>1, EndsShut DEF CommitSweep
<1>10. ASSUME NEW r \in Requests, NEW t \in Tokens, Logout(r, t)
       PROVE  NothingOpen' /\ NobodyOpening'
  <2>1. Outstanding("challenge")' \subseteq Outstanding("challenge")
    BY <1>6, <1>10, SameOutstanding DEF Logout
  <2> QED
    BY <1>1, <1>8, <1>10, <2>1 DEF Logout, NobodyOpening
<1>11. ASSUME NEW r \in Requests, Snapshot(r)
       PROVE  NothingOpen' /\ NobodyOpening'
  <2>1. CASE Ends(r)
    BY <1>2, <1>11, <2>1 DEF Snapshot
  <2>2. CASE req' = [req EXCEPT ![r] = [ @ EXCEPT !.inTx = TRUE, !.seen = Visible(r) ]]
    <3>1. req[r] \in Request /\ req'[r] = [ req[r] EXCEPT !.inTx = TRUE, !.seen = Visible(r) ]
      BY <1>1, <2>2 DEF ReqsOK
    <3>2. req'[r].op = req[r].op
      BY <3>1 DEF Request
    <3>3. \A q \in Requests : req'[q].op = req[q].op
      BY <1>1, <2>2, <3>2 DEF ReqsOK
    <3>4. NothingOpen'
      BY <1>1, <1>11, SameOpen DEF Snapshot
    <3> QED
      BY <1>1, <3>3, <3>4 DEF NobodyOpening
  <2> QED
    BY <1>11, <2>1, <2>2 DEF Snapshot
<1>12. CASE UNCHANGED accountVars
  BY <1>1, <1>12, SameOpen DEF accountVars, NobodyOpening
<1> QED
  BY <1>3, <1>4, <1>5, <1>7, <1>9, <1>10, <1>11, <1>12, IssueShut

\* Of the requests that were under way when an account was blocked or deleted with nothing
\* open, none opens a session or a challenge while it stays that way: a rotation and a
\* challenge look at the row again, and a login has read a usable account before.
THEOREM ClosedForGood == AccountsSpec => ClosedStaysClosed
<1>1. IInv /\ [NextAccounts]_accountVars => (Closed /\ Shut' => Closed')
  <2> SUFFICES ASSUME IInv, [NextAccounts]_accountVars, Closed, Shut'
               PROVE  Closed'
    OBVIOUS
  <2>1. NothingOpen' /\ NobodyOpening'
    BY NextShut
  <2> QED
    BY <2>1 DEF Closed, NothingOpen, NobodyOpening, Openings
<1>2. AccountsSpec => []IInv
  BY InitKeeps, NextKeeps, PTL DEF AccountsSpec
<1> QED
  BY <1>1, <1>2, PTL DEF AccountsSpec, ClosedStaysClosed

-----------------------------------------------------------------------------
(* The families a user sees *)

Working == [f \in Tokens |-> IF f \in Roots THEN Family(f) ELSE {}]
IssuedTokens == { t \in Tokens : row[t].state # "absent" }

\* A family has no token before it is opened.
LEMMA WorkingIsFamily == RowsOK => Working = [f \in Tokens |-> Family(f)]
<1> SUFFICES ASSUME RowsOK PROVE Working = [f \in Tokens |-> Family(f)]
  OBVIOUS
<1>1. ASSUME NEW f \in Tokens, f \notin Roots
      PROVE  Family(f) = {}
  BY <1>1 DEF Family, AllUnrevoked, Unrevoked, RowsOK
<1> QED
  BY <1>1 DEF Working

LEMMA WorkingIsFamilyNext == RowsOK' => (Working = [f \in Tokens |-> Family(f)])'
BY WorkingIsFamily, PTL

LEMMA InitImplements == InitAccounts => Promised!Init
<1> SUFFICES ASSUME InitAccounts PROVE Promised!Init
  OBVIOUS
<1> USE DEF InitAccounts, InitSessions
<1>1. Roots = {} /\ \A f \in Tokens : Family(f) = {}
  BY DEF Roots, Family, AllUnrevoked, Unrevoked
<1> QED
  BY <1>1 DEF Promised!Init

\* issuePair opens the family of the token it inserts.
LEMMA OpenImplements ==
  ASSUME RowsOK, NEW t \in Tokens, row[t].state = "absent", row' = Opened(t)
  PROVE  Promised!Open(t)
<1>1. RowsOK' /\ Roots' = Roots \cup {t} /\ t \notin Roots
  BY OpenedRows
<1>2. \A f \in Tokens : Family(f)' = IF f = t THEN {t} ELSE Family(f)
  BY OpenedRows
<1>3. Working' = [Working EXCEPT ![t] = {t}]
  <2>1. Working = [f \in Tokens |-> Family(f)] /\ Working' = [f \in Tokens |-> Family(f)']
    BY <1>1, WorkingIsFamily, WorkingIsFamilyNext
  <2> QED
    BY <1>2, <2>1
<1>4. IssuedTokens' = IssuedTokens \cup {t} /\ t \in Tokens \ IssuedTokens
  BY DEF IssuedTokens, Opened, RowsOK
<1> QED
  BY <1>1, <1>3, <1>4 DEF Promised!Open, Working, IssuedTokens

\* A rotation that commits refreshes the family of the token it consumes.
LEMMA RefreshImplements ==
  ASSUME RowsOK, NEW t \in Tokens, NEW s \in Tokens, Consumable(t), row[s].state = "absent",
         row' = Rotated(t, s)
  PROVE  \E f \in Tokens : Promised!Refresh(f)
<1> DEFINE g == row[t].family
<1>1. RowsOK' /\ Roots' = Roots /\ g \in Roots /\ g \in Tokens
  BY RotatedRows DEF Roots
<1>2. \A f \in Tokens : Family(f)' = IF f = g THEN {s} ELSE Family(f)
  BY RotatedRows
<1>3. t \in Family(g)
  BY DEF Family, AllUnrevoked, Consumable
<1>4. Working = [f \in Tokens |-> Family(f)] /\ Working' = [f \in Tokens |-> Family(f)']
  BY <1>1, WorkingIsFamily, WorkingIsFamilyNext
<1>5. Working' = [Working EXCEPT ![g] = {s}] /\ Working[g] # {}
  BY <1>1, <1>2, <1>3, <1>4
<1>6. IssuedTokens' = IssuedTokens \cup {s} /\ s \in Tokens \ IssuedTokens
  BY RotatedRows DEF IssuedTokens
<1> QED
  BY <1>1, <1>5, <1>6 DEF Promised!Refresh, Working, IssuedTokens

\* A revocation ends the families it takes the working token of.
LEMMA EndImplements ==
  ASSUME RowsOK, NEW seen, row' = Revoked(seen)
  PROVE  \E ended \in SUBSET Tokens : Promised!End(ended)
<1> DEFINE ended == { f \in Tokens : Family(f) \subseteq seen }
<1>1. /\ RowsOK' /\ Roots' = Roots
      /\ \A f \in Tokens : Family(f)' = IF Family(f) \subseteq seen THEN {} ELSE Family(f)
      /\ \A u \in Tokens : row'[u].state # "absent" <=> row[u].state # "absent"
  BY RevokedRows
<1>2. Working = [f \in Tokens |-> Family(f)] /\ Working' = [f \in Tokens |-> Family(f)']
  BY <1>1, WorkingIsFamily, WorkingIsFamilyNext
<1>3. Working' = [f \in Tokens |-> IF f \in ended THEN {} ELSE Working[f]]
  BY <1>1, <1>2
<1>4. IssuedTokens' = IssuedTokens
  BY <1>1 DEF IssuedTokens
<1>5. ended \in SUBSET Tokens
  OBVIOUS
<1> QED
  BY <1>1, <1>3, <1>4, <1>5 DEF Promised!End, Working, IssuedTokens

LEMMA RowStutters == UNCHANGED row => UNCHANGED Promised!vars
BY DEF Promised!vars, Roots, Family, AllUnrevoked, Unrevoked

LEMMA NextImplements == IInv /\ [NextAccounts]_accountVars => [Promised!Next]_Promised!vars
<1> SUFFICES ASSUME IInv, [NextAccounts]_accountVars
             PROVE  Promised!Next \/ UNCHANGED Promised!vars
  OBVIOUS
<1>1. CASE UNCHANGED row
  BY <1>1, RowStutters
<1>2. ASSUME NEW r \in Requests, IssuePair(r)
      PROVE  Promised!Next
  BY <1>2, OpenImplements DEF IInv, IssuePair, Promised!Next
<1>3. ASSUME NEW r \in Requests, Rotate(r), ~UNCHANGED row
      PROVE  Promised!Next
  <2>1. req[r].token \in Tokens
    BY <1>3 DEF IInv, ReqsOK, TokenFits, Rotate
  <2> QED
    BY <1>3, <2>1, RefreshImplements DEF IInv, Rotate, Promised!Next
<1>4. ASSUME NEW seen, row' = Revoked(seen)
      PROVE  Promised!Next
  BY <1>4, EndImplements DEF IInv, Promised!Next
<1>5. ASSUME NEW r \in Requests, CommitSweep(r) \/ \E t \in Tokens : Logout(r, t)
      PROVE  Promised!Next
  BY <1>4, <1>5 DEF CommitSweep, Logout
<1> QED
  BY <1>1, <1>2, <1>3, <1>5
     DEF NextAccounts, accountVars, ConsumeChallenge, ConfirmEmail, UpdateUser, Snapshot, CommitIssue,
         Crash

\* A user's sessions are families of which one token at a time works, that a refresh moves
\* to a token never used before and that never work again once ended: rotate, the
\* revocations and the sign-ins implement it, however they interleave.
THEOREM SessionsAreFamilies == AccountsSpec => FamiliesImplemented
<1>1. AccountsSpec => Promised!Spec
  BY InitKeeps, NextKeeps, InitImplements, NextImplements, PTL DEF AccountsSpec, Promised!Spec
<1> QED
  BY <1>1 DEF FamiliesImplemented
==============================================================================
