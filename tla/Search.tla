-------------------------------- MODULE Search --------------------------------
(***************************************************************************)
(* The search for masters: a visitor pages through a ranking while masters *)
(* are approved, rated, priced and moved about the category tree.  One     *)
(* request is several statements, none in a transaction.  Beside it, the   *)
(* pages of one master, the lists a client keeps of masters, and the       *)
(* master's requests on the services that are priced.                      *)
(***************************************************************************)
EXTENDS Naturals, Sequences, SequencesExt, FiniteSetsExt

CONSTANTS
  Pros,              \* masters
  Offers, OwnerOf,   \* rows of services, and whose each is
  Topics, NoTopic,   \* categories
  Joined,            \* createdAt of each master
  Away, Reach,       \* km from the visitor to the master's city, service_radius_km
  Now,               \* the time of day; a window ends at 0 when there is none
  Market,            \* a bound: the states the search starts in
  Queries, NoQuery,  \* a bound: what is searched for
  Errands,          \* a bound: what a calling is for
  MaxChanges,        \* a bound on what others write
  MaxCalls           \* a bound on the requests on one master

VARIABLES
  pro,               \* rows of master_profiles, with their categories and hours
  offer,             \* rows of services
  above,             \* parentId of each category
  changes,           \* writes of others
  selling,           \* the master's request on a service
  looking,           \* the request for a page of the search
  pages,             \* the pages received, and their totals
  calling,             \* the request on one master
  kept               \* favorites and recently_viewed_masters of the visitor

searchVars == <<pro, offer, above, changes, selling, looking, pages, calling, kept>>

Until == 0 .. Now + 1                         \* when a window ends
Pro == [ shown : BOOLEAN,                     \* APPROVED and active
         gone : BOOLEAN,                      \* deletedAt
         rating : Nat, in : SUBSET Topics,
         exception : Until, excepted : BOOLEAN,   \* the day's exception, if it has one
         weekly : Until, views : Nat ]
Offer == [ state : {"none", "live", "removed"}, active : BOOLEAN, price : Nat \ {0} ]   \* @Min(0.01)
Query == [ sort : {"created", "distance", "price:asc", "price:desc", "rating"}, limit : Nat \ {0},
           admin : BOOLEAN, topic : Topics \cup {NoTopic}, rating : Nat, min : Nat, max : Nat,
           day : {"any", "today", "later"}, radius : Nat ]     \* 0: no such condition

ASSUME SearchAssumption ==
  /\ IsFiniteSet(Pros) /\ Pros # {} /\ Offers # {} /\ Errands # {}
  /\ OwnerOf \in [Offers -> Pros] /\ NoTopic \notin Topics
  /\ Joined \in [Pros -> Nat] /\ Away \in [Pros -> Nat] /\ Reach \in [Pros -> Nat]
  /\ Now \in Nat /\ MaxChanges \in Nat /\ MaxCalls \in Nat
  /\ Market \subseteq [ pro : [Pros -> Pro], offer : [Offers -> Offer],
                        above : [Topics -> Topics \cup {NoTopic}] ]
  /\ Queries \subseteq Query /\ NoQuery \notin Queries

Selling == [ step : {"idle", "checked"}, op : {"create", "update", "remove"}, of : Offers ]
Looking == [ step : {"idle", "level1", "level2", "read"}, query : Queries \cup {NoQuery},
             topics : SUBSET Topics, rows : Seq(Pros), ranked : BOOLEAN, counted : BOOLEAN,
             total : Nat, matched : SUBSET Pros,   \* who met the query since it was asked
             moved : BOOLEAN, steady : BOOLEAN ]   \* the tree, or anything, was written since
Dto  == [ pro : Pros, shown : BOOLEAN, from : Nat ]
Page == [ items : Seq(Dto), total : Nat, matched : SUBSET Pros, moved : BOOLEAN, steady : BOOLEAN ]
Calling == [ step : {"idle", "admitted", "counting"}, of : Pros, errand : Errands, made : 0 .. MaxCalls ]
Keeping == [ favorites : SUBSET Pros, viewed : Seq(Pros) ]
AtRest(v) == v.step = "idle"

NotSelling(o) == [ step |-> "idle", op |-> "create", of |-> o ]
NotCalling(p, n) ==
  [ step |-> "idle", of |-> p, errand |-> CHOOSE u \in Errands : TRUE, made |-> n ]
NotLooking == [ step |-> "idle", query |-> NoQuery, topics |-> {}, rows |-> <<>>, ranked |-> FALSE,
                counted |-> FALSE, total |-> 0, matched |-> {}, moved |-> FALSE, steady |-> TRUE ]

InitSearch ==
  /\ \E m \in Market : pro = m.pro /\ offer = m.offer /\ above = m.above
  /\ changes = 0
  /\ selling = NotSelling(CHOOSE o \in Offers : TRUE)
  /\ \E q \in Queries \cup {NoQuery} : looking = [ NotLooking EXCEPT !.query = q ]
  /\ pages = <<>>
  /\ calling = NotCalling(CHOOSE p \in Pros : TRUE, 0)
  /\ kept = [ favorites |-> {}, viewed |-> <<>> ]

-----------------------------------------------------------------------------
(* conditionsFor(), scalarConditions(), priceCondition() and availableOnCondition(). *)
(* Of scalarConditions() the rating stands for all.  The raw query sees every row: a *)
(* removed service still counts as priced.                                           *)

Open(p)     == pro[p].shown /\ ~pro[p].gone
Priced(p)   == { o \in Offers : OwnerOf[o] = p /\ offer[o].state # "none" /\ offer[o].active }
PricesOf(p) == { offer[o].price : o \in Priced(p) }
WithinBounds(p, q) == \E n \in PricesOf(p) : q.min <= n /\ n <= q.max

OpenOn(p, day) ==
  \/ pro[p].excepted /\ pro[p].exception > Now
  \/ /\ ~pro[p].excepted /\ pro[p].weekly > 0
     /\ day = "later" \/ pro[p].weekly > Now

Nearby(p, q) == q.radius = 0 \/ (Away[p] <= q.radius /\ Away[p] <= Reach[p])

Meets(p, q, topics) ==
  /\ IF q.admin THEN ~pro[p].gone ELSE Open(p)  \* adminSearch() shows whom search() hides
  /\ pro[p].rating >= q.rating
  /\ q.max = 0 \/ WithinBounds(p, q)
  /\ q.topic = NoTopic \/ pro[p].in \cap topics # {}
  /\ q.day = "any" \/ OpenOn(p, q.day)
  /\ Nearby(p, q)

\* orderByFor(): a comes before b whatever the plan; there is no other tie-break.
Cheapest(p) == Min(PricesOf(p))
Precedes(q, a, b) ==
  CASE q.sort = "created"    -> Joined[a] > Joined[b]
    [] q.sort = "distance"   -> Away[a] < Away[b]
    [] q.sort = "price:asc"  -> PricesOf(a) # {} /\ (PricesOf(b) = {} \/ Cheapest(a) < Cheapest(b))
    [] q.sort = "price:desc" -> PricesOf(a) # {} /\ (PricesOf(b) = {} \/ Cheapest(a) > Cheapest(b))
    [] q.sort = "rating"     -> pro[a].rating > pro[b].rating
Rankings(q, found) ==
  { s \in SetToSeqs(found) : \A i, j \in DOMAIN s : i < j => ~Precedes(q, s[j], s[i]) }

\* descendantCategoryIds(): the children, then the children of those.
Below(topics) == { t \in Topics : above[t] \in topics }
Covered(t) ==                                  \* the reference: whose chain of parents has t
  { d \in Topics : \/ d = t \/ above[d] = t
                   \/ above[d] # NoTopic /\ above[above[d]] = t }

-----------------------------------------------------------------------------
(* What others write.  Each write is noted in the visitor's request. *)

Matching(q) ==
  { p \in Pros : Meets(p, q, IF q.topic = NoTopic \/ q.admin THEN {q.topic} ELSE Covered(q.topic)) }
Noticed(tree) ==
  /\ changes < MaxChanges /\ changes' = changes + 1
  /\ \E q \in {looking.query} :
       looking' = IF q = NoQuery THEN looking
                  ELSE [ looking EXCEPT !.steady = FALSE, !.moved = @ \/ tree,
                                        !.matched = @ \cup Matching(q)' ]

\* The write of a request whose own checks came before: an administrator's ruling or the
\* master's own switch, the end of the account, a review's rating, an exception of the day.
WriteProfile(p, row) ==
  /\ ~pro[p].gone /\ row # pro[p]
  /\ pro' = [pro EXCEPT ![p] = row]
  /\ UNCHANGED <<offer, above, selling, pages, calling, kept>> /\ Noticed(FALSE)

SetShown(p)  == WriteProfile(p, [ pro[p] EXCEPT !.shown = ~@ ])
EndPro(p)    == WriteProfile(p, [ pro[p] EXCEPT !.gone = TRUE, !.shown = FALSE ])   \* deleteMe()
SetRating(p) == \E r \in {1, 2} : WriteProfile(p, [ pro[p] EXCEPT !.rating = r ])
ExceptDay(p) == WriteProfile(p, [ pro[p] EXCEPT !.excepted = ~@ ])
AttachCategory(p, t) == WriteProfile(p, [ pro[p] EXCEPT !.in = @ \cup {t} ])
DetachCategory(p, t) == WriteProfile(p, [ pro[p] EXCEPT !.in = @ \ {t} ])

MoveTopic(t, to) ==
  /\ above[t] # to /\ to \notin Covered(t)
  /\ above' = [above EXCEPT ![t] = to]
  /\ UNCHANGED <<pro, offer, selling, pages, calling, kept>> /\ Noticed(TRUE)

\* ServicesService: create() finds the category attached, and a leaf; update() and
\* remove() find the row theirs and not removed.  Bound: while someone searches.
BeginSelling(o, op) ==
  /\ AtRest(selling) /\ changes < MaxChanges /\ looking.query # NoQuery
  /\ IF op = "create"
     THEN offer[o].state = "none" /\ \E t \in pro[OwnerOf[o]].in : Below({t}) = {}
     ELSE offer[o].state = "live"
  /\ selling' = [ step |-> "checked", op |-> op, of |-> o ]
  /\ UNCHANGED <<pro, offer, above, changes, looking, pages, calling, kept>>

\* The UPDATE is by id: a row removed meanwhile is written too, and stays removed.
WriteOffer ==
  /\ selling.step = "checked"
  /\ LET o == selling.of
         written(row) == offer' = [offer EXCEPT ![o] = row]
     IN  \/ /\ selling.op = "create"
            /\ \E n \in 1 .. 3 : written([ state |-> "live", active |-> TRUE, price |-> n ])
         \/ /\ selling.op = "update"
            /\ \E n \in {2, offer[o].price}, a \in BOOLEAN :
                 written([ offer[o] EXCEPT !.price = n, !.active = a ])
         \/ selling.op = "remove" /\ written([ offer[o] EXCEPT !.state = "removed" ])
  /\ selling' = NotSelling(selling.of)
  /\ UNCHANGED <<pro, above, pages, calling, kept>> /\ Noticed(FALSE)

-----------------------------------------------------------------------------
(* search() and adminSearch(): the category's descendants in two reads, the ranking *)
(* and the count side by side, then the rows again by id.                            *)

Look(doing) ==
  /\ looking' = doing
  /\ UNCHANGED <<pro, offer, above, changes, selling, calling, kept>>

\* The visitor asks for the first page, or for the one after the last.
AskPage ==
  /\ AtRest(looking) /\ looking.query # NoQuery
  /\ Len(pages) * looking.query.limit < Cardinality(Pros)
  /\ Look([ looking EXCEPT !.step = IF looking.query.topic = NoTopic \/ looking.query.admin
                                    THEN "read" ELSE "level1",
                           !.topics = {looking.query.topic} \ {NoTopic}, !.moved = FALSE,
                           !.steady = IF pages = <<>> THEN TRUE ELSE @,
                           !.matched = Matching(looking.query) ])
  /\ UNCHANGED pages

OneHop(topics)    == topics                    \* mutant: the children of the children are not read
TwoHops(topics)   == topics \cup Below(topics)

ReadChildren ==
  /\ looking.step = "level1"
  /\ Look([ looking EXCEPT !.step = "level2", !.topics = @ \cup Below(@) ])
  /\ UNCHANGED pages

ReadGrandchildren ==
  /\ looking.step = "level2"
  /\ Look([ looking EXCEPT !.step = "read",
                           !.topics = {looking.query.topic}
                                      \cup TwoHops(@ \ {looking.query.topic}) ])
  /\ UNCHANGED pages

Found == { p \in Pros : Meets(p, looking.query, looking.topics) }
Skip  == Len(pages) * looking.query.limit

RankPage ==
  /\ looking.step = "read" /\ ~looking.ranked
  /\ \E s \in Rankings(looking.query, Found) :
       Look([ looking EXCEPT !.ranked = TRUE,
              !.rows = SubSeq(s, Skip + 1, Min({Len(s), Skip + looking.query.limit})) ])
  /\ UNCHANGED pages

CountAll ==
  /\ looking.step = "read" /\ ~looking.counted
  /\ Look([ looking EXCEPT !.counted = TRUE, !.total = Cardinality(Found) ])
  /\ UNCHANGED pages

\* toMasterPublicDto, as the row is now.
PublicDto(p) ==
  [ pro |-> p, shown |-> pro[p].shown, from |-> IF PricesOf(p) = {} THEN 0 ELSE Cheapest(p) ]

\* What is left of a sequence without some masters.
Without(s, some) ==
  LET rest[n \in 0 .. Len(s)] ==
        IF n = 0 THEN <<>>
        ELSE IF s[n] \in some THEN rest[n - 1] ELSE Append(rest[n - 1], s[n])
  IN  rest[Len(s)]

AnswerWith(items) ==
  /\ looking.ranked /\ looking.counted
  /\ pages' = Append(pages, [ items |-> items, total |-> looking.total, matched |-> looking.matched,
                              moved |-> looking.moved, steady |-> looking.steady ])
  /\ Look([ NotLooking EXCEPT !.query = looking.query, !.steady = looking.steady ])

\* hydrate(): a row that has gone is left out, one hidden since is not.
Hydrate ==
  /\ looking.query # NoQuery /\ ~looking.query.admin
  /\ LET there == Without(looking.rows, { p \in Pros : pro[p].gone })
     IN  AnswerWith([i \in DOMAIN there |-> PublicDto(there[i])])

\* adminSearch() has the rows already and reads what each has earned; amounts are left out.
ReadEarnings ==
  /\ looking.query # NoQuery /\ looking.query.admin
  /\ AnswerWith([i \in DOMAIN looking.rows |-> PublicDto(looking.rows[i])])

-----------------------------------------------------------------------------
(* One master: getPublicProfile(), the sections of the page, FavoritesService and *)
(* RecentlyViewedService.  Each finds the master public first.                    *)

Called(v) ==
  /\ calling' = v
  /\ UNCHANGED <<offer, above, changes, selling, looking, pages>>

AskMaster(p, errand) ==
  /\ AtRest(calling) /\ looking.query = NoQuery /\ calling.made < MaxCalls
  /\ Open(p)
  /\ Called([ step |-> "admitted", of |-> p, errand |-> errand, made |-> calling.made + 1 ])
  /\ UNCHANGED <<pro, kept>>

\* The profile's answer does not wait for the view to be counted; nothing waits for it.
AnswerProfile ==
  /\ calling.step = "admitted" /\ calling.errand = "profile"
  /\ Called([ calling EXCEPT !.step = "counting" ])
  /\ UNCHANGED <<pro, kept>>

CountView ==
  /\ calling.step = "counting"
  /\ Called(NotCalling(calling.of, calling.made))
  /\ \/ pro' = [pro EXCEPT ![calling.of].views = @ + 1]
     \/ UNCHANGED pro                          \* the update fails, and nobody hears
  /\ UNCHANGED kept

ReadSection ==
  /\ calling.step = "admitted" /\ calling.errand = "section"
  /\ Called(NotCalling(calling.of, calling.made))
  /\ UNCHANGED <<pro, kept>>

Latest(viewed, p) == <<p>> \o Without(viewed, {p})

KeepMaster ==
  /\ calling.step = "admitted" /\ calling.errand \in {"favorite", "recent"}
  /\ Called(NotCalling(calling.of, calling.made))
  /\ kept' = IF calling.errand = "favorite" THEN [ kept EXCEPT !.favorites = @ \cup {calling.of} ]
             ELSE [ kept EXCEPT !.viewed = Latest(@, calling.of) ]
  /\ UNCHANGED pro

Unfavorite(p) ==
  /\ p \in kept.favorites
  /\ kept' = [ kept EXCEPT !.favorites = @ \ {p} ]
  /\ Called(calling) /\ UNCHANGED pro

NextSearch ==
  \/ \E p \in Pros : \/ SetShown(p) \/ EndPro(p) \/ SetRating(p) \/ ExceptDay(p) \/ Unfavorite(p)
                     \/ \E t \in Topics : AttachCategory(p, t) \/ DetachCategory(p, t)
                     \/ \E errand \in Errands : AskMaster(p, errand)
  \/ \E t \in Topics, to \in Topics \cup {NoTopic} : MoveTopic(t, to)
  \/ \E o \in Offers, op \in {"create", "update", "remove"} : BeginSelling(o, op)
  \/ WriteOffer
  \/ AskPage \/ ReadChildren \/ ReadGrandchildren \/ RankPage \/ CountAll \/ Hydrate \/ ReadEarnings
  \/ AnswerProfile \/ CountView \/ ReadSection \/ KeepMaster
SearchSpec == InitSearch /\ [][NextSearch]_searchVars

-----------------------------------------------------------------------------
SearchTypeOK ==
  /\ pro \in [Pros -> Pro]
  /\ offer \in [Offers -> Offer]
  /\ above \in [Topics -> Topics \cup {NoTopic}]
  /\ changes \in 0 .. MaxChanges
  /\ selling \in Selling
  /\ looking \in Looking
  /\ pages \in Seq(Page)
  /\ calling \in Calling
  /\ kept \in Keeping

Listed == FlattenSeq([i \in DOMAIN pages |-> pages[i].items])

\* SearchService.search, adminSearch and hydrate.  However masters change meanwhile, a page
\* shows no one twice, and, unless the tree was moved, no one who did not meet the query at
\* some moment since it was asked.  If nothing has been written since the first page, the
\* pages together are the whole list in the order asked for, the prices shown too, and
\* every total is its length.  The masters a client has viewed are each listed once.
SearchSound ==
  IF looking.query = NoQuery THEN IsInjective(kept.viewed) ELSE
    LET q == looking.query
        everyone == Matching(q)
        decided == \A a, b \in everyone : a # b => Precedes(q, a, b) \/ Precedes(q, b, a)
    IN  /\ \A i \in DOMAIN pages : LET page == pages[i] IN
             /\ Len(page.items) <= q.limit /\ IsInjective([j \in DOMAIN page.items |-> page.items[j].pro])
             /\ ~page.moved => \A j \in DOMAIN page.items : page.items[j].pro \in page.matched
             /\ page.steady /\ looking.steady =>
                  /\ page.total = Cardinality(everyone)
                  /\ \A j, k \in DOMAIN page.items :
                       j < k /\ q.sort = "price:asc" /\ page.items[k].from # 0 =>
                         page.items[j].from \in 1 .. page.items[k].from
        /\ looking.steady /\ decided /\ AtRest(looking) =>
             [i \in DOMAIN Listed |-> Listed[i].pro]
               \in { SubSeq(s, 1, Min({Len(s), Len(pages) * q.limit})) : s \in Rankings(q, everyone) }
=============================================================================
