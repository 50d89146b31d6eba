------------------------------- MODULE Rulings --------------------------------
(***************************************************************************)
(* Decisions taken on one row by a request that reads it, checks its       *)
(* status and then writes it by id: the answer to a quote, the resolution  *)
(* of a report, the verification of a certificate, the cancellation of an  *)
(* order, the moderation of a master and the master's own switches.        *)
(***************************************************************************)
EXTENDS Naturals

CONSTANTS Judges     \* concurrent requests

VARIABLES
  item,              \* the row, with its one flag: isActive of a master, deletedAt of a certificate
  ready,             \* the master has a category and an active service
  ruling             \* what each request is doing

rulingsVars == <<item, ready, ruling>>

Opening == [ quote |-> "PENDING", report |-> "OPEN", certificate |-> "UNVERIFIED",
             order |-> "PAID", master |-> "PENDING" ]
Kinds == DOMAIN Opening

Same == "same"
Ruling(name, kind, from, to, flag) ==
  [ name |-> name, kind |-> kind, from |-> from, to |-> to, flag |-> flag ]

QuoteRulings ==
  { Ruling("respond", "quote", {"PENDING"}, "RESPONDED", Same),
    Ruling("decline", "quote", {"PENDING"}, "DECLINED", Same) }
ReportRulings ==
  { Ruling("resolve", "report", {"OPEN", "REVIEWED"}, to, Same) : to \in {"RESOLVED", "REJECTED"} }
OrderRulings == { Ruling("cancel", "order", {"PAID"}, "CANCELLED", Same) }
\* A certificate that is deleted is not found: Applies.
CertificateRulings ==
  { Ruling("verify", "certificate", {"UNVERIFIED"}, "VERIFIED", Same),
    Ruling("reject", "certificate", {"UNVERIFIED", "VERIFIED"}, Same, "on"),
    Ruling("remove", "certificate", {"UNVERIFIED", "VERIFIED"}, Same, "on") }
ApprovalRulings ==
  { Ruling("approve", "master", {"PENDING"}, "APPROVED", "on"),
    Ruling("reject", "master", {"PENDING"}, "REJECTED", Same),
    Ruling("submit", "master", {"REJECTED"}, "PENDING", Same) }
ActivityRulings ==
  { Ruling(name, "master", {"APPROVED"}, Same, flag) :
      name \in {"moderate", "setAvailability"}, flag \in {"on", "off"} }
AllRulings == QuoteRulings \cup ReportRulings \cup OrderRulings \cup CertificateRulings
              \cup ApprovalRulings \cup ActivityRulings

ItemStatuses == {"PENDING", "OPEN", "UNVERIFIED", "PAID"} \cup { r.to : r \in AllRulings }
Item == [ kind : Kinds, status : ItemStatuses, flag : BOOLEAN ]
RulingRequest == [ step : {"idle", "checked"}, as : AllRulings,
             raced : BOOLEAN,        \* the row was written since it was read
             unready : BOOLEAN ]     \* readiness was lost since it was counted
AnyRuling == CHOOSE r \in AllRulings : TRUE
NoRuling == [ step |-> "idle", as |-> AnyRuling, raced |-> FALSE, unready |-> FALSE ]

InitRulings ==
  /\ item \in { [ kind |-> k, status |-> Opening[k], flag |-> FALSE ] : k \in Kinds }
  /\ ready = FALSE
  /\ ruling = [j \in Judges |-> NoRuling]

AnyStatus(r) == item.kind = r.kind          \* mutant: the status is not checked
Applies(r) ==
  /\ item.kind = r.kind /\ item.status \in r.from
  /\ item.kind = "certificate" => ~item.flag

ReadyUncounted(r) == TRUE                   \* mutant: BR-15 is not checked
Ready(r) == r.name = "approve" => ready

\* The row is found, its status allows the ruling, and an approval counts what BR-15 asks.
BeginRuling(j, r) ==
  /\ ruling[j].step = "idle"
  /\ Applies(r) /\ Ready(r)
  /\ ruling' = [ruling EXCEPT ![j] = [ NoRuling EXCEPT !.step = "checked", !.as = r ]]
  /\ UNCHANGED <<item, ready>>

FlagAfter(r) == CASE r.flag = Same -> item.flag [] r.flag = "on" -> TRUE [] r.flag = "off" -> FALSE

WriteRuling(j) ==
  /\ ruling[j].step = "checked"
  /\ LET r == ruling[j].as
     IN  item' = [ item EXCEPT !.status = IF r.to = Same THEN @ ELSE r.to, !.flag = FlagAfter(r) ]
  /\ ruling' = [k \in Judges |->
       IF k = j THEN NoRuling ELSE [ ruling[k] EXCEPT !.raced = ruling[k].step = "checked" ]]
  /\ UNCHANGED ready

\* attachCategory and a service made active, or detachCategory and the last one withdrawn.
ChangeReadiness ==
  /\ item.kind = "master"
  /\ ready' = ~ready
  /\ ruling' = [j \in Judges |->
       [ ruling[j] EXCEPT !.unready = @ \/ (ready /\ ruling[j].step = "checked") ]]
  /\ UNCHANGED item

NextRulings ==
  \/ \E j \in Judges, r \in AllRulings : BeginRuling(j, r)
  \/ \E j \in Judges : WriteRuling(j)
  \/ ChangeReadiness
RulingsSpec == InitRulings /\ [][NextRulings]_rulingsVars

-----------------------------------------------------------------------------
RulingsTypeOK ==
  /\ item \in Item
  /\ ready \in BOOLEAN
  /\ ruling \in [Judges -> RulingRequest]

Final == [ quote |-> {"RESPONDED", "DECLINED"}, report |-> {"RESOLVED", "REJECTED"},
           order |-> {"CANCELLED"}, certificate |-> {}, master |-> {} ]
Settled == item.status \in Final[item.kind] /\ \A j \in Judges : ruling[j].step = "idle"

\* QuotesService, ReportsService.resolve and OrdersService.cancel: an answer given, with
\* no other under way, is the last one.
VerdictStands == [][Settled => item' = item /\ Settled']_rulingsVars

\* MasterModerationService: only an approved master is active, and nobody is approved
\* who had lost what BR-15 asks before it was counted, unless another decision or the
\* loss comes between this decision's read and its write.
Coherent == item.kind = "master" /\ item.flag => item.status = "APPROVED"
ApprovalLawful ==
  [][\A j \in Judges : WriteRuling(j) =>
       /\ ~ruling[j].raced /\ Coherent => Coherent'
       /\ ruling[j].as.name = "approve" /\ ~ruling[j].unready => ready]_rulingsVars
=============================================================================
