------------------------------- MODULE OwnLists -------------------------------
(***************************************************************************)
(* The short lists a user keeps: a client's saved addresses, a master's    *)
(* quick replies and portfolio.  Each has a limit; one address may be the  *)
(* default; replies and pictures have a sortOrder.  The services keep all  *)
(* this, the database none of it.                                          *)
(***************************************************************************)
EXTENDS Naturals, FiniteSets

CONSTANTS
  Entries, NoEntry,
  Tabs,              \* the user's concurrent requests
  MaxSaved           \* MAX_SAVED_ADDRESSES, QUICK_REPLY_LIMIT or PORTFOLIO_IMAGE_LIMIT

ASSUME OwnListsAssumption ==
  NoEntry \notin Entries /\ IsFiniteSet(Entries) /\ MaxSaved \in Nat

VARIABLES
  kind,              \* which list
  entry,             \* its rows
  saving             \* what each request is doing

ownListsVars == <<kind, entry, saving>>

Lists == {"addresses", "replies", "portfolio"}
Orders == 0 .. Cardinality(Entries)
Entry == [ state : {"none", "live", "removed"}, default : BOOLEAN, order : Orders ]
NoRow == [ state |-> "none", default |-> FALSE, order |-> 0 ]
Saving == [ op : {"none", "create", "update", "remove", "reorder"},
            step : {"idle", "checked", "attachable", "cleared"},
            of : Entries \cup {NoEntry},
            default : {"true", "false", "absent"},        \* dto.isDefault
            count : Orders,                \* rows counted, the sortOrder to be
            ids : SUBSET Entries,          \* the rows to reorder
            cleared : SUBSET Entries,      \* rows clearDefault found, cleared with the commit
            raced : BOOLEAN ]              \* another request wrote since it began
NoSaving == [ op |-> "none", step |-> "idle", of |-> NoEntry, default |-> "absent",
              count |-> 0, ids |-> {}, cleared |-> {}, raced |-> FALSE ]

LiveOnes == { a \in Entries : entry[a].state = "live" }
Defaults == { a \in LiveOnes : entry[a].default }

InitOwnLists ==
  /\ kind \in Lists
  /\ entry = [a \in Entries |-> NoRow]
  /\ saving = [t \in Tabs |-> NoSaving]

Checked(op, a) ==
  [ NoSaving EXCEPT !.op = op, !.step = "checked", !.of = a, !.count = Cardinality(LiveOnes) ]
StartsSaving(t, doing) ==
  /\ saving[t].step = "idle"
  /\ saving' = [saving EXCEPT ![t] = doing]
  /\ UNCHANGED <<kind, entry>>

NoLimit == TRUE                      \* mutant: the limit is not asserted
UnderLimit == Cardinality(LiveOnes) < MaxSaved

\* assertUnderLimit, or the count of create() and addPortfolioImage().
BeginCreate(t, a, default) ==
  /\ entry[a].state = "none" /\ UnderLimit
  /\ default # "absent" /\ (kind # "addresses" => default = "false")
  /\ StartsSaving(t, [ Checked("create", a) EXCEPT !.default = default ])

\* assertOwned.  The text of a reply is not kept here, so its update writes nothing.
BeginUpdate(t, a, default) ==
  /\ kind = "addresses" /\ entry[a].state = "live"
  /\ StartsSaving(t, [ Checked("update", a) EXCEPT !.default = default ])

BeginRemove(t, a) ==
  /\ kind = "addresses" /\ entry[a].state = "live"
  /\ StartsSaving(t, Checked("remove", a))

AllOfThem(ids)  == ids = LiveOnes

\* reorderPortfolio: the ids must be those of the pictures there are.
BeginReorder(t, ids) ==
  /\ kind = "portfolio" /\ ids # {} /\ AllOfThem(ids)
  /\ StartsSaving(t, [ Checked("reorder", NoEntry) EXCEPT !.ids = ids ])

ToClear == Defaults

ClearDefault(t) ==
  /\ saving[t].step = "checked" /\ saving[t].default = "true"
  /\ saving' = [saving EXCEPT ![t].step = "cleared", ![t].cleared = ToClear]
  /\ UNCHANGED <<kind, entry>>

\* addPortfolioImage looks its file up between the count and the INSERT.
GetPicture(t) ==
  /\ kind = "portfolio" /\ saving[t].op = "create" /\ saving[t].step = "checked"
  /\ saving' = [saving EXCEPT ![t].step = "attachable"]
  /\ UNCHANGED <<kind, entry>>

ReadyToWrite(t) ==
  saving[t].step =
    IF saving[t].default = "true" THEN "cleared"
    ELSE IF kind = "portfolio" /\ saving[t].op = "create" THEN "attachable" ELSE "checked"

RowSaved(t, row) ==
  CASE saving[t].op = "create" -> [ state |-> "live", default |-> saving[t].default = "true",
                                    order |-> IF kind = "addresses" THEN 0 ELSE saving[t].count ]
    [] saving[t].op = "update" -> [ row EXCEPT !.default = IF saving[t].default = "absent" THEN @
                                                           ELSE saving[t].default = "true" ]
    [] saving[t].op = "remove" -> [ row EXCEPT !.state = "removed", !.default = FALSE ]

Wrote(t) ==
  saving' = [u \in Tabs |->
    IF u = t THEN NoSaving ELSE [ saving[u] EXCEPT !.raced = saving[u].step # "idle" ]]

\* The INSERT or UPDATE, and the commit.  A second row for one id is another row, left out.
WriteEntry(t) ==
  /\ saving[t].op \in {"create", "update", "remove"} /\ ReadyToWrite(t)
  /\ saving[t].op = "create" => entry[saving[t].of].state = "none"
  /\ entry' = [a \in Entries |->
       IF a = saving[t].of THEN RowSaved(t, entry[a])
       ELSE [ entry[a] EXCEPT !.default = @ /\ a \notin saving[t].cleared ]]
  /\ Wrote(t)
  /\ UNCHANGED kind

\* One UPDATE per id, in one transaction; a row removed meanwhile is updated too.
WriteOrder(t) ==
  /\ saving[t].op = "reorder" /\ ReadyToWrite(t)
  /\ \E position \in [saving[t].ids -> 0 .. Cardinality(saving[t].ids) - 1] :
       /\ \A a, b \in saving[t].ids : position[a] = position[b] => a = b
       /\ entry' = [a \in Entries |-> IF a \in saving[t].ids
                                      THEN [ entry[a] EXCEPT !.order = position[a] ] ELSE entry[a]]
  /\ Wrote(t)
  /\ UNCHANGED kind

\* The UPDATE that removes a reply or a picture, whatever has become of it.
RemoveEntry(t, a) ==
  /\ kind # "addresses" /\ saving[t].step = "idle" /\ entry[a].state = "live"
  /\ entry' = [entry EXCEPT ![a].state = "removed"]
  /\ Wrote(t)
  /\ UNCHANGED kind

NextOwnLists ==
  \E t \in Tabs :
    \/ \E a \in Entries, default \in {"true", "false", "absent"} :
         BeginCreate(t, a, default) \/ BeginUpdate(t, a, default)
    \/ \E a \in Entries : BeginRemove(t, a) \/ RemoveEntry(t, a)
    \/ \E ids \in SUBSET Entries : BeginReorder(t, ids)
    \/ ClearDefault(t) \/ GetPicture(t)
    \/ WriteEntry(t) \/ WriteOrder(t)

OwnListsSpec == InitOwnLists /\ [][NextOwnLists]_ownListsVars

-----------------------------------------------------------------------------
OwnListsTypeOK ==
  /\ kind \in Lists
  /\ entry \in [Entries -> Entry]
  /\ saving \in [Tabs -> Saving]

ListKept == Cardinality(LiveOnes) <= MaxSaved /\ Cardinality(Defaults) <= 1
InOrder  == \A a, b \in LiveOnes : entry[a].order = entry[b].order => a = b

\* SavedAddressesService, QuickRepliesService and the portfolio: a write no other came
\* before, since its request began, leaves at most as many rows as the limit and one
\* default; and a reordering leaves no two pictures in one place.
OwnListsKept ==
  [][\A t \in Tabs : ~saving[t].raced =>
       /\ WriteEntry(t) /\ ListKept => ListKept'
       /\ WriteOrder(t) => InOrder']_ownListsVars
=============================================================================
