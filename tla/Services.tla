------------------------------- MODULE Services -------------------------------
(***************************************************************************)
(* The services that answer requests on rows of their own, side by side.   *)
(* No transaction of one reads or writes what another keeps, so a          *)
(* behaviour of all of them is a shuffle of one behaviour of each; here    *)
(* each behaviour is that of one, the part chosen at its start.            *)
(***************************************************************************)
EXTENDS AccountsProperties, Categories, Chat, Listings, OwnLists, Rulings, Schedule

VARIABLE part

servicesVars == <<part, accountVars, categoriesVars, chatVars, ownListsVars,
                  rulingsVars, scheduleVars, listingsVars>>

Parts == {"accounts", "categories", "chat", "lists", "rulings", "schedule", "pages"}

\* A part that does not move starts in one state.
InitServices ==
  /\ part \in Parts
  /\ InitAccounts /\ InitCategories /\ InitChat /\ InitOwnLists /\ InitRulings /\ InitSchedule
  /\ InitListings
  /\ part # "accounts" => menu = CHOOSE m \in Menus : TRUE
  /\ part # "rulings" => item.kind = "quote"
  /\ part # "lists" => kind = "addresses"
  /\ part # "pages" => list = (CHOOSE l \in Listed : TRUE) /\ present = {}
                      /\ key = CHOOSE k \in [Rows -> Keys] : TRUE

NextServices ==
  /\ UNCHANGED part
  /\ IF part = "accounts"   THEN NextAccounts    ELSE UNCHANGED accountVars
  /\ IF part = "categories" THEN NextCategories  ELSE UNCHANGED categoriesVars
  /\ IF part = "chat"       THEN NextChat        ELSE UNCHANGED chatVars
  /\ IF part = "lists"      THEN NextOwnLists    ELSE UNCHANGED ownListsVars
  /\ IF part = "rulings"    THEN NextRulings     ELSE UNCHANGED rulingsVars
  /\ IF part = "schedule"   THEN NextSchedule    ELSE UNCHANGED scheduleVars
  /\ IF part = "pages"      THEN NextListings    ELSE UNCHANGED listingsVars

ServicesSpec == InitServices /\ [][NextServices]_servicesVars

-----------------------------------------------------------------------------
\* Every row, request and process's memory of the part that moves keeps its shape.
ServicesTypeOK ==
  CASE part = "accounts"   -> AccountsTypeOK
    [] part = "categories" -> CategoriesTypeOK
    [] part = "chat"       -> ChatTypeOK
    [] part = "lists"      -> OwnListsTypeOK
    [] part = "rulings"    -> RulingsTypeOK
    [] part = "schedule"   -> ScheduleTypeOK
    [] part = "pages"      -> ListingsTypeOK
=============================================================================
