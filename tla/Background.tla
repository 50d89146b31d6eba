------------------------------ MODULE Background ------------------------------
(***************************************************************************)
(* What runs behind the requests: the listeners of events, the sockets and *)
(* the jobs of the clock, side by side with the requests they depend on.   *)
(* None reads what another writes, so each behaviour is that of one part,  *)
(* chosen at its start.                                                    *)
(***************************************************************************)
EXTENDS Aftermath, Uploads, Reminders, Live

VARIABLE part

backgroundVars == <<part, aftermathVars, uploadsVars, remindersVars, liveVars>>

Parts == {"aftermath", "uploads", "reminders", "sockets"}

\* A part that does not move starts in one state: Uploads holds {}.
InitBackground ==
  /\ part \in Parts
  /\ InitAftermath /\ InitUploads /\ InitReminders /\ InitLive
  /\ part # "aftermath" => menu = CHOOSE m \in Menus : TRUE
  /\ part # "uploads" => \A f \in Files : file[f].row # "none"
  /\ part # "sockets" => /\ namespace = "/bookings"
                         /\ engagement = CHOOSE g \in Engagements : TRUE

NextBackground ==
  /\ UNCHANGED part
  /\ IF part = "aftermath" THEN NextAftermath ELSE UNCHANGED aftermathVars
  /\ IF part = "uploads"   THEN NextUploads   ELSE UNCHANGED uploadsVars
  /\ IF part = "reminders" THEN NextReminders ELSE UNCHANGED remindersVars
  /\ IF part = "sockets"   THEN NextLive      ELSE UNCHANGED liveVars

BackgroundSpec ==
  /\ InitBackground /\ [][NextBackground]_backgroundVars
  /\ FairAftermath /\ FairUploads

-----------------------------------------------------------------------------
\* Every row, request, listener's call and job keeps its shape.
BackgroundTypeOK ==
  /\ part \in Parts
  /\ AftermathTypeOK /\ UploadsTypeOK /\ RemindersTypeOK /\ LiveTypeOK
=============================================================================
