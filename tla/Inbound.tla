------------------------------- MODULE Inbound -------------------------------
(***************************************************************************)
(* What an inbound request meets on its way: its limit, the guards and     *)
(* interceptors, and then what answers it.  Of the handlers two kinds are  *)
(* here: the checkout behind an Idempotency-Key, and the reads, the search *)
(* for masters and the reports.  None reads what another writes (Pipeline  *)
(* lets any request be over its limit or find its key taken), so each      *)
(* behaviour is that of one, the part chosen at its start.                 *)
(***************************************************************************)
EXTENDS Shop, PipelineProperties, Throttle, Search, Figures

VARIABLE part

inboundVars == <<part, vars, pipelineVars, throttleVars, searchVars, figuresVars>>

Parts == {"checkout", "pipeline", "limits", "search", "figures"}

\* A part that does not move starts in one state.
InitInbound ==
  /\ part \in Parts
  /\ Init         /\ (part # "checkout" => line = Empty)
  /\ InitPipeline /\ (part # "pipeline" => endpoint = CHOOSE e \in Served : TRUE)
  /\ InitThrottle /\ (part # "limits" => strategy = "ip" /\ origins = CHOOSE c \in Crowds : TRUE)
  /\ InitSearch   /\ (part # "search" => looking.query = NoQuery
                                        /\ offer = (CHOOSE m \in Market : TRUE).offer)
  /\ InitFigures  /\ (part # "figures" => facts = (CHOOSE l \in Ledgers : TRUE)
                                        /\ report.kind = "master")

NextInbound ==
  /\ UNCHANGED part
  /\ IF part = "checkout" THEN Next         ELSE UNCHANGED vars
  /\ IF part = "pipeline" THEN NextPipeline ELSE UNCHANGED pipelineVars
  /\ IF part = "limits"   THEN NextThrottle ELSE UNCHANGED throttleVars
  /\ IF part = "search"   THEN NextSearch   ELSE UNCHANGED searchVars
  /\ IF part = "figures"  THEN NextFigures  ELSE UNCHANGED figuresVars

InboundSpec == InitInbound /\ [][NextInbound]_inboundVars /\ FairShop /\ FairPipeline

-----------------------------------------------------------------------------
\* Every row, request and bucket of the part that moves keeps its shape, and no line of a
\* cart exceeds the cap.
InboundTypeOK ==
  CASE part = "checkout" -> ShopTypeOK
    [] part = "pipeline" -> PipelineTypeOK
    [] part = "limits"   -> ThrottleTypeOK
    [] part = "search"   -> SearchTypeOK
    [] part = "figures"  -> FiguresTypeOK
=============================================================================
