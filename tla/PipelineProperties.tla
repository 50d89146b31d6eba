-------------------------- MODULE PipelineProperties --------------------------
(* Who is served, and what the audit log holds of it. *)
EXTENDS Pipeline

PipelineTypeOK ==
  /\ endpoint \in Served /\ bearer \in Callers /\ user \in {Nobody, bearer}
  /\ status \in {"ACTIVE", "BLOCKED", "DELETED"}
  /\ keyed \in BOOLEAN /\ attached \in BOOLEAN /\ served \in BOOLEAN /\ wasActive \in BOOLEAN
  /\ stage \in {"new", "arrived", "counted", "known", "permitted", "inside", "over", "dead"}
  /\ handler \in {"idle", "running", "returned", "threw"}
  /\ answer \in {"none", "limited", "unauthorized", "forbidden", "replayed", "inProgress",
                 "timeout", "success", "error"}
  /\ auditRow \in {"none", "pending", "written", "lost"}
  /\ losses \in 0 .. MaxLosses

(* USER_ROLES.md, 6, and what API.md marks public or lists under administration *)
HandlersOf(controller, handlers) == {controller} \X handlers

ForAdmins ==
  { e \in Endpoint :
      e[1] \in { "AdminCategoriesController", "AdminMastersController", "AdminCertificatesController",
                 "AdminReviewsController", "AdminBookingsController", "AdminConversationsController",
                 "AdminBannersController", "AdminNotificationsController", "AdminUsersController",
                 "AdminOrdersController", "AdminProductsController", "AuditLogsController",
                 "AdminProductCategoriesController", "AdminReportsController",
                 "DashboardController", "NpsController" } }
ForMasters ==
  HandlersOf("MastersMeController", {"submit", "resubmit", "attach", "detach", "addCertificate",
                             "removeCertificate", "addPortfolioImage", "reorderPortfolio"})
  \cup HandlersOf("ServicesController", {"create", "update", "remove"})
  \cup HandlersOf("ScheduleMeController", {"replace", "addException", "removeException"})
  \cup HandlersOf("BookingsController", {"accept", "reject", "start", "complete"})
  \cup HandlersOf("ReviewsController", {"replyTo"}) \cup HandlersOf("QuotesController", {"respond", "decline"})
ForClients ==
  HandlersOf("BookingsController", {"create", "reschedule", "confirmPayment"})
  \cup HandlersOf("ReviewsController", {"create", "update"}) \cup HandlersOf("QuotesController", {"create"})
  \cup HandlersOf("OrdersController", {"checkoutCart"})
ForParties ==
  HandlersOf("BookingsController", {"cancel"})
  \cup HandlersOf("ConversationsController", {"create", "listMessages", "sendMessage", "markRead"})
  \cup HandlersOf("MessagesController", {"remove"}) \cup HandlersOf("ReportsController", {"create"})
ForAnyone ==
  { e \in Endpoint :
      e[1] \in { "HealthController", "CitiesController", "BannersController", "CategoriesController",
                 "PublicServicesController", "PublicScheduleController", "MasterReviewsController",
                 "AvailabilityController", "SearchController", "CertificateVerificationController",
                 "ProductsController", "ProductCategoriesController" } }
  \cup HandlersOf("MastersController", {"leaderboardList", "byId", "media", "certificates"})
  \cup HandlersOf("AuthController", {"registerClient", "registerMaster", "login", "refresh",
                             "forgotPassword", "resetPassword"})
  \cup HandlersOf("EmailVerificationController", {"verifyEmail"}) \cup HandlersOf("TwoFactorController", {"verify"})

ForSome == ForAdmins \cup ForMasters \cup ForClients \cup ForParties

EntitledTo(e) ==
  CASE e \in ForAdmins  -> {"ADMIN"}
    [] e \in ForMasters -> {"MASTER"}
    [] e \in ForClients -> {"CLIENT"}
    [] e \in ForParties -> {"CLIENT", "MASTER"}
    [] e \in ForAnyone  -> Callers
    [] OTHER            -> Roles

\* The decorators, and what the services turn away themselves, keep every route to those it
\* is for.
ASSUME DecoratorsEntitle ==
  \A e \in Endpoint :
    IF RouteOf(e).public THEN e \in ForAnyone \ ForSome
    ELSE \A role \in Roles :
           (RouteOf(e).roles = {} \/ role \in RouteOf(e).roles) /\ Serves(e, role)
           => role \in EntitledTo(e)

\* The guards: whoever is served has the role its capability is for, and an account that was
\* ACTIVE after the request came, however the guards' reads and its blocking fall; and the
\* audit log tells only of what was done.
EntitledAreServed ==
  /\ served => /\ bearer \in EntitledTo(endpoint)
               /\ wasActive \/ endpoint \in ForAnyone
  /\ auditRow # "none" => served /\ route.audited /\ user = bearer

\* AuditInterceptor: what a privileged route naming its entity has reported done is in the
\* audit log sooner or later, but for a failed insert or the end of the process.
TrailFollows ==
  (answer = "success" /\ route.audited /\ route.named) ~> auditRow \in {"written", "lost"}

\* BUSINESS_REQUIREMENTS.md, BR-81: "Every admin write action produces an `AuditLog` entry".
AdminWritesAudited == (answer = "success" /\ route.audited) ~> auditRow = "written"
=============================================================================
