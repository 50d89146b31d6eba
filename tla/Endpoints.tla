------------------------------ MODULE Endpoints ------------------------------
(***************************************************************************)
(* The HTTP routes of the application, by controller and handler, with     *)
(* what their decorators say of them: all that the guards and interceptors *)
(* of Pipeline ever look at.                                               *)
(***************************************************************************)
EXTENDS TLC

Roles == {"CLIENT", "MASTER", "ADMIN"}

Route == [ public : BOOLEAN,
           roles : SUBSET Roles,       \* those RolesGuard asks for; none asks for nothing
           audited : BOOLEAN,
           named : BOOLEAN,            \* the path or the response holds the entity's id
           idempotent : BOOLEAN,
           strategy : {"none", "ip", "ip-email", "email", "refresh-user"} ]   \* of its limit

Requiring(roles) == [ public |-> FALSE, roles |-> roles, audited |-> FALSE, named |-> TRUE,
                      idempotent |-> FALSE, strategy |-> "ip" ]

Public       == [ Requiring({}) EXCEPT !.public = TRUE ]
AnyRole      == Requiring({})
Admin        == Requiring({"ADMIN"})
Client       == Requiring({"CLIENT"})
Master       == Requiring({"MASTER"})
Party        == Requiring({"CLIENT", "MASTER"})
PartyOrAdmin == Requiring(Roles)

Audited(route)           == [ route EXCEPT !.audited = TRUE ]
AuditedUnnamed(route)    == [ route EXCEPT !.audited = TRUE, !.named = FALSE ]
Idempotent(route)        == [ route EXCEPT !.idempotent = TRUE ]
Tracked(route, strategy) == [ route EXCEPT !.strategy = strategy ]

-----------------------------------------------------------------------------
(* Platform, sign-in and sessions *)

HealthController ==
  [ liveness |-> Tracked(Public, "none"), readiness |-> Tracked(Public, "none") ]
MetricsController == [ get |-> Admin ]
SignInRoutes ==
  [ registerClient |-> Public, registerMaster |-> Public, login |-> Tracked(Public, "ip-email"),
    refresh |-> Tracked(Public, "refresh-user") ]
SessionRoutes ==
  [ logout |-> AnyRole, logoutAll |-> AnyRole, forgotPassword |-> Tracked(Public, "email"),
    resetPassword |-> Public, changePassword |-> AnyRole ]
EmailVerificationController == [ verifyEmail |-> Public, resendVerification |-> AnyRole ]
SessionsController == [ list |-> AnyRole, revoke |-> AnyRole ]
TwoFactorController ==
  [ verify |-> Public, setup |-> Admin, enable |-> Admin, disable |-> Admin ]

(* Accounts *)

UsersController ==
  [ findMe |-> AnyRole, updateMe |-> AnyRole, setAvatar |-> AnyRole, setBanner |-> AnyRole,
    exportMe |-> AnyRole, deleteMe |-> AnyRole ]
AdminUsersController ==
  [ list |-> Admin, getById |-> Admin, block |-> Audited(Admin), unblock |-> Audited(Admin) ]
SavedAddressesController ==
  [ list |-> Client, create |-> Client, update |-> Client, remove |-> Client ]
CitiesController == [ list |-> Public ]
ReferralsController == [ getMine |-> Client ]
FilesController == [ presign |-> AnyRole, confirm |-> AnyRole, readUrl |-> AnyRole ]

(* Bookings, quotes and reviews *)

BookingRequests ==
  [ create |-> Idempotent(Client), list |-> Party, stats |-> Master,
    scheduleOptimizerFor |-> Master, recordWhatsappClick |-> Client ]
BookingTransitions ==
  [ findOne |-> PartyOrAdmin, accept |-> Master, reject |-> Master, cancel |-> Party,
    reschedule |-> Client, start |-> Master, complete |-> Master, confirmPayment |-> Client ]
BookingExportsController ==
  [ exportSchedule |-> Master, getAttachmentUrl |-> PartyOrAdmin, receipt |-> PartyOrAdmin,
    certificate |-> PartyOrAdmin ]
AdminBookingsController == [ list |-> Admin, findOne |-> Admin, cancel |-> Audited(Admin) ]
CertificateVerificationController == [ verify |-> Public ]
QuotesController ==
  [ create |-> Client, list |-> Party, findOne |-> PartyOrAdmin, respond |-> Master,
    decline |-> Master ]
ReviewsController ==
  [ create |-> Client, update |-> Client, listMine |-> Client, listReceived |-> Master,
    replyTo |-> Master ]
MasterReviewsController == [ list |-> Public ]
AdminReviewsController == [ list |-> Admin, hide |-> Audited(Admin), unhide |-> Audited(Admin) ]

(* Masters, what they offer and when *)

MasterProfileRoutes ==
  [ status |-> Master, submit |-> Master, resubmit |-> Master, setAvailability |-> Master,
    setInstantBook |-> Master, nps |-> Master, categories |-> Master, attach |-> Master,
    detach |-> Master, certificates |-> Master ]
MasterMediaRoutes ==
  [ addCertificate |-> Master, removeCertificate |-> Master, portfolio |-> Master,
    addPortfolioImage |-> Master, reorderPortfolio |-> Master, removePortfolioImage |-> Master,
    pricingSuggestionFor |-> Master, recentlyViewedMasters |-> Client ]
MasterQuickRepliesController ==
  [ list |-> Master, create |-> Master, update |-> Master, remove |-> Master ]
MastersController ==
  [ leaderboardList |-> Public, byId |-> Public, media |-> Public, certificates |-> Public,
    recordView |-> Client ]
AdminMastersController ==
  [ list |-> Admin, approve |-> Audited(Admin), reject |-> Audited(Admin),
    activate |-> Audited(Admin), deactivate |-> Audited(Admin), getStats |-> Audited(Admin) ]
AdminCertificatesController ==
  [ list |-> Admin, verify |-> Audited(Admin), reject |-> Audited(Admin) ]
ServicesController ==
  [ list |-> Master, create |-> Master, update |-> Master, remove |-> Master ]
PublicServicesController == [ list |-> Public ]
ScheduleMeController ==
  [ list |-> Master, replace |-> Master, listExceptions |-> Master, addException |-> Master,
    removeException |-> Master ]
PublicScheduleController == [ get |-> Public ]
AvailabilityController == [ availability |-> Public ]
SearchController == [ list |-> Public ]
FavoritesController == [ list |-> Client, add |-> Client, remove |-> Client ]

(* The marketplace *)

ProductsController == [ list |-> Public, findOne |-> Public ]
ProductCategoriesController == [ list |-> Public ]
AdminProductsController ==
  [ list |-> Admin, findOne |-> Admin, create |-> Audited(Admin), update |-> Audited(Admin),
    remove |-> Audited(Admin) ]
AdminProductCategoriesController ==
  [ list |-> Admin, create |-> Audited(Admin), update |-> Audited(Admin),
    remove |-> Audited(Admin) ]
CartController ==
  [ list |-> Client, addItem |-> Client, setQuantity |-> Client, removeItem |-> Client ]
WishlistController == [ list |-> Client, add |-> Client, remove |-> Client ]
OrdersController == [ checkoutCart |-> Idempotent(Client), list |-> Client, findOne |-> Client ]
AdminOrdersController == [ list |-> Admin, findOne |-> Admin, cancel |-> Audited(Admin) ]

(* Chat, notices and content *)

ConversationsController ==
  [ create |-> AnyRole, list |-> AnyRole, listMessages |-> AnyRole, sendMessage |-> AnyRole,
    markRead |-> AnyRole ]
MessagesController == [ remove |-> AnyRole ]
AdminConversationsController == [ listMessages |-> Audited(Admin) ]
NotificationsController ==
  [ list |-> AnyRole, unreadCount |-> AnyRole, markRead |-> AnyRole, markAllRead |-> AnyRole,
    preferences |-> AnyRole, updatePreferences |-> AnyRole ]
AdminNotificationsController == [ broadcast |-> Idempotent(AuditedUnnamed(Admin)) ]
CategoriesController == [ tree |-> Public, bySlug |-> Public ]
AdminCategoriesController ==
  [ create |-> Audited(Admin), update |-> Audited(Admin), remove |-> Audited(Admin) ]
BannersController == [ list |-> Public ]
AdminBannersController ==
  [ list |-> Admin, findOne |-> Admin, create |-> Audited(Admin), update |-> Audited(Admin),
    remove |-> Audited(Admin) ]
ReportsController == [ create |-> Party ]
AdminReportsController == [ list |-> Admin, resolve |-> Audited(Admin) ]

(* Administration *)

AuditLogsController == [ list |-> Admin ]
DashboardController == [ get |-> Admin ]
NpsController == [ get |-> Admin ]

Controllers ==
  [ HealthController |-> HealthController, MetricsController |-> MetricsController,
    AuthController |-> SignInRoutes @@ SessionRoutes,
    EmailVerificationController |-> EmailVerificationController,
    SessionsController |-> SessionsController, TwoFactorController |-> TwoFactorController,
    UsersController |-> UsersController, AdminUsersController |-> AdminUsersController,
    SavedAddressesController |-> SavedAddressesController,
    CitiesController |-> CitiesController, ReferralsController |-> ReferralsController,
    FilesController |-> FilesController,
    BookingsController |-> BookingRequests @@ BookingTransitions,
    BookingExportsController |-> BookingExportsController,
    AdminBookingsController |-> AdminBookingsController,
    CertificateVerificationController |-> CertificateVerificationController,
    QuotesController |-> QuotesController, ReviewsController |-> ReviewsController,
    MasterReviewsController |-> MasterReviewsController,
    AdminReviewsController |-> AdminReviewsController,
    MastersMeController |-> MasterProfileRoutes @@ MasterMediaRoutes,
    MasterQuickRepliesController |-> MasterQuickRepliesController,
    MastersController |-> MastersController, AdminMastersController |-> AdminMastersController,
    AdminCertificatesController |-> AdminCertificatesController,
    ServicesController |-> ServicesController,
    PublicServicesController |-> PublicServicesController,
    ScheduleMeController |-> ScheduleMeController,
    PublicScheduleController |-> PublicScheduleController,
    AvailabilityController |-> AvailabilityController, SearchController |-> SearchController,
    FavoritesController |-> FavoritesController, ProductsController |-> ProductsController,
    ProductCategoriesController |-> ProductCategoriesController,
    AdminProductsController |-> AdminProductsController,
    AdminProductCategoriesController |-> AdminProductCategoriesController,
    CartController |-> CartController, WishlistController |-> WishlistController,
    OrdersController |-> OrdersController, AdminOrdersController |-> AdminOrdersController,
    ConversationsController |-> ConversationsController,
    MessagesController |-> MessagesController,
    AdminConversationsController |-> AdminConversationsController,
    NotificationsController |-> NotificationsController,
    AdminNotificationsController |-> AdminNotificationsController,
    CategoriesController |-> CategoriesController,
    AdminCategoriesController |-> AdminCategoriesController,
    BannersController |-> BannersController, AdminBannersController |-> AdminBannersController,
    ReportsController |-> ReportsController, AdminReportsController |-> AdminReportsController,
    AuditLogsController |-> AuditLogsController, DashboardController |-> DashboardController,
    NpsController |-> NpsController ]

\* A route is named by its controller and its handler.
Endpoint == UNION { {c} \X DOMAIN Controllers[c] : c \in DOMAIN Controllers }
RouteOf(endpoint) == Controllers[endpoint[1]][endpoint[2]]

ASSUME EndpointsAreRoutes == \A endpoint \in Endpoint : RouteOf(endpoint) \in Route
=============================================================================
