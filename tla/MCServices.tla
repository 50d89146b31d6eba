----------------------------- MODULE MCServices ------------------------------
(* Instances of the services, for TLC. *)
EXTENDS Services, MCSchedule, TLC

CONSTANTS c1, c2, c3

\* Of what is interchangeable, the sets of the largest part.
Interchangeable == Permutations(Tokens) \cup Permutations(Links) \cup Permutations(Requests)

\* Sessions and what closes them; reset links; verification links; two factors.
MenusSmall == {
  {"open", "rotate", "family", "revokeAll", "change", "delete", "block", "unblock"},
  {"open", "rotate", "issueReset", "reset"},
  {"issueVerify", "confirm", "delete"},
  {"open", "setup", "enable", "disable", "issueChallenge", "verify", "block", "unblock"} }

Chain == <<c1, c2, c3>>

Either == { [ r \in Rows |-> r ], [ r \in Rows |-> -r ] }
AllLists == { AuditList, OrderList, ReviewList, UserList, MasterList, ProductList, QuoteList,
              NotificationList, ReportList, CertificateList, PublicReviewList, BookingList,
              BannerList, ConversationList }
=============================================================================
