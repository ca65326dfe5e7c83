------------------------------ MODULE Services ------------------------------
(***************************************************************************)
(* What run() in each service's cmd/main.go does, as the sequence of its   *)
(* calls: from the start to the select on the error channel and the        *)
(* signal, and from the signal to its end.  Lifecycle runs these programs. *)
(* A call in a block that the configuration can switch off has an option.  *)
(***************************************************************************)
EXTENDS Sequences

Options == {"postgres", "kafka", "redis", "s3", "grpc"}

\* The options that must all be on for a call to be made.
Needed(call) ==
    CASE call \in {"open postgres", "migrate", "check postgres"} -> {"postgres"}
      [] call \in {"open producer", "start relay"}  -> {"postgres", "kafka"}
      [] call \in {"start consumers", "close consumers"} -> {"kafka"}
      [] call \in {"open redis", "check redis"}     -> {"redis"}
      [] call = "open s3"                           -> {"s3"}
      [] call \in {"listen grpc", "shutdown grpc"}  -> {"grpc"}
      [] OTHER                                      -> {}

Boot == <<"load config", "new logger", "catch signals", "setup telemetry">>

Database == <<"open postgres", "migrate", "check postgres">>

Relay == <<"open producer", "start relay">>

Serve == <<"ready", "listen http">>
ServeBoth == <<"ready", "listen http", "listen grpc">>

Drain == <<"not ready", "start timeout", "shutdown http">>
DrainBoth == <<"not ready", "start timeout", "shutdown grpc", "shutdown http">>

Main(setup, serve, drain) == [start |-> Boot \o setup \o serve, stop |-> drain]

\* A service that keeps rows and answers HTTP.
RowsMain == Main(Database, Serve, Drain)

\* A service that records the events it reads from Kafka.
EventsMain == Main(Database \o <<"start consumers">>, Serve,
                   <<"not ready", "close consumers", "start timeout", "shutdown http">>)

-----------------------------------------------------------------------------
LedgerMain  == Main(Database, ServeBoth, DrainBoth)
AccountMain == Main(Database \o <<"dial ledger">>, ServeBoth, DrainBoth)
AuthMain    == Main(Database \o <<"open redis", "check redis">>, ServeBoth, DrainBoth)
AuthzMain   == Main(Database \o <<"seed">>, ServeBoth, DrainBoth)

TransactionMain == Main(Database \o Relay \o <<"dial ledger">>, Serve, Drain)
PaymentMain     == Main(Database \o Relay \o <<"dial ledger">>, Serve, Drain)
WalletMain      == Main(Database \o Relay, Serve, Drain)
LoanMain        == Main(Database \o <<"dial ledger">>, Serve, Drain)
DocumentMain    == Main(Database \o <<"open s3">>, Serve, Drain)
AdminMain       == Main(Database \o <<"seed">>, Serve, Drain)
CurrencyExchangeMain == Main(Database \o <<"seed">>, Serve, Drain)

BeneficiaryMain      == RowsMain
CardMain             == RowsMain
CustomerMain         == RowsMain
EmailMain            == RowsMain
EmiMain              == RowsMain
FixedDepositMain     == RowsMain
InvestmentMain       == RowsMain
KycMain              == RowsMain
ProfileMain          == RowsMain
RecurringDepositMain == RowsMain
SmsMain              == RowsMain
SupportMain          == RowsMain

AnalyticsMain    == EventsMain
AuditMain        == EventsMain
FraudMain        == EventsMain
NotificationMain == EventsMain
ReportsMain      == EventsMain
SearchMain       == EventsMain
StatementMain    == EventsMain

\* No database; its Shutdown is bounded by the server's own timeout alone.
ApiGatewayMain == Main(<<"new proxy">>, Serve, <<"not ready", "shutdown http">>)

ServiceNames ==
    {"ledger-service", "account-service", "auth-service", "authz-service",
     "transaction-service", "payment-service", "wallet-service", "loan-service",
     "document-service", "admin-service", "currency-exchange-service",
     "beneficiary-service", "card-service", "customer-service", "email-service",
     "emi-service", "fixed-deposit-service", "investment-service", "kyc-service",
     "profile-service", "recurring-deposit-service", "sms-service", "support-service",
     "analytics-service", "audit-service", "fraud-service", "notification-service",
     "reports-service", "search-service", "statement-service", "api-gateway"}

\* run() of a service, by the name in its configuration.
Program(service) ==
    CASE service = "ledger-service"             -> LedgerMain
      [] service = "account-service"            -> AccountMain
      [] service = "auth-service"               -> AuthMain
      [] service = "authz-service"              -> AuthzMain
      [] service = "transaction-service"        -> TransactionMain
      [] service = "payment-service"            -> PaymentMain
      [] service = "wallet-service"             -> WalletMain
      [] service = "loan-service"               -> LoanMain
      [] service = "document-service"           -> DocumentMain
      [] service = "admin-service"              -> AdminMain
      [] service = "currency-exchange-service"  -> CurrencyExchangeMain
      [] service = "beneficiary-service"        -> BeneficiaryMain
      [] service = "card-service"               -> CardMain
      [] service = "customer-service"           -> CustomerMain
      [] service = "email-service"              -> EmailMain
      [] service = "emi-service"                -> EmiMain
      [] service = "fixed-deposit-service"      -> FixedDepositMain
      [] service = "investment-service"         -> InvestmentMain
      [] service = "kyc-service"                -> KycMain
      [] service = "profile-service"            -> ProfileMain
      [] service = "recurring-deposit-service"  -> RecurringDepositMain
      [] service = "sms-service"                -> SmsMain
      [] service = "support-service"            -> SupportMain
      [] service = "analytics-service"          -> AnalyticsMain
      [] service = "audit-service"              -> AuditMain
      [] service = "fraud-service"              -> FraudMain
      [] service = "notification-service"       -> NotificationMain
      [] service = "reports-service"            -> ReportsMain
      [] service = "search-service"             -> SearchMain
      [] service = "statement-service"          -> StatementMain
      [] service = "api-gateway"                -> ApiGatewayMain
=============================================================================
