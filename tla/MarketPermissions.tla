-------------------------- MODULE MarketPermissions --------------------------
(***************************************************************************)
(* The permissions of one user's paper account to trade in a market: an    *)
(* application is started, a profile is submitted and assessed, the risk   *)
(* disclosure is accepted and the entitlement enabled, while orders ask    *)
(* for the entitlement, the account is reset and the rules are amended.    *)
(*                                                                         *)
(* The requests run in concurrent transactions.  One that locks several    *)
(* rows locks them in the order: idempotency key, application, account,    *)
(* (market,) rules.  Whoever asks for the advisory lock of a market has    *)
(* the account already, so that lock never waits and is left out.  A       *)
(* transaction that locks one row and decides on it is one step, taken     *)
(* when nobody holds the row; so is the last lock of a longer one, with    *)
(* its decision and its commit.  A request that ends without an effect,    *)
(* a replay or a refusal before any lock is kept, is no step at all.       *)
(***************************************************************************)
EXTENDS Integers, FiniteSets

CONSTANTS
  Request,      \* requests to the service that may run at the same time
  MaxApplications,  \* bound on the applications that are started
  Key,          \* idempotency keys
  Market,       \* markets
  Profile,      \* what a user may declare
  Disclosure,   \* versions of the risk disclosure
  RulesOf,      \* the rules a market may have
  Null,         \* a column that is NULL
  MaxAccounts   \* bound on the generations of the account

ASSUME PermissionsAssumption ==
  /\ Profile \subseteq [assets : Nat, months : Nat]
  /\ RulesOf \in [Market -> SUBSET [assets : Nat, months : Nat, disclosure : Disclosure]]
  /\ Null \notin Key /\ Null \notin Market /\ Null \notin Profile /\ Null \notin Disclosure
  /\ {MaxAccounts, MaxApplications} \subseteq Nat \ {0}

VARIABLES
  active,        \* the generation of the active account; the earlier ones are archived
  rules,         \* market_access_rules, the current one of each market
  applications,  \* entitlement_applications, with the last assessment and the acceptance
  enabled,       \* market_entitlements of an account that are enabled
  bought,        \* the markets in which an account has an order
  told,          \* what confirm has answered about an application
  step,          \* the statement a request is about to run, "idle" outside transactions
  call,          \* what it asks for
  locked         \* the rows and keys it has locked

permissionVars == <<active, rules, applications, enabled, bought, told, step, call, locked>>
facts == <<active, rules, applications, enabled, bought, told>>

AccountGeneration == 1..MaxAccounts
Application == 1..MaxApplications  \* in the order of started_at
Rule == UNION {RulesOf[m] : m \in Market}
Open == {"in_progress", "awaiting_information", "awaiting_confirmation"}
\* "rejected" is never committed, "expired" never set.
ApplicationStatus == Open \union {"none", "cancelled_by_user", "completed"}

NotStarted ==
  [status |-> "none", generation |-> 0, market |-> Null, start_key |-> Null,
   assessment |-> Null, confirm_key |-> Null, disclosure |-> Null]

NoCall == [kind |-> "none"]
StartCall == [kind : {"start"}, key : Key, market : Market, generation : AccountGeneration]
SubmitCall == [kind : {"submit"}, app : Application, profile : Profile]
ConfirmCall == [kind : {"confirm"}, app : Application, key : Key, disclosure : Disclosure]

StartKey(k) == <<"start", k>>
ConfirmKey(k) == <<"confirm", k>>
ApplicationRow(a) == <<"application", a>>
AccountRow == <<"account">>
RuleRows == <<"rules">>
Lock == {StartKey(k) : k \in Key} \union {ConfirmKey(k) : k \in Key}
        \union {ApplicationRow(a) : a \in Application} \union {AccountRow, RuleRows}

PermissionsInit ==
  /\ active = 1
  /\ rules \in {r \in [Market -> Rule] : \A m \in Market : r[m] \in RulesOf[m]}
  /\ applications = [a \in Application |-> NotStarted]
  /\ enabled = [g \in AccountGeneration |-> {}]
  /\ bought = [g \in AccountGeneration |-> {}]
  /\ told = [a \in Application |-> {}]
  /\ step = [q \in Request |-> "idle"]
  /\ call = [q \in Request |-> NoCall]
  /\ locked = [q \in Request |-> {}]

Available(row) == \A q \in Request : row \notin locked[q]

\* The threshold of a market, or none at all, which is a threshold of 0.
Meets(profile, rule) == profile.assets >= rule.assets /\ profile.months >= rule.months

\* A transaction begins with a lock, takes another one, or ends.
Enter(q, statement, request, row) ==
  /\ Available(row)
  /\ step' = [step EXCEPT ![q] = statement]
  /\ call' = [call EXCEPT ![q] = request]
  /\ locked' = [locked EXCEPT ![q] = {row}]

TakeLock(q, row, statement) ==
  /\ Available(row)
  /\ step' = [step EXCEPT ![q] = statement]
  /\ locked' = [locked EXCEPT ![q] = @ \union {row}]
  /\ UNCHANGED call

EndRequest(q) ==
  /\ step' = [step EXCEPT ![q] = "idle"]
  /\ call' = [call EXCEPT ![q] = NoCall]
  /\ locked' = [locked EXCEPT ![q] = {}]

\* An exception, a lost connection or the end of the process before COMMIT.
Abandon(q) == step[q] # "idle" /\ EndRequest(q) /\ UNCHANGED facts

-----------------------------------------------------------------------------
(* Starting and cancelling.                                                *)

\* The route has read the active account; a key that is known is a replay or
\* a conflict.
StartLocksKey(q) ==
  /\ step[q] = "idle"
  /\ \E k \in Key, m \in Market :
       /\ \A a \in Application : applications[a].start_key # k
       /\ Enter(q, "start", [kind |-> "start", key |-> k, market |-> m, generation |-> active],
                StartKey(k))
  /\ UNCHANGED facts

\* The account may have been reset since, the market enabled.
StartRefused(q) ==
  /\ step[q] = "start"
  /\ \/ call[q].generation # active
     \/ Available(AccountRow) /\ call[q].market \in enabled[active]
  /\ EndRequest(q)
  /\ UNCHANGED facts

StartCreates(q) ==
  /\ step[q] = "start"
  /\ call[q].generation = active /\ Available(AccountRow)
  /\ call[q].market \notin enabled[active]
  /\ \E a \in Application :
       /\ applications[a].status = "none"
       /\ \A b \in 1..(a - 1) : applications[b].status # "none"
       /\ applications' = [applications EXCEPT ![a] =
            [NotStarted EXCEPT !.status = "in_progress", !.generation = active,
                               !.market = call[q].market, !.start_key = call[q].key]]
  /\ EndRequest(q)
  /\ UNCHANGED <<active, rules, enabled, bought, told>>

CancelApplication(a) ==
  /\ Available(ApplicationRow(a))
  /\ applications[a].status \in Open
  /\ applications' = [applications EXCEPT ![a].status = "cancelled_by_user"]
  /\ UNCHANGED <<active, rules, enabled, bought, told, step, call, locked>>

-----------------------------------------------------------------------------
(* Submitting a profile and confirming: from the application to the rules. *)

SubmitLocksApplication(q) ==
  /\ step[q] = "idle"
  /\ \E a \in Application, p \in Profile :
       /\ applications[a].status \in Open
       /\ Enter(q, "account", [kind |-> "submit", app |-> a, profile |-> p], ApplicationRow(a))
  /\ UNCHANGED facts

\* Mutant of ConfirmLocksKey: the key is looked up without its advisory lock.
ConfirmReadsKey(q) ==
  /\ step[q] = "idle"
  /\ \E a \in Application, k \in Key, d \in Disclosure :
       /\ applications[a].status # "none"
       /\ \A b \in Application : applications[b].confirm_key = k => b = a
       /\ step' = [step EXCEPT ![q] = "application"]
       /\ call' = [call EXCEPT ![q] =
            [kind |-> "confirm", app |-> a, key |-> k, disclosure |-> d]]
  /\ UNCHANGED <<facts, locked>>

\* A key that confirmed another application is refused.
ConfirmLocksKey(q) ==
  /\ step[q] = "idle"
  /\ \E a \in Application, k \in Key, d \in Disclosure :
       /\ applications[a].status # "none"
       /\ \A b \in Application : applications[b].confirm_key = k => b = a
       /\ Enter(q, "application", [kind |-> "confirm", app |-> a, key |-> k, disclosure |-> d],
                ConfirmKey(k))
  /\ UNCHANGED facts

\* A confirmed application answers its own key and disclosure again, and
\* refuses any other; one that has ended is refused.
ConfirmAnswersAgain(q) ==
  LET a == call[q].app
      x == applications[a]
  IN
  /\ step[q] = "application" /\ Available(ApplicationRow(a))
  /\ x.status \notin Open
  /\ told' = [told EXCEPT ![a] = @ \union
       (IF x.status = "completed" /\ x.confirm_key = call[q].key /\ x.disclosure = call[q].disclosure
        THEN {"enabled"} ELSE {})]
  /\ EndRequest(q)
  /\ UNCHANGED <<active, rules, applications, enabled, bought>>

ConfirmLocksApplication(q) ==
  LET a == call[q].app IN
  /\ step[q] = "application"
  /\ applications[a].status \in Open
  /\ TakeLock(q, ApplicationRow(a), "account")
  /\ UNCHANGED facts

\* The application belongs to a generation that was reset away.
AccountIsStale(q) ==
  /\ step[q] = "account" /\ applications[call[q].app].generation # active
  /\ EndRequest(q)
  /\ UNCHANGED facts

LocksAccount(q) ==
  /\ step[q] = "account" /\ applications[call[q].app].generation = active
  /\ TakeLock(q, AccountRow, "rules")
  /\ UNCHANGED facts

LocksRules(q) ==
  /\ step[q] = "rules"
  /\ TakeLock(q, RuleRows, "write")
  /\ UNCHANGED facts

\* Every submission is assessed anew, whatever the earlier one gave.
SubmitWrites(q) ==
  /\ step[q] = "write" /\ call[q].kind = "submit"
  /\ LET a == call[q].app IN
     applications' = [applications EXCEPT
       ![a].assessment = call[q].profile,
       ![a].status = IF Meets(call[q].profile, rules[applications[a].market])
                     THEN "awaiting_confirmation" ELSE "awaiting_information"]
  /\ EndRequest(q)
  /\ UNCHANGED <<active, rules, enabled, bought, told>>

-----------------------------------------------------------------------------
(* The decision of confirm, on the rules it has locked.                    *)

Current(q) == call[q].disclosure = rules[applications[call[q].app].market].disclosure
Assessed(q) == applications[call[q].app].assessment # Null

\* Mutant of Eligible: the decision of the assessment is taken for granted.
WasEligible(q) == applications[call[q].app].status = "awaiting_confirmation"

\* The stored profile, against the rules of now.
Eligible(q) ==
  LET x == applications[call[q].app] IN Assessed(q) /\ Meets(x.assessment, rules[x.market])

AlreadyEnabled(q) ==
  LET x == applications[call[q].app] IN x.market \in enabled[x.generation]

Confirms(q) == step[q] = "write" /\ call[q].kind = "confirm"

\* Another disclosure is due, no profile was submitted, or the market was
\* enabled by another application.
ConfirmRejected(q) ==
  /\ Confirms(q)
  /\ ~Current(q) \/ ~Assessed(q) \/ (Eligible(q) /\ AlreadyEnabled(q))
  /\ EndRequest(q)
  /\ UNCHANGED facts

\* The service records the acceptance, the key and the status "rejected",
\* flushes and raises; the route rolls all of it back and answers.
ConfirmRefused(q) ==
  /\ Confirms(q) /\ Current(q) /\ Assessed(q) /\ ~Eligible(q)
  /\ told' = [told EXCEPT ![call[q].app] = @ \union {"refused"}]
  /\ EndRequest(q)
  /\ UNCHANGED <<active, rules, applications, enabled, bought>>

ConfirmEnables(q) ==
  LET a == call[q].app
      x == applications[a]
  IN
  /\ Confirms(q) /\ Current(q) /\ Assessed(q) /\ Eligible(q) /\ ~AlreadyEnabled(q)
  /\ enabled' = [enabled EXCEPT ![x.generation] = @ \union {x.market}]
  /\ applications' = [applications EXCEPT ![a].status = "completed",
       ![a].confirm_key = call[q].key, ![a].disclosure = call[q].disclosure]
  /\ told' = [told EXCEPT ![a] = @ \union {"enabled"}]
  /\ EndRequest(q)
  /\ UNCHANGED <<active, rules, bought>>

-----------------------------------------------------------------------------
(* Orders, resets and rules.                                               *)

\* An approved order locks the active account and asks for the entitlement.
BuyInMarket(m) ==
  /\ Available(AccountRow)
  /\ m \in enabled[active]
  /\ bought' = [bought EXCEPT ![active] = @ \union {m}]
  /\ UNCHANGED <<active, rules, applications, enabled, told, step, call, locked>>

\* The new account has no entitlements: they belong to a generation.
ResetPermissions ==
  /\ Available(AccountRow) /\ active < MaxAccounts
  /\ active' = active + 1
  /\ UNCHANGED <<rules, applications, enabled, bought, told, step, call, locked>>

\* Whoever operates the database changes the rule of a market.
AmendRule(m) ==
  /\ Available(RuleRows)
  /\ \E r \in RulesOf[m] : rules' = [rules EXCEPT ![m] = r]
  /\ UNCHANGED <<active, applications, enabled, bought, told, step, call, locked>>

PermissionsNext ==
  \/ \E q \in Request :
       \/ StartLocksKey(q) \/ StartRefused(q) \/ StartCreates(q)
       \/ SubmitLocksApplication(q) \/ ConfirmLocksKey(q)
       \/ ConfirmAnswersAgain(q) \/ ConfirmLocksApplication(q)
       \/ AccountIsStale(q) \/ LocksAccount(q) \/ LocksRules(q)
       \/ SubmitWrites(q) \/ ConfirmRejected(q) \/ ConfirmRefused(q) \/ ConfirmEnables(q)
       \/ Abandon(q)
  \/ \E a \in Application : CancelApplication(a)
  \/ \E m \in Market : BuyInMarket(m) \/ AmendRule(m)
  \/ ResetPermissions

PermissionsSpec == PermissionsInit /\ [][PermissionsNext]_permissionVars

-----------------------------------------------------------------------------
(* Properties.                                                             *)

ApplicationRecord ==
  [status : ApplicationStatus, generation : AccountGeneration \union {0},
   market : Market \union {Null}, start_key : Key \union {Null},
   assessment : Profile \union {Null}, confirm_key : Key \union {Null},
   disclosure : Disclosure \union {Null}]

PermissionsTypeOK ==
  /\ active \in AccountGeneration
  /\ rules \in [Market -> Rule]
  /\ applications \in [Application -> ApplicationRecord]
  /\ enabled \in [AccountGeneration -> SUBSET Market]
  /\ bought \in [AccountGeneration -> SUBSET Market]
  /\ told \in [Application -> SUBSET {"enabled", "refused"}]
  /\ step \in [Request -> {"idle", "start", "application", "account", "rules", "write"}]
  /\ call \in [Request -> {NoCall} \union StartCall \union SubmitCall \union ConfirmCall]
  /\ locked \in [Request -> SUBSET Lock]

\* A key starts one application and confirms one, whoever sends it twice or at
\* the same time: the unique constraints of the table are never what decides.
KeysNameOneApplication ==
  \A a, b \in Application :
    /\ applications[a].start_key \in Key /\ applications[a].start_key = applications[b].start_key
         => a = b
    /\ applications[a].confirm_key \in Key /\ applications[a].confirm_key = applications[b].confirm_key
         => a = b

\* An application is completed if and only if it has enabled its market in
\* its account: no entitlement without the one application that earned it, no
\* completed application, and no client told so, without the entitlement.
ApplicationsEnableOnce ==
  /\ \A g \in AccountGeneration : \A m \in Market :
       m \in enabled[g] <=>
         \E a \in Application : applications[a].status = "completed"
                                /\ applications[a].generation = g /\ applications[a].market = m
  /\ \A a, b \in Application :
       /\ applications[a].status = "completed" /\ applications[b].status = "completed"
       /\ applications[a].generation = applications[b].generation
       /\ applications[a].market = applications[b].market
       => a = b
  /\ \A a \in Application : "enabled" \in told[a] => applications[a].status = "completed"

\* Orders stand in markets their own account was enabled for.
OrdersArePermitted == \A g \in AccountGeneration : bought[g] \subseteq enabled[g]

\* The permission tables agree with each other, with the orders and with what
\* clients were told, however requests, replays, cancellations, resets and
\* amendments interleave.
PermissionFactsAgree ==
  /\ PermissionsTypeOK /\ KeysNameOneApplication /\ ApplicationsEnableOnce /\ OrdersArePermitted

EarnedStep ==
  /\ \A g \in AccountGeneration : \A m \in Market :
       /\ m \in enabled[g] => m \in enabled'[g]
       /\ m \in enabled'[g] /\ m \notin enabled[g] =>
            /\ g = active /\ active' = active
            /\ \E a \in Application :
                 LET x == applications'[a] IN
                 /\ x.status = "completed" /\ x.generation = g /\ x.market = m
                 /\ Meets(x.assessment, rules'[m]) /\ x.disclosure = rules'[m].disclosure
       /\ m \in bought'[g] /\ m \notin bought[g] => g = active /\ m \in enabled[g]
  /\ \A a \in Application : applications[a].status = "completed" =>
       applications'[a] = applications[a]

\* A market is enabled only for the account that is active at that moment, by
\* an application for it whose stored profile meets the rule of that moment
\* and whose user accepted the disclosure the rule demands; an order is
\* accepted only then, too; and none of it is ever taken back.
PermissionsAreEarned == [][EarnedStep]_permissionVars

\* An application whose user was told that it is not eligible has ended as
\* "rejected" (tests/integration/investor_suitability/test_service.py:213).
\* False: the route rolls back what the service has written.
RefusalEndsTheApplication ==
  \A a \in Application : "refused" \in told[a] => applications[a].status = "rejected"

=============================================================================
