------------------------------ MODULE Serving ------------------------------
(***************************************************************************)
(* Who answers with which credential, and who settles (src/jim/llm.py,     *)
(* config.py, seller/app.py, and mainnet.py, facilitator.py, mcp_server.py *)
(* of marketplace/): the processes of a deployment.                        *)
(*                                                                         *)
(* A process reads the environment once (get_settings is cached) while the *)
(* operator goes on editing it.  The pin and the override are globals of   *)
(* the process.                                                            *)
(***************************************************************************)
CONSTANTS
  Hosts,      \* processes
  Settings,   \* what the operator may write
  Down        \* no process

\* Settings, as far as it is read here: credentials and mode of llm.py (login:
\* what subscription_available sees), then what the preflight looks at; cheap:
\* some product is priced below facilitator_min_usdc.
ASSUME SettingsAssumption ==
  Settings \subseteq
    [mode : STRING, key : BOOLEAN, sdk : BOOLEAN, login : {"seen", "hidden", "none"},
     cdp : SUBSET {"id", "secret"}, facilitator : STRING, mainnet : BOOLEAN, address : BOOLEAN,
     wallet : BOOLEAN, cheap : BOOLEAN, graphLive : BOOLEAN, graphKey : BOOLEAN]

VARIABLES
  env,         \* the environment
  reachable,   \* does the facilitator answer?
  process,     \* [Hosts -> Down or the process]
  approved,    \* history: the settings a preflight called ready
  sale         \* the last answer that was produced: who, how, paid or not

servingVars == <<env, reachable, process, approved, sale>>

NoSale == [by |-> "none", backend |-> "none", settled |-> FALSE]

ServingInit ==
  /\ env \in Settings
  /\ reachable = TRUE
  /\ process = [h \in Hosts |-> Down]
  /\ approved = {}
  /\ sale = NoSale

Running(h) == process[h] # Down

---------------------------------------------------------------------------
(* llm.py *)

ValidModes == {"api_key", "subscription", "auto"}

\* explicit or override or setting or "api_key"; "" is falsy.
AskedMode(p) ==
  IF p.override # "" THEN p.override
  ELSE IF p.settings.mode # "" THEN p.settings.mode ELSE "api_key"

\* auto: the SDK is importable and a token or a credentials file is seen; a
\* login in the keychain is hidden from the probe.
AutoMode(s) == IF s.sdk /\ s.login = "seen" THEN "subscription" ELSE "api_key"

\* Mutant of ResolveMode: an override is looked at before the pin.
ResolveOverridden(p) ==
  LET mode == AskedMode(p)
  IN  IF mode \notin ValidModes THEN "raises"
      ELSE IF p.pinned /\ p.override = "" THEN "api_key"
      ELSE IF mode = "auto" THEN AutoMode(p.settings) ELSE mode

\* resolve_mode: an invalid mode raises, pinned or not; then the pin wins.
ResolveMode(p) ==
  LET mode == AskedMode(p)
  IN  IF mode \notin ValidModes THEN "raises"
      ELSE IF p.pinned THEN "api_key"
      ELSE IF mode = "auto" THEN AutoMode(p.settings) ELSE mode

\* live_llm_available: an explicit subscription is trusted as soon as the SDK
\* is there.
LiveAvailable(p) ==
  CASE ResolveMode(p) = "subscription" -> p.settings.sdk
    [] ResolveMode(p) = "api_key"      -> p.settings.key
    [] OTHER                           -> FALSE

\* What a call of either client comes to: the credential that was used, or
\* none.  The subscription client takes the key out of the environment of the
\* command it spawns: without a login it fails, and never falls back on the key.
ApiKeyClient(s) == IF s.key THEN "api_key" ELSE "none"

SubscriptionClient(s) == IF s.sdk /\ s.login # "none" THEN "subscription" ELSE "none"

\* build_llm_client, after the check the synthesizer and the debate make.
Backend(p) ==
  IF ~LiveAvailable(p) THEN "none"
  ELSE IF ResolveMode(p) = "subscription" THEN SubscriptionClient(p.settings)
  ELSE ApiKeyClient(p.settings)

---------------------------------------------------------------------------
(* mainnet.py, facilitator.py *)

\* build_facilitator_config: CDP needs both of its variables, else the URL.
FacilitatorOf(s) == IF s.cdp = {"id", "secret"} THEN "cdp" ELSE s.facilitator

\* Mutant of CdpSeen: one of the two is enough.
CdpSeenHalf(s) == s.cdp # {}

CdpSeen(s) == s.cdp = {"id", "secret"}

\* _static_checks: the checks that are not ok or info.
Checks(s) ==
  (IF s.mainnet THEN {} ELSE {<<"network", "warn">>})
  \cup (IF s.address THEN {} ELSE {<<"pay_to", "fail">>})
  \cup (IF s.wallet THEN {} ELSE {<<"buyer_key", "warn">>})
  \cup (IF ~CdpSeen(s) /\ s.mainnet /\ s.facilitator = "testnet"
          THEN {<<"facilitator", "fail">>} ELSE {})
  \cup (IF s.cheap THEN {<<"min_settlement", "warn">>} ELSE {})
  \cup (IF s.graphLive /\ ~s.graphKey /\ ~s.wallet THEN {<<"graph_buy_leg", "fail">>} ELSE {})

\* MainnetReadiness.ready; the balance checks warn and never fail.
Ready(s) == \A check \in Checks(s) : check[2] # "fail"

\* The facilitator of x402.org settles on the testnet only (external).
SettlesFor(s) == reachable /\ (s.mainnet => FacilitatorOf(s) # "testnet")

---------------------------------------------------------------------------
(* The processes *)

Started(role, pinned) ==
  [role |-> role, settings |-> env, pinned |-> pinned, override |-> "", sells |-> FALSE]

\* jim-seller pins before anything else, jim-mcp never does, nor does a command
\* or a program that imports the package.  (jim-monitor serve pins too, but the
\* notes of the monitors are written by a client of their own, with the key.)
Launch(h, role) ==
  /\ ~Running(h)
  /\ process' = [process EXCEPT ![h] = Started(role, role = "seller")]
  /\ UNCHANGED <<env, reachable, approved, sale>>

\* build_app, called by jim-seller or by a program that mounts it: the pin, then
\* the address, without which it raises.  A dead facilitator does not stop it:
\* get_supported degrades, and the calls that move money fail later.
BuildApp(h) ==
  /\ Running(h) /\ process[h].role \in {"seller", "command"}
  /\ process' = [process EXCEPT ![h].pinned = TRUE,
                                ![h].sells = @ \/ process[h].settings.address]
  /\ UNCHANGED <<env, reachable, approved, sale>>

\* build_mcp_server raises without the address.
BuildMcp(h) ==
  /\ Running(h) /\ process[h].role = "mcp" /\ process[h].settings.address
  /\ process' = [process EXCEPT ![h].sells = TRUE]
  /\ UNCHANGED <<env, reachable, approved, sale>>

\* set_auth_mode: jim-research and jim-eval, from --auth-mode.
SetAuthMode(h, mode) ==
  /\ Running(h) /\ process[h].role = "command"
  /\ process' = [process EXCEPT ![h].override = mode]
  /\ UNCHANGED <<env, reachable, approved, sale>>

\* A paid request: verified, answered by a memo written for it, settled.  It is
\* withheld without a credential, or when either facilitator call fails.  (A
\* memo of the cache needs no credential and is left out.)
Sell(h) ==
  /\ Running(h) /\ process[h].sells
  /\ Backend(process[h]) # "none" /\ SettlesFor(process[h].settings)
  /\ sale' = [by |-> process[h].role, backend |-> Backend(process[h]), settled |-> TRUE]
  /\ UNCHANGED <<env, reachable, process, approved>>

\* jim-research and jim-eval: a run for the operator, nothing is settled.
RunUnpaid(h) ==
  /\ Running(h) /\ process[h].role = "command"
  /\ Backend(process[h]) # "none"
  /\ sale' = [by |-> "command", backend |-> Backend(process[h]), settled |-> FALSE]
  /\ UNCHANGED <<env, reachable, process, approved>>

\* jim-market mainnet, a process of its own: it reads the environment of now.
Preflight ==
  /\ Ready(env)
  /\ approved' = approved \cup {env}
  /\ UNCHANGED <<env, reachable, process, sale>>

Stop(h) ==
  /\ Running(h)
  /\ process' = [process EXCEPT ![h] = Down]
  /\ UNCHANGED <<env, reachable, approved, sale>>

EditEnv(s) ==
  /\ env' = s
  /\ UNCHANGED <<reachable, process, approved, sale>>

FacilitatorFlips ==
  /\ reachable' = ~reachable
  /\ UNCHANGED <<env, process, approved, sale>>

ServingNext ==
  \/ \E h \in Hosts, role \in {"seller", "mcp", "command"} : Launch(h, role)
  \/ \E h \in Hosts : BuildApp(h) \/ BuildMcp(h) \/ Sell(h) \/ RunUnpaid(h) \/ Stop(h)
  \/ \E h \in Hosts, mode \in ValidModes \cup {""} : SetAuthMode(h, mode)
  \/ Preflight \/ FacilitatorFlips
  \/ \E s \in Settings : EditEnv(s)

ServingSpec == ServingInit /\ [][ServingNext]_servingVars

---------------------------------------------------------------------------
(* Properties *)

\* The terms of use: no order of override, environment, app construction and
\* runs lets a subscription answer in a process that has built the paid app, for
\* a buyer or for its operator.  (jim-mcp, which never pins, is left out.)
PinHolds ==
  [][\A h \in Hosts :
       (Sell(h) \/ RunUnpaid(h)) /\ process[h].sells /\ process[h].role # "mcp"
         => sale'.backend = "api_key"]_servingVars

\* A preflight without a failed check is a promise about every process launched
\* from what it read: it has an address to be paid at, a facilitator that can
\* settle on its network, and a key for the live data leg.  The check and the
\* client that settles look at the settings apart.
ReadyMeansSettles ==
  \A h \in Hosts : Running(h) /\ process[h].settings \in approved =>
    LET s == process[h].settings
    IN  /\ s.address
        /\ reachable => SettlesFor(s)
        /\ s.graphLive => s.graphKey \/ s.wallet
=============================================================================
