--------------------------- MODULE Permissioning ---------------------------
(***************************************************************************)
(* The account permissioning of the relay (service/permissioning.go) from  *)
(* the start of the service on: where the rules contract comes from, the   *)
(* check of the node's own account, the cache of permissions with its      *)
(* lifetime, the checks that concurrent requests make of their senders,    *)
(* and what GET /info says of all that (service/info.go).                  *)
(*                                                                         *)
(* A check takes no lock while it reads the chain, so it is three steps:   *)
(* look in the cache, read, remember.  Two checks of one account may       *)
(* overlap, and the older reading may overwrite the newer one.             *)
(*                                                                         *)
(* Time is relative: an entry has the time that is left until expiresAt, a *)
(* reading its age, and a step of the clock moves them all.                *)
(***************************************************************************)
EXTENDS Integers

CONSTANTS
    Contracts,    \* rules contracts of the network
    NoContract,   \* no address
    Accounts,     \* the senders, and the node
    Node,         \* the account of the writer node
    Requests,     \* requests that check their sender
    Startup,      \* the check of the node made before the service listens
    TTL,          \* rulesCacheTTL
    ReadMax       \* the slowest reading: it is remembered no later after it was made

Checks == Requests \cup {Startup}

ASSUME PermissioningAssumption ==
    /\ Node \in Accounts
    /\ Startup \notin Requests
    /\ NoContract \notin Contracts
    /\ TTL \in Nat \ {0}      \* a configured 0 means the default, see Configuration
    /\ ReadMax \in Nat

VARIABLES
    conf,          \* what the configuration says: the switch, the rules address, a registry
    phase,         \* start-up: "init", "resolve", "node", "serving"; or "aborted"
    rules,         \* service.rules
    nodePermitted, \* service.nodePermitted; "none" is nil
    cache,         \* rules.cache; an entry without time left is as good as absent
    pc, account,   \* per check: its next step, whom it asks about
    seen, age,     \* per check: what it read, and how long ago
    verdict,       \* per check: what it answered
    info,          \* nodePermitted in the last answer of GET /info
    allow,         \* the chain: per contract, the accounts it permits
    sinceIn,       \* history: how long ago an account was permitted, up to Window
    sinceOut,      \* history: how long ago it was refused, up to Window
    said           \* history: what a contract ever said of the node

serviceVars == <<conf, phase, rules, nodePermitted, cache, info>>
checkVars == <<pc, account, seen, age, verdict>>
chainVars == <<allow, sinceIn, sinceOut, said>>
vars == <<serviceVars, checkVars, chainVars>>

NoRules == [address |-> NoContract, source |-> "none"]
Rules == [address : Contracts, source : {"config", "ingress"}] \cup {NoRules}
Confs == [enabled : BOOLEAN, configured : Contracts \cup {NoContract}, ingress : BOOLEAN]
Permission(b) == IF b THEN "permitted" ELSE "refused"
Known == {"none", "permitted", "refused"}

(***************************************************************************)
(* How long a change of the list may go unnoticed.                         *)
(***************************************************************************)
Window == ReadMax + TTL

TypeOK ==
    /\ conf \in Confs
    /\ phase \in {"init", "resolve", "node", "serving", "aborted"}
    /\ rules \in Rules
    /\ nodePermitted \in Known
    /\ cache \in [Accounts -> [permitted : BOOLEAN, left : 0..TTL]]
    /\ pc \in [Checks -> {"idle", "cached", "read", "remember"}]
    /\ account \in [Checks -> Accounts]
    /\ seen \in [Checks -> BOOLEAN]
    /\ age \in [Checks -> 0..ReadMax]
    /\ verdict \in [Checks -> Known \cup {"error"}]
    /\ info \in Known
    /\ allow \in [Contracts -> SUBSET Accounts]
    /\ sinceIn \in [Contracts -> [Accounts -> 0..Window]]
    /\ sinceOut \in [Contracts -> [Accounts -> 0..Window]]
    /\ said \in [Contracts -> SUBSET Known]

Init ==
    /\ conf \in Confs
    /\ phase = "init"
    /\ rules = NoRules
    /\ nodePermitted = "none"
    /\ cache = [a \in Accounts |-> [permitted |-> FALSE, left |-> 0]]
    /\ pc = [c \in Checks |-> "idle"]
    /\ account = [c \in Checks |-> Node]
    /\ seen = [c \in Checks |-> FALSE]
    /\ age = [c \in Checks |-> 0]
    /\ verdict = [c \in Checks |-> "none"]
    /\ info = "none"
    /\ allow \in [Contracts -> SUBSET Accounts]
    /\ sinceIn = [k \in Contracts |-> [a \in Accounts |-> IF a \in allow[k] THEN 0 ELSE Window]]
    /\ sinceOut = [k \in Contracts |-> [a \in Accounts |-> IF a \in allow[k] THEN Window ELSE 0]]
    /\ said = [k \in Contracts |-> {Permission(Node \in allow[k])}]

(***************************************************************************)
(* The chain: time passes, and accounts are added to and removed from a    *)
(* list.  The clock does not outrun the slowest reading.                   *)
(***************************************************************************)
Older(t, max) == IF t < max THEN t + 1 ELSE max

Tick ==
    /\ \A c \in Checks : pc[c] = "remember" => age[c] < ReadMax
    /\ age' = [c \in Checks |-> IF pc[c] = "remember" THEN age[c] + 1 ELSE age[c]]
    /\ cache' = [a \in Accounts |-> [cache[a] EXCEPT !.left = IF @ > 0 THEN @ - 1 ELSE 0]]
    /\ sinceIn' = [k \in Contracts |-> [a \in Accounts |->
                    IF a \in allow[k] THEN 0 ELSE Older(sinceIn[k][a], Window)]]
    /\ sinceOut' = [k \in Contracts |-> [a \in Accounts |->
                    IF a \in allow[k] THEN Older(sinceOut[k][a], Window) ELSE 0]]
    /\ UNCHANGED <<conf, phase, rules, nodePermitted, info, pc, account, seen, verdict, allow, said>>

ChangeList(k, a) ==
    /\ allow' = [allow EXCEPT ![k] = IF a \in @ THEN @ \ {a} ELSE @ \cup {a}]
    /\ sinceIn' = [sinceIn EXCEPT ![k][a] = 0]
    /\ sinceOut' = [sinceOut EXCEPT ![k][a] = 0]
    /\ said' = [said EXCEPT ![k] = @ \cup {Permission(Node \in allow'[k])}]
    /\ UNCHANGED <<serviceVars, checkVars>>

(***************************************************************************)
(* service.Init: with the check asked for there must be somewhere to take  *)
(* the rules from, and the node must give the hub's address, or the        *)
(* process ends (main).                                                    *)
(***************************************************************************)
InitService(hubRead) ==
    /\ phase = "init"
    /\ phase' = IF (conf.enabled /\ conf.configured = NoContract /\ ~conf.ingress) \/ ~hubRead
                THEN "aborted" ELSE "resolve"
    /\ UNCHANGED <<conf, rules, nodePermitted, cache, info, checkVars, chainVars>>

(***************************************************************************)
(* resolveRules: the configured address comes first and is kept whatever   *)
(* the node answers; the registry is asked otherwise.  "published" is what *)
(* it answers: NoContract for every failure on the way (no connection, no  *)
(* code, no answer) and for the zero address, which all leave no rules.    *)
(***************************************************************************)
resolveRules(published) ==
    IF conf.configured # NoContract
    THEN [address |-> conf.configured, source |-> "config"]
    ELSE IF conf.ingress /\ published # NoContract
    THEN [address |-> published, source |-> "ingress"]
    ELSE NoRules

\* Faulty variant: without rules the service does not listen.
ResolveOrAbort(published) ==
    /\ phase = "resolve"
    /\ rules' = IF conf.enabled THEN resolveRules(published) ELSE NoRules
    /\ IF rules' = NoRules
       THEN phase' = "aborted" /\ pc' = pc
       ELSE phase' = "node" /\ pc' = [pc EXCEPT ![Startup] = "cached"]
    /\ UNCHANGED <<conf, nodePermitted, cache, info, account, seen, age, verdict, chainVars>>

(***************************************************************************)
(* ResolveAccountRules, once, before the service listens: nothing at all   *)
(* when the check is off; the check of the node follows when rules were    *)
(* found.                                                                  *)
(***************************************************************************)
ResolveAccountRules(published) ==
    /\ phase = "resolve"
    /\ rules' = IF conf.enabled THEN resolveRules(published) ELSE NoRules
    /\ IF rules' = NoRules
       THEN phase' = "serving" /\ pc' = pc
       ELSE phase' = "node" /\ pc' = [pc EXCEPT ![Startup] = "cached"]
    /\ UNCHANGED <<conf, nodePermitted, cache, info, account, seen, age, verdict, chainVars>>

\* Faulty variant: a check of the node that failed counts as passed.
checkNodeAssumes(c, v) ==
    IF c = Startup
    THEN /\ nodePermitted' = IF v = "error" THEN "permitted" ELSE v
         /\ phase' = "serving"
    ELSE UNCHANGED <<nodePermitted, phase>>

(***************************************************************************)
(* The answer of a check; that of the node's own check is kept unless it   *)
(* failed, and then the service listens (checkNodePermitted).              *)
(***************************************************************************)
checkNodePermitted(c, v) ==
    IF c = Startup
    THEN /\ nodePermitted' = IF v = "error" THEN nodePermitted ELSE v
         /\ phase' = "serving"
    ELSE UNCHANGED <<nodePermitted, phase>>

Answer(c, v) ==
    /\ pc' = [pc EXCEPT ![c] = "idle"]
    /\ verdict' = [verdict EXCEPT ![c] = v]
    /\ account' = [account EXCEPT ![c] = Node]
    /\ seen' = [seen EXCEPT ![c] = FALSE]
    /\ age' = [age EXCEPT ![c] = 0]
    /\ checkNodePermitted(c, v)

Begin(c, a) ==
    /\ phase = "serving"
    /\ c # Startup
    /\ pc[c] = "idle"
    /\ pc' = [pc EXCEPT ![c] = "cached"]
    /\ account' = [account EXCEPT ![c] = a]
    /\ verdict' = [verdict EXCEPT ![c] = "none"]
    /\ UNCHANGED <<serviceVars, seen, age, chainVars>>

(***************************************************************************)
(* AccountPermitted up to the cache.  Without rules the answer depends on  *)
(* whether anyone asked for the check; an entry counts while its time has  *)
(* not come.                                                               *)
(***************************************************************************)
NoAllowlist(c) ==
    /\ pc[c] = "cached" /\ rules = NoRules
    /\ Answer(c, IF conf.enabled THEN "error" ELSE "permitted")
    /\ UNCHANGED <<conf, rules, cache, info, chainVars>>

Fresh(a) == cache[a].left > 0

cached(c) ==
    /\ pc[c] = "cached" /\ rules # NoRules
    /\ Fresh(account[c])
    /\ Answer(c, Permission(cache[account[c]].permitted))
    /\ UNCHANGED <<conf, rules, cache, info, chainVars>>

Miss(c) ==
    /\ pc[c] = "cached" /\ rules # NoRules
    /\ ~Fresh(account[c])
    /\ pc' = [pc EXCEPT ![c] = "read"]
    /\ UNCHANGED <<serviceVars, account, seen, age, verdict, chainVars>>

Read(c) ==
    /\ pc[c] = "read"
    /\ pc' = [pc EXCEPT ![c] = "remember"]
    /\ seen' = [seen EXCEPT ![c] = account[c] \in allow[rules.address]]
    /\ UNCHANGED <<serviceVars, account, age, verdict, chainVars>>

\* Faulty variant: an expired permission is served when the read fails.
CallFailsServesStale(c) ==
    /\ pc[c] = "read"
    /\ Answer(c, IF cache[account[c]].permitted THEN "permitted" ELSE "error")
    /\ UNCHANGED <<conf, rules, cache, info, chainVars>>

\* Faulty variant: a failed read is answered as a refusal.
CallFailsRefuses(c) ==
    /\ pc[c] = "read"
    /\ Answer(c, "refused")
    /\ UNCHANGED <<conf, rules, cache, info, chainVars>>

(***************************************************************************)
(* No connection, or no answer from the contract: the check fails, and an  *)
(* expired entry is not served instead.                                    *)
(***************************************************************************)
CallFails(c) ==
    /\ pc[c] = "read"
    /\ Answer(c, "error")
    /\ UNCHANGED <<conf, rules, cache, info, chainVars>>

remember(c) ==
    /\ pc[c] = "remember"
    /\ cache' = [cache EXCEPT ![account[c]] =
                    [permitted |-> seen[c], left |-> TTL]]
    /\ Answer(c, Permission(seen[c]))
    /\ UNCHANGED <<conf, rules, info, chainVars>>

(***************************************************************************)
(* GET /info: the rules as resolved, and of the node what was learned at   *)
(* the start unless the chain answers now.  It leaves nothing behind.      *)
(***************************************************************************)
Info(reached) ==
    /\ phase = "serving"
    /\ info' = IF rules # NoRules /\ reached
               THEN Permission(Node \in allow[rules.address])
               ELSE nodePermitted
    /\ UNCHANGED <<conf, phase, rules, nodePermitted, cache, checkVars, chainVars>>

Stopped == phase = "aborted" /\ UNCHANGED vars

CheckRuns(c) ==
    \/ NoAllowlist(c)
    \/ cached(c)
    \/ Miss(c)
    \/ Read(c)
    \/ CallFails(c)
    \/ remember(c)

Next ==
    \/ Tick
    \/ \E k \in Contracts, a \in Accounts : ChangeList(k, a)
    \/ \E hubRead \in BOOLEAN : InitService(hubRead)
    \/ \E published \in Contracts \cup {NoContract} : ResolveAccountRules(published)
    \/ \E c \in Requests, a \in Accounts : Begin(c, a)
    \/ \E c \in Checks : CheckRuns(c)
    \/ \E reached \in BOOLEAN : Info(reached)
    \/ Stopped

(***************************************************************************)
(* Goroutines run and the node answers or refuses each call some time; of  *)
(* the clients and of the chain's lists nothing is assumed.                *)
(***************************************************************************)
Fairness ==
    /\ WF_vars(\E hubRead \in BOOLEAN : InitService(hubRead))
    /\ WF_vars(\E published \in Contracts \cup {NoContract} : ResolveAccountRules(published))
    /\ \A c \in Checks : WF_vars(CheckRuns(c))

Spec == Init /\ [][Next]_vars /\ Fairness

-----------------------------------------------------------------------------
(***************************************************************************)
(* Properties.                                                             *)
(***************************************************************************)

(***************************************************************************)
(* Fail closed, and no permission outlives its revocation by more than the *)
(* lifetime of the cache and the slowest reading: with the check on, a     *)
(* sender is let through only if the resolved contract permitted it less   *)
(* than that ago, although failed reads, expired entries and overlapping   *)
(* readings that overwrite one another happen all the time.                *)
(***************************************************************************)
AcceptedWasPermitted ==
    [][\A c \in Checks :
        conf.enabled /\ pc[c] # "idle" /\ pc'[c] = "idle" /\ verdict'[c] = "permitted"
            => /\ rules # NoRules
               /\ sinceIn[rules.address][account[c]] < Window]_vars

(***************************************************************************)
(* The converse: a sender is told that it is not permitted only if the     *)
(* contract refused it less than that ago, so a grant is seen in bounded   *)
(* time and a failure to read is never reported as a refusal.              *)
(***************************************************************************)
RefusedWasRefused ==
    [][\A c \in Checks :
        pc[c] # "idle" /\ pc'[c] = "idle" /\ verdict'[c] = "refused"
            => /\ rules # NoRules
               /\ sinceOut[rules.address][account[c]] < Window]_vars

(***************************************************************************)
(* GET /info says that the node is permitted, or is not, only if the       *)
(* resolved contract said so at some time since the start; a check that    *)
(* failed leaves the field without a value.  How long ago is not bounded:  *)
(* while the chain does not answer, the value of the start is shown.       *)
(***************************************************************************)
NodeReportGrounded ==
    info # "none" => rules # NoRules /\ info \in said[rules.address]

(***************************************************************************)
(* Once the hub's address is known the service listens in the end:         *)
(* resolving the rules and checking the node's account end no start, with  *)
(* the node down by now, without a registry or with the account refused    *)
(* ("No aborta el arranque en ningun caso", main.go).                      *)
(***************************************************************************)
ListensInTheEnd == (phase = "resolve") ~> (phase = "serving")
=============================================================================
