------------------------- MODULE PermissioningProofs -------------------------
(***************************************************************************)
(* Proofs about Permissioning: however many accounts, contracts and        *)
(* overlapping checks there are, and however long the lifetime of the      *)
(* cache and the slowest reading.                                          *)
(***************************************************************************)
EXTENDS Permissioning, TLAPS

(***************************************************************************)
(* The history is up to date with the lists.                               *)
(***************************************************************************)
HistoryInv ==
    \A k \in Contracts :
        /\ \A a \in Accounts : /\ a \in allow[k] => sinceIn[k][a] = 0
                               /\ a \notin allow[k] => sinceOut[k][a] = 0
        /\ Permission(Node \in allow[k]) \in said[k]

(***************************************************************************)
(* Nothing is asked before the rules are resolved, and nothing is read     *)
(* without them; the check made at the start is about the node.            *)
(***************************************************************************)
BeforeRules ==
    /\ phase \in {"init", "resolve", "aborted"} =>
        /\ rules = NoRules
        /\ \A c \in Checks : pc[c] = "idle"
    /\ \A c \in Checks : pc[c] \in {"read", "remember"} => rules # NoRules
    /\ \A a \in Accounts : cache[a].left > 0 => rules # NoRules
    /\ account[Startup] = Node
    /\ pc[Startup] # "idle" => rules # NoRules

(***************************************************************************)
(* What a check has read was so on the chain as long ago as the reading is *)
(* old; what an entry says was so no longer ago than the slowest reading   *)
(* and the part of its lifetime that is over.                              *)
(***************************************************************************)
Grounded(k, a, b, t) ==
    /\ b => sinceIn[k][a] <= t
    /\ ~b => sinceOut[k][a] <= t
    /\ a = Node => Permission(b) \in said[k]

ReadInv ==
    \A c \in Checks : pc[c] = "remember" =>
        Grounded(rules.address, account[c], seen[c], age[c])

CacheInv ==
    \A a \in Accounts : cache[a].left > 0 =>
        Grounded(rules.address, a, cache[a].permitted, Window - cache[a].left)

NodeInv ==
    nodePermitted # "none" => rules # NoRules /\ nodePermitted \in said[rules.address]

IInv ==
    /\ TypeOK
    /\ HistoryInv
    /\ BeforeRules
    /\ ReadInv
    /\ CacheInv
    /\ NodeInv
    /\ NodeReportGrounded

-----------------------------------------------------------------------------
LEMMA RulesAddress ==
    ASSUME NEW r \in Rules, r # NoRules
    PROVE  r.address \in Contracts
BY DEF Rules, NoRules

LEMMA Numbers ==
    /\ TTL \in Nat /\ TTL > 0 /\ ReadMax \in Nat /\ Window \in Nat
    /\ Window = ReadMax + TTL
    /\ Node \in Accounts /\ Startup \in Checks
    /\ \A b \in BOOLEAN : Permission(b) \in {"permitted", "refused"}
BY PermissioningAssumption DEF Window, Checks, Permission

LEMMA InitIInv == Init => IInv
<1> SUFFICES ASSUME Init PROVE IInv
    OBVIOUS
<1>1. TypeOK
  <2>1. NoRules \in Rules
    BY DEF Rules
  <2>2. cache \in [Accounts -> [permitted : BOOLEAN, left : 0..TTL]]
    BY Numbers DEF Init
  <2>3. /\ sinceIn \in [Contracts -> [Accounts -> 0..Window]]
        /\ sinceOut \in [Contracts -> [Accounts -> 0..Window]]
    BY Numbers DEF Init
  <2>4. said \in [Contracts -> SUBSET Known]
    BY DEF Init, Known, Permission
  <2> QED
    BY <2>1, <2>2, <2>3, <2>4, Numbers DEF Init, TypeOK, Known
<1>2. HistoryInv
    BY DEF Init, HistoryInv
<1>3. BeforeRules
    BY Numbers DEF Init, BeforeRules
<1>4. ReadInv /\ CacheInv /\ NodeInv /\ NodeReportGrounded
    BY DEF Init, ReadInv, CacheInv, NodeInv, NodeReportGrounded
<1> QED
    BY <1>1, <1>2, <1>3, <1>4 DEF IInv

(***************************************************************************)
(* A step of the clock: entries, readings and the history grow older       *)
(* together.                                                               *)
(***************************************************************************)
LEMMA TickIInv == ASSUME IInv, Tick PROVE IInv'
<1>1. TypeOK'
  <2>1. cache' \in [Accounts -> [permitted : BOOLEAN, left : 0..TTL]]
    <3> SUFFICES ASSUME NEW a \in Accounts
                 PROVE [cache[a] EXCEPT !.left = IF @ > 0 THEN @ - 1 ELSE 0]
                            \in [permitted : BOOLEAN, left : 0..TTL]
        BY DEF Tick
    <3>1. cache[a] \in [permitted : BOOLEAN, left : 0..TTL]
        BY DEF IInv, TypeOK
    <3> QED
        BY <3>1, Numbers
  <2>2. age' \in [Checks -> 0..ReadMax]
    BY Numbers DEF IInv, TypeOK, Tick
  <2>3. sinceIn' \in [Contracts -> [Accounts -> 0..Window]]
    BY Numbers DEF IInv, TypeOK, Tick, Older
  <2>4. sinceOut' \in [Contracts -> [Accounts -> 0..Window]]
    BY Numbers DEF IInv, TypeOK, Tick, Older
  <2> QED
    BY <2>1, <2>2, <2>3, <2>4 DEF IInv, TypeOK, Tick
<1>2. HistoryInv'
    BY DEF IInv, HistoryInv, Tick
<1>3. \A a \in Accounts : /\ cache'[a].permitted = cache[a].permitted
                          /\ cache'[a].left = IF cache[a].left > 0 THEN cache[a].left - 1 ELSE 0
  <2> TAKE a \in Accounts
  <2>1. cache[a] \in [permitted : BOOLEAN, left : 0..TTL]
    BY DEF IInv, TypeOK
  <2>2. cache'[a] = [cache[a] EXCEPT !.left = IF @ > 0 THEN @ - 1 ELSE 0]
    BY DEF Tick
  <2> QED
    BY <2>1, <2>2
<1>4. BeforeRules'
  <2>1. \A a \in Accounts : cache'[a].left > 0 => cache[a].left > 0
    BY <1>3, Numbers DEF IInv, TypeOK
  <2> QED
    BY <2>1 DEF IInv, BeforeRules, Tick
<1>5. ReadInv'
  <2> SUFFICES ASSUME NEW c \in Checks, pc[c] = "remember"
               PROVE  Grounded(rules.address, account[c], seen[c], age[c])'
    BY DEF ReadInv, Tick
  <2>1. Grounded(rules.address, account[c], seen[c], age[c])
    BY DEF IInv, ReadInv
  <2>2. rules.address \in Contracts /\ account[c] \in Accounts
    BY RulesAddress DEF IInv, TypeOK, BeforeRules
  <2>3. age'[c] = age[c] + 1 /\ age[c] \in 0..ReadMax
    BY DEF Tick, IInv, TypeOK
  <2>4. /\ sinceIn'[rules.address][account[c]] <= sinceIn[rules.address][account[c]] + 1
        /\ sinceOut'[rules.address][account[c]] <= sinceOut[rules.address][account[c]] + 1
        /\ sinceIn'[rules.address][account[c]] \in Nat /\ sinceOut'[rules.address][account[c]] \in Nat
        /\ sinceIn[rules.address][account[c]] \in Nat /\ sinceOut[rules.address][account[c]] \in Nat
    BY <2>2, Numbers DEF Tick, Older, IInv, TypeOK
  <2> QED
    BY <2>1, <2>3, <2>4 DEF Grounded, Tick
<1>6. CacheInv'
  <2> SUFFICES ASSUME NEW a \in Accounts, cache'[a].left > 0
               PROVE  Grounded(rules.address, a, cache[a].permitted, Window - cache[a].left)'
    BY DEF CacheInv, Tick
  <2>1. /\ cache[a].left > 0 /\ cache[a].left \in Nat
        /\ cache'[a].left = cache[a].left - 1
        /\ cache'[a].permitted = cache[a].permitted
    BY <1>3, Numbers DEF IInv, TypeOK
  <2>2. Grounded(rules.address, a, cache[a].permitted, Window - cache[a].left)
    BY <2>1 DEF IInv, CacheInv
  <2>3. rules.address \in Contracts
    BY <2>1, RulesAddress DEF IInv, TypeOK, BeforeRules
  <2>4. /\ sinceIn'[rules.address][a] <= sinceIn[rules.address][a] + 1
        /\ sinceOut'[rules.address][a] <= sinceOut[rules.address][a] + 1
        /\ sinceIn'[rules.address][a] \in Nat /\ sinceOut'[rules.address][a] \in Nat
        /\ sinceIn[rules.address][a] \in Nat /\ sinceOut[rules.address][a] \in Nat
    BY <2>3, Numbers DEF Tick, Older, IInv, TypeOK
  <2> QED
    BY <2>1, <2>2, <2>4, Numbers DEF Grounded, Tick, Window
<1>7. NodeInv' /\ NodeReportGrounded'
    BY DEF IInv, NodeInv, NodeReportGrounded, Tick
<1> QED
    BY <1>1, <1>2, <1>4, <1>5, <1>6, <1>7 DEF IInv

(***************************************************************************)
(* A change of a list only makes the history more recent.                  *)
(***************************************************************************)
LEMMA ChangeListIInv ==
    ASSUME IInv, NEW k \in Contracts, NEW a \in Accounts, ChangeList(k, a)
    PROVE  IInv'
<1>1. /\ \A l \in Contracts, b \in Accounts : /\ sinceIn'[l][b] \in {0, sinceIn[l][b]}
                                              /\ sinceOut'[l][b] \in {0, sinceOut[l][b]}
                                              /\ sinceIn[l][b] \in Nat /\ sinceOut[l][b] \in Nat
      /\ \A l \in Contracts : said[l] \subseteq said'[l]
  <2>1. \A l \in Contracts, b \in Accounts : sinceIn'[l][b] \in {0, sinceIn[l][b]}
    BY DEF ChangeList, IInv, TypeOK
  <2>2. \A l \in Contracts, b \in Accounts : sinceOut'[l][b] \in {0, sinceOut[l][b]}
    BY DEF ChangeList, IInv, TypeOK
  <2>3. \A l \in Contracts, b \in Accounts : sinceIn[l][b] \in Nat /\ sinceOut[l][b] \in Nat
    BY Numbers DEF IInv, TypeOK
  <2>4. \A l \in Contracts : said[l] \subseteq said'[l]
    BY DEF ChangeList, IInv, TypeOK
  <2> QED
    BY <2>1, <2>2, <2>3, <2>4
<1>2. TypeOK'
  <2>1. allow' \in [Contracts -> SUBSET Accounts]
    BY DEF ChangeList, IInv, TypeOK
  <2>2. sinceIn' \in [Contracts -> [Accounts -> 0..Window]]
    BY Numbers DEF ChangeList, IInv, TypeOK
  <2>3. sinceOut' \in [Contracts -> [Accounts -> 0..Window]]
    BY Numbers DEF ChangeList, IInv, TypeOK
  <2>4. said' \in [Contracts -> SUBSET Known]
    <3>1. Permission(Node \in allow'[k]) \in Known
        BY DEF Permission, Known
    <3> QED
        BY <3>1 DEF ChangeList, IInv, TypeOK
  <2> QED
    BY <2>1, <2>2, <2>3, <2>4 DEF ChangeList, IInv, TypeOK, serviceVars, checkVars
<1>3. HistoryInv'
  <2> SUFFICES ASSUME NEW l \in Contracts
               PROVE  /\ \A b \in Accounts : /\ b \in allow'[l] => sinceIn'[l][b] = 0
                                             /\ b \notin allow'[l] => sinceOut'[l][b] = 0
                      /\ Permission(Node \in allow'[l]) \in said'[l]
    BY DEF HistoryInv, Permission
  <2>1. CASE l = k
    <3>1. /\ sinceIn'[k][a] = 0 /\ sinceOut'[k][a] = 0
          /\ \A b \in Accounts \ {a} : (b \in allow'[k]) = (b \in allow[k])
          /\ Permission(Node \in allow'[k]) \in said'[k]
        BY DEF ChangeList, IInv, TypeOK
    <3> QED
        BY <2>1, <3>1, <1>1 DEF IInv, HistoryInv
  <2>2. CASE l # k
    <3>1. allow'[l] = allow[l]
        BY <2>2 DEF ChangeList, IInv, TypeOK
    <3> QED
        BY <3>1, <1>1 DEF IInv, HistoryInv
  <2> QED
    BY <2>1, <2>2
<1>4. BeforeRules'
    BY DEF IInv, BeforeRules, ChangeList, serviceVars, checkVars
<1>5. ASSUME NEW l \in Contracts, NEW b \in Accounts, NEW p \in BOOLEAN, NEW t \in Nat,
             Grounded(l, b, p, t)
      PROVE  /\ p => sinceIn'[l][b] <= t
             /\ ~p => sinceOut'[l][b] <= t
             /\ b = Node => Permission(p) \in said'[l]
    BY <1>1, <1>5 DEF Grounded
<1>6. ReadInv'
  <2> SUFFICES ASSUME NEW c \in Checks, pc[c] = "remember"
               PROVE  Grounded(rules.address, account[c], seen[c], age[c])'
    BY DEF ReadInv, ChangeList, checkVars
  <2>1. /\ Grounded(rules.address, account[c], seen[c], age[c])
        /\ rules.address \in Contracts /\ account[c] \in Accounts
        /\ seen[c] \in BOOLEAN /\ age[c] \in Nat
    BY RulesAddress, Numbers DEF IInv, ReadInv, TypeOK, BeforeRules
  <2> QED
    BY <2>1, <1>5 DEF Grounded, ChangeList, checkVars, serviceVars
<1>7. CacheInv'
  <2> SUFFICES ASSUME NEW b \in Accounts, cache[b].left > 0
               PROVE  Grounded(rules.address, b, cache[b].permitted, Window - cache[b].left)'
    BY DEF CacheInv, ChangeList, serviceVars
  <2>1. /\ Grounded(rules.address, b, cache[b].permitted, Window - cache[b].left)
        /\ rules.address \in Contracts
        /\ cache[b].permitted \in BOOLEAN /\ Window - cache[b].left \in Nat
    BY RulesAddress, Numbers DEF IInv, CacheInv, TypeOK, BeforeRules
  <2> QED
    BY <2>1, <1>5 DEF Grounded, ChangeList, serviceVars
<1>8. NodeInv' /\ NodeReportGrounded'
    BY <1>1, RulesAddress DEF IInv, NodeInv, NodeReportGrounded, ChangeList, serviceVars, TypeOK
<1> QED
    BY <1>2, <1>3, <1>4, <1>6, <1>7, <1>8 DEF IInv

(***************************************************************************)
(* The steps of the service leave the chain alone.                         *)
(***************************************************************************)
LEMMA StartIInv ==
    ASSUME IInv,
           \/ \E hubRead \in BOOLEAN : InitService(hubRead)
           \/ \E published \in Contracts \cup {NoContract} : ResolveAccountRules(published)
    PROVE  IInv'
<1>1. CASE \E hubRead \in BOOLEAN : InitService(hubRead)
    BY <1>1 DEF IInv, TypeOK, HistoryInv, BeforeRules, ReadInv, CacheInv, NodeInv, NodeReportGrounded,
                Grounded, InitService, checkVars, chainVars
<1>2. CASE \E published \in Contracts \cup {NoContract} : ResolveAccountRules(published)
  <2> PICK published \in Contracts \cup {NoContract} : ResolveAccountRules(published)
    BY <1>2
  <2>1. rules' \in Rules
    BY DEF ResolveAccountRules, resolveRules, Rules, IInv, TypeOK, Confs
  <2>2. /\ rules = NoRules /\ \A c \in Checks : pc[c] = "idle"
        /\ \A a \in Accounts : ~(cache[a].left > 0)
        /\ nodePermitted = "none" /\ info = "none"
    BY DEF ResolveAccountRules, IInv, BeforeRules, NodeInv, NodeReportGrounded
  <2>3. \A c \in Checks : pc'[c] \in {"idle", "cached"}
    BY <2>2 DEF ResolveAccountRules, IInv, TypeOK
  <2>4. TypeOK'
    BY <2>1, Numbers DEF ResolveAccountRules, IInv, TypeOK, chainVars
  <2>5. HistoryInv'
    BY DEF ResolveAccountRules, IInv, HistoryInv, chainVars
  <2>6. BeforeRules'
    BY <2>2, <2>3 DEF ResolveAccountRules, IInv, BeforeRules
  <2>7. ReadInv' /\ CacheInv' /\ NodeInv' /\ NodeReportGrounded'
    BY <2>2, <2>3 DEF ResolveAccountRules, ReadInv, CacheInv, NodeInv, NodeReportGrounded
  <2> QED
    BY <2>4, <2>5, <2>6, <2>7 DEF IInv
<1> QED
    BY <1>1, <1>2

LEMMA BeginInfoIInv ==
    ASSUME IInv,
           \/ \E c \in Requests, a \in Accounts : Begin(c, a)
           \/ \E reached \in BOOLEAN : Info(reached)
    PROVE  IInv'
<1>1. CASE \E c \in Requests, a \in Accounts : Begin(c, a)
  <2> PICK c \in Requests, a \in Accounts : Begin(c, a)
    BY <1>1
  <2>1. TypeOK'
    BY DEF Begin, IInv, TypeOK, Checks, Known, serviceVars, chainVars
  <2>2. HistoryInv' /\ NodeInv' /\ NodeReportGrounded'
    BY DEF Begin, IInv, HistoryInv, NodeInv, NodeReportGrounded, serviceVars, chainVars
  <2>3. /\ \A d \in Checks : pc'[d] \in {"read", "remember"} => pc'[d] = pc[d] /\ account'[d] = account[d]
        /\ account'[Startup] = account[Startup]
    BY Numbers DEF Begin, IInv, TypeOK, Checks
  <2>4. BeforeRules'
    BY <2>3 DEF Begin, IInv, BeforeRules, serviceVars
  <2>5. ReadInv' /\ CacheInv'
    BY <2>3 DEF Begin, IInv, ReadInv, CacheInv, Grounded, serviceVars, chainVars
  <2> QED
    BY <2>1, <2>2, <2>4, <2>5 DEF IInv
<1>2. CASE \E reached \in BOOLEAN : Info(reached)
  <2> PICK reached \in BOOLEAN : Info(reached)
    BY <1>2
  <2>1. NodeReportGrounded' /\ info' \in Known
    BY RulesAddress DEF Info, NodeReportGrounded, IInv, NodeInv, HistoryInv, TypeOK, Known, Permission,
                        chainVars
  <2>2. TypeOK' /\ HistoryInv' /\ NodeInv'
    BY <2>1 DEF Info, IInv, TypeOK, HistoryInv, NodeInv, checkVars, chainVars
  <2>3. BeforeRules' /\ ReadInv' /\ CacheInv'
    BY DEF Info, IInv, BeforeRules, ReadInv, CacheInv, Grounded, checkVars, chainVars
  <2> QED
    BY <2>1, <2>2, <2>3 DEF IInv
<1> QED
    BY <1>1, <1>2

(***************************************************************************)
(* The end of a check: its answer is one of the three, and that of the     *)
(* node's own check is grounded.                                           *)
(***************************************************************************)
LEMMA AnswerIInv ==
    ASSUME IInv, NEW c \in Checks, NEW v \in {"permitted", "refused", "error"}, Answer(c, v),
           phase \in {"node", "serving"},
           c = Startup /\ v # "error" => rules # NoRules /\ v \in said[rules.address],
           UNCHANGED <<conf, rules, info, chainVars>>,
           cache' \in [Accounts -> [permitted : BOOLEAN, left : 0..TTL]],
           \A a \in Accounts : cache'[a].left > 0 =>
                /\ rules # NoRules
                /\ Grounded(rules.address, a, cache'[a].permitted, Window - cache'[a].left)
    PROVE  IInv'
<1>1. TypeOK'
    BY Numbers DEF Answer, checkNodePermitted, IInv, TypeOK, Known, chainVars
<1>2. HistoryInv' /\ NodeReportGrounded'
    BY DEF IInv, HistoryInv, NodeReportGrounded, chainVars
<1>3. NodeInv'
    BY DEF Answer, checkNodePermitted, IInv, NodeInv, chainVars
<1>4. \A d \in Checks : pc'[d] # "idle" =>
        d # c /\ pc'[d] = pc[d] /\ account'[d] = account[d] /\ seen'[d] = seen[d] /\ age'[d] = age[d]
    BY DEF Answer, IInv, TypeOK
<1>5. BeforeRules'
  <2>1. account'[Startup] = Node
    BY Numbers DEF Answer, IInv, TypeOK, BeforeRules
  <2>2. phase' \in {"node", "serving"}
    BY DEF Answer, checkNodePermitted
  <2>3. \A d \in Checks : pc'[d] # "idle" => pc[d] # "idle"
    BY <1>4
  <2>4. pc'[Startup] # "idle" => rules' # NoRules
    BY <2>3, Numbers DEF IInv, BeforeRules
  <2>5. \A d \in Checks : pc'[d] \in {"read", "remember"} => rules' # NoRules
    BY <1>4 DEF IInv, BeforeRules
  <2>6. \A a \in Accounts : cache'[a].left > 0 => rules' # NoRules
    OBVIOUS
  <2> QED
    BY <2>1, <2>2, <2>4, <2>5, <2>6 DEF BeforeRules
<1>6. ReadInv'
    BY <1>4 DEF IInv, ReadInv, Grounded, chainVars
<1>7. CacheInv'
    BY DEF CacheInv, Grounded, chainVars
<1> QED
    BY <1>1, <1>2, <1>3, <1>5, <1>6, <1>7 DEF IInv

LEMMA CheckIInv ==
    ASSUME IInv, NEW c \in Checks, CheckRuns(c)
    PROVE  IInv'
<1>1. phase \in {"node", "serving"}
  <2>1. pc[c] # "idle"
    BY DEF CheckRuns, NoAllowlist, cached, Miss, Read, CallFails, remember
  <2> QED
    BY <2>1 DEF IInv, TypeOK, BeforeRules
<1>2. \A a \in Accounts : cache[a].left > 0 =>
        /\ rules # NoRules
        /\ Grounded(rules.address, a, cache[a].permitted, Window - cache[a].left)
    BY DEF IInv, BeforeRules, CacheInv
<1>3. cache \in [Accounts -> [permitted : BOOLEAN, left : 0..TTL]] /\ account[c] \in Accounts
      /\ (c = Startup => account[c] = Node)
    BY DEF IInv, TypeOK, BeforeRules
<1>4. CASE NoAllowlist(c)
  <2>1. c # Startup
    BY <1>4 DEF NoAllowlist, IInv, BeforeRules
  <2> QED
    BY <1>1, <1>2, <1>3, <1>4, <2>1, AnswerIInv DEF NoAllowlist
<1>5. CASE cached(c)
  <2>1. Permission(cache[account[c]].permitted) \in {"permitted", "refused", "error"}
    BY DEF Permission
  <2>2. c = Startup => rules # NoRules /\ Permission(cache[account[c]].permitted) \in said[rules.address]
    BY <1>2, <1>3, <1>5 DEF cached, Fresh, Grounded
  <2> QED
    BY <1>1, <1>2, <1>3, <1>5, <2>1, <2>2, AnswerIInv DEF cached
<1>6. CASE CallFails(c)
    BY <1>1, <1>2, <1>3, <1>6, AnswerIInv DEF CallFails
<1>7. CASE remember(c)
  <2> DEFINE e == [permitted |-> seen[c], left |-> TTL]
  <2>1. /\ rules # NoRules /\ Grounded(rules.address, account[c], seen[c], age[c])
        /\ seen[c] \in BOOLEAN /\ age[c] \in 0..ReadMax /\ rules.address \in Contracts
    BY <1>7, RulesAddress DEF remember, IInv, TypeOK, BeforeRules, ReadInv
  <2>2. e \in [permitted : BOOLEAN, left : 0..TTL]
    BY <2>1, Numbers
  <2>3. /\ cache' \in [Accounts -> [permitted : BOOLEAN, left : 0..TTL]]
        /\ \A a \in Accounts : cache'[a] = IF a = account[c] THEN e ELSE cache[a]
    BY <1>3, <1>7, <2>2 DEF remember
  <2>4. Window - e.left = ReadMax /\ e.permitted = seen[c]
    BY Numbers DEF Window
  <2>5. Grounded(rules.address, account[c], e.permitted, Window - e.left)
    <3>1. sinceIn[rules.address][account[c]] \in Nat /\ sinceOut[rules.address][account[c]] \in Nat
        BY <1>3, <2>1, Numbers DEF IInv, TypeOK
    <3> QED
        BY <2>1, <2>4, <3>1, Numbers DEF Grounded
  <2>6. \A a \in Accounts : cache'[a].left > 0 =>
            /\ rules # NoRules
            /\ Grounded(rules.address, a, cache'[a].permitted, Window - cache'[a].left)
    <3> HIDE DEF e
    <3> QED
        BY <1>2, <2>1, <2>3, <2>5
  <2>7. Permission(seen[c]) \in {"permitted", "refused", "error"}
    BY DEF Permission
  <2>8. c = Startup => Permission(seen[c]) \in said[rules.address]
    BY <1>3, <2>1 DEF Grounded
  <2> QED
    BY <1>1, <1>7, <2>1, <2>3, <2>6, <2>7, <2>8, AnswerIInv DEF remember
<1>8. CASE Miss(c)
  <2>1. /\ \A d \in Checks : pc'[d] = "remember" => pc[d] = "remember"
        /\ \A d \in Checks : pc'[d] \in {"read", "remember"} => rules # NoRules
    BY <1>8 DEF Miss, IInv, TypeOK, BeforeRules
  <2>2. TypeOK'
    BY <1>8 DEF Miss, IInv, TypeOK, serviceVars, chainVars
  <2>3. HistoryInv' /\ NodeInv' /\ NodeReportGrounded'
    BY <1>8 DEF Miss, IInv, HistoryInv, NodeInv, NodeReportGrounded, serviceVars, chainVars
  <2>4. BeforeRules'
    BY <1>1, <1>8, <2>1 DEF Miss, IInv, BeforeRules, serviceVars
  <2>5. ReadInv' /\ CacheInv'
    BY <1>8, <2>1 DEF Miss, IInv, ReadInv, CacheInv, Grounded, serviceVars, chainVars
  <2> QED
    BY <2>2, <2>3, <2>4, <2>5 DEF IInv
<1>9. CASE Read(c)
  <2>1. rules # NoRules /\ rules.address \in Contracts
    BY <1>9, RulesAddress DEF Read, IInv, TypeOK, BeforeRules
  <2>2. TypeOK'
    BY <1>9 DEF Read, IInv, TypeOK, serviceVars, chainVars
  <2>3. HistoryInv' /\ NodeInv' /\ NodeReportGrounded'
    BY <1>9 DEF Read, IInv, HistoryInv, NodeInv, NodeReportGrounded, serviceVars, chainVars
  <2>4. BeforeRules'
    BY <1>1, <1>9, <2>1 DEF Read, IInv, BeforeRules, serviceVars
  <2>5. CacheInv'
    BY <1>9 DEF Read, IInv, CacheInv, Grounded, serviceVars, chainVars
  <2>6. ReadInv'
    <3> SUFFICES ASSUME NEW d \in Checks, pc'[d] = "remember"
                 PROVE  Grounded(rules.address, account[d], seen'[d], age[d])
        BY <1>9 DEF ReadInv, Grounded, Read, serviceVars, chainVars
    <3>1. CASE d = c
      <4>1. age[c] \in Nat /\ seen'[c] \in BOOLEAN /\ (seen'[c] <=> account[c] \in allow[rules.address])
        <5>1. age[c] \in Nat
            BY Numbers DEF IInv, TypeOK
        <5>2. seen \in [Checks -> BOOLEAN] /\ seen' = [seen EXCEPT ![c] = account[c] \in allow[rules.address]]
            BY <1>9 DEF Read, IInv, TypeOK
        <5>3. seen'[c] = (account[c] \in allow[rules.address])
            BY <5>2
        <5>4. seen'[c] \in BOOLEAN
            BY <2>2 DEF TypeOK
        <5>5. seen'[c] <=> account[c] \in allow[rules.address]
            BY <5>3, Zenon
        <5> QED
            BY <5>1, <5>4, <5>5
      <4>2. /\ account[c] \in allow[rules.address] => sinceIn[rules.address][account[c]] = 0
            /\ account[c] \notin allow[rules.address] => sinceOut[rules.address][account[c]] = 0
            /\ Permission(Node \in allow[rules.address]) \in said[rules.address]
        BY <1>3, <2>1 DEF IInv, HistoryInv
      <4>3. CASE account[c] \in allow[rules.address]
        <5>1. seen'[c]
            BY <4>1, <4>3
        <5> QED
            BY <3>1, <4>1, <4>2, <4>3, <5>1 DEF Grounded, Permission
      <4>4. CASE account[c] \notin allow[rules.address]
        <5>1. ~seen'[c]
            BY <4>1, <4>4
        <5> QED
            BY <3>1, <4>1, <4>2, <4>4, <5>1 DEF Grounded, Permission
      <4> QED
        BY <4>3, <4>4
    <3>2. CASE d # c
      <4>1. pc'[d] = pc[d] /\ seen'[d] = seen[d]
        BY <1>9, <3>2 DEF Read, IInv, TypeOK
      <4> QED
        BY <4>1 DEF IInv, ReadInv, Grounded
    <3> QED
        BY <3>1, <3>2
  <2> QED
    BY <2>2, <2>3, <2>4, <2>5, <2>6 DEF IInv
<1> QED
    BY <1>4, <1>5, <1>6, <1>7, <1>8, <1>9 DEF CheckRuns

(***************************************************************************)
(* The invariant holds in every state.                                     *)
(***************************************************************************)
LEMMA StutterIInv == ASSUME IInv, UNCHANGED vars PROVE IInv'
BY DEF IInv, TypeOK, HistoryInv, BeforeRules, ReadInv, CacheInv, NodeInv, NodeReportGrounded, Grounded,
       vars, serviceVars, checkVars, chainVars

\* What a check has read, and what the cache and GET /info tell, was so on the
\* chain no longer ago than it is old (permissioning.go).
THEOREM InductiveInvariant == Spec => []IInv
<1>1. Init => IInv
    BY InitIInv
<1>2. IInv /\ [Next]_vars => IInv'
  <2> SUFFICES ASSUME IInv, [Next]_vars PROVE IInv'
    OBVIOUS
  <2>1. CASE Tick
    BY <2>1, TickIInv
  <2>2. CASE \E k \in Contracts, a \in Accounts : ChangeList(k, a)
    BY <2>2, ChangeListIInv
  <2>3. CASE \/ \E hubRead \in BOOLEAN : InitService(hubRead)
             \/ \E published \in Contracts \cup {NoContract} : ResolveAccountRules(published)
    BY <2>3, StartIInv
  <2>4. CASE (\E c \in Requests, a \in Accounts : Begin(c, a)) \/ (\E reached \in BOOLEAN : Info(reached))
    BY <2>4, BeginInfoIInv
  <2>5. CASE \E c \in Checks : CheckRuns(c)
    BY <2>5, CheckIInv
  <2>6. CASE Stopped \/ UNCHANGED vars
    BY <2>6, StutterIInv DEF Stopped
  <2> QED
    BY <2>1, <2>2, <2>3, <2>4, <2>5, <2>6 DEF Next
<1> QED
    BY <1>1, <1>2, PTL DEF Spec

(***************************************************************************)
(* The state of the permissioning is always well typed.                    *)
(***************************************************************************)
THEOREM TypeCorrect == Spec => []TypeOK
<1>1. IInv => TypeOK
    BY DEF IInv
<1> QED
    BY <1>1, InductiveInvariant, PTL

(***************************************************************************)
(* What GET /info says of the node (NodePermitted) was said by the         *)
(* resolved contract at some time.                                         *)
(***************************************************************************)
THEOREM NodeReportCorrect == Spec => []NodeReportGrounded
<1>1. IInv => NodeReportGrounded
    BY DEF IInv
<1> QED
    BY <1>1, InductiveInvariant, PTL

(***************************************************************************)
(* What a check answers is grounded in the last Window of the chain.       *)
(***************************************************************************)
LEMMA AnswerGrounded ==
    ASSUME IInv, [Next]_vars, NEW c \in Checks, pc[c] # "idle", pc'[c] = "idle",
           verdict'[c] = "permitted" \/ verdict'[c] = "refused"
    PROVE  \/ ~conf.enabled /\ verdict'[c] = "permitted"
           \/ /\ rules # NoRules
              /\ verdict'[c] = "permitted" => sinceIn[rules.address][account[c]] < Window
              /\ verdict'[c] = "refused" => sinceOut[rules.address][account[c]] < Window
<1>1. CheckRuns(c)
  <2>1. ~UNCHANGED pc
    OBVIOUS
  <2>2. CASE \E k \in Requests, a \in Accounts : Begin(k, a)
    BY <2>2 DEF Begin, IInv, TypeOK, Checks
  <2>3. CASE \E published \in Contracts \cup {NoContract} : ResolveAccountRules(published)
    BY <2>3 DEF ResolveAccountRules, IInv, TypeOK, BeforeRules
  <2>4. CASE \E d \in Checks : CheckRuns(d)
    <3> PICK d \in Checks : CheckRuns(d)
        BY <2>4
    <3>1. d = c
        BY DEF CheckRuns, NoAllowlist, cached, Miss, Read, CallFails, remember, Answer, IInv, TypeOK
    <3> QED
        BY <3>1
  <2> QED
    BY <2>1, <2>2, <2>3, <2>4 DEF Next, Tick, ChangeList, InitService, Info, Stopped, vars, checkVars
<1>2. /\ Window \in Nat /\ TTL \in Nat /\ TTL > 0 /\ ReadMax \in Nat /\ Window = ReadMax + TTL
      /\ account[c] \in Accounts
    BY Numbers DEF IInv, TypeOK
<1>3. rules # NoRules =>
        sinceIn[rules.address][account[c]] \in Nat /\ sinceOut[rules.address][account[c]] \in Nat
    BY <1>2, RulesAddress DEF IInv, TypeOK
<1>4. \A v : Answer(c, v) => verdict'[c] = v
    BY DEF Answer, IInv, TypeOK
<1>5. CASE NoAllowlist(c)
    BY <1>4, <1>5 DEF NoAllowlist
<1>6. CASE cached(c)
  <2>1. /\ rules # NoRules /\ cache[account[c]].left > 0
        /\ verdict'[c] = Permission(cache[account[c]].permitted)
    BY <1>4, <1>6 DEF cached, Fresh
  <2>2. /\ Grounded(rules.address, account[c], cache[account[c]].permitted, Window - cache[account[c]].left)
        /\ cache[account[c]].left \in Nat
    BY <1>2, <2>1 DEF IInv, CacheInv, TypeOK
  <2> QED
    BY <1>2, <1>3, <2>1, <2>2 DEF Grounded, Permission
<1>7. CASE remember(c)
  <2>1. /\ rules # NoRules /\ verdict'[c] = Permission(seen[c])
        /\ Grounded(rules.address, account[c], seen[c], age[c])
        /\ age[c] \in 0..ReadMax
    BY <1>4, <1>7 DEF remember, IInv, TypeOK, BeforeRules, ReadInv
  <2> QED
    BY <1>2, <1>3, <2>1 DEF Grounded, Permission
<1>8. CASE CallFails(c)
    BY <1>4, <1>8 DEF CallFails
<1>9. CASE Miss(c) \/ Read(c)
    BY <1>9 DEF Miss, Read, IInv, TypeOK
<1> QED
    BY <1>1, <1>5, <1>6, <1>7, <1>8, <1>9 DEF CheckRuns

(***************************************************************************)
(* AccountPermitted fails closed, and a permission outlives its revocation *)
(* by less than the slowest reading and the lifetime of the cache.         *)
(***************************************************************************)
THEOREM AcceptedCorrect == Spec => AcceptedWasPermitted
<1>1. IInv /\ [Next]_vars =>
        [\A c \in Checks :
            conf.enabled /\ pc[c] # "idle" /\ pc'[c] = "idle" /\ verdict'[c] = "permitted"
                => /\ rules # NoRules
                   /\ sinceIn[rules.address][account[c]] < Window]_vars
    BY AnswerGrounded
<1> QED
    BY <1>1, InductiveInvariant, PTL DEF Spec, AcceptedWasPermitted

(***************************************************************************)
(* AccountPermitted refuses a sender only if the contract refused it less  *)
(* than that ago.                                                          *)
(***************************************************************************)
THEOREM RefusedCorrect == Spec => RefusedWasRefused
<1>1. IInv /\ [Next]_vars =>
        [\A c \in Checks :
            pc[c] # "idle" /\ pc'[c] = "idle" /\ verdict'[c] = "refused"
                => /\ rules # NoRules
                   /\ sinceOut[rules.address][account[c]] < Window]_vars
    BY AnswerGrounded
<1> QED
    BY <1>1, InductiveInvariant, PTL DEF Spec, RefusedWasRefused
=============================================================================
