--------------------------- MODULE StartupConfig ----------------------------
(***************************************************************************)
(* Proofs about the configuration, for files of any length: an instance    *)
(* goes beyond config_init exactly when the last assignments of the file   *)
(* and the defaults are usable, and then with these values.                *)
(*                                                                         *)
(* The parser is a loop over the lines.  What it has after n lines is      *)
(* shown by taking the least n for which it would be wrong.                *)
(***************************************************************************)
EXTENDS StartupCalls, WellFoundedInduction

(* A set of numbers that is not empty has a least one. *)
LEMMA LeastNumber ==
  ASSUME NEW T \in SUBSET Nat, T # {}
  PROVE  \E x \in T : \A y \in T : x <= y
<1>1. IsWellFoundedOn(OpToRel(<, Nat), Nat)
  BY NatLessThanWellFounded
<1>2. PICK x \in T : \A y \in T : ~(<<y, x>> \in OpToRel(<, Nat))
  BY <1>1, WFMin
<1>3. \A y \in T : ~(y < x)
  BY <1>2 DEF OpToRel
<1> QED BY <1>3

-----------------------------------------------------------------------------
(* The rounds of the parser *)

(* after holds what the parser has after each of the first k lines. *)
IsParse(after, k, lines) ==
  after = [n \in 0..k |-> IF n = 0 THEN [ok |-> TRUE, config |-> EmptyConfig]
                          ELSE AfterLine(after[n - 1], lines[n])]

(* The recursion of config_parse_file has a solution. *)
LEMMA ParseExists ==
  ASSUME NEW lines, NEW k \in Nat
  PROVE  \E after : IsParse(after, k, lines)
<1> DEFINE Bad == {n \in Nat : ~ \E after : IsParse(after, n, lines)}
<1>1. SUFFICES ASSUME Bad # {}  PROVE FALSE
  OBVIOUS
<1>2. PICK n \in Bad : \A m \in Bad : n <= m
  BY <1>1, LeastNumber
<1>3. CASE n = 0
  <2>1. IsParse([m \in 0..0 |-> [ok |-> TRUE, config |-> EmptyConfig]], 0, lines)
    BY DEF IsParse
  <2> QED BY <1>3, <2>1
<1>4. CASE n # 0
  <2>1. n - 1 \in Nat /\ n - 1 \notin Bad
    BY <1>2, <1>4
  <2>2. PICK before : IsParse(before, n - 1, lines)
    BY <2>1
  <2> DEFINE after == [m \in 0..n |-> IF m = n THEN AfterLine(before[n - 1], lines[n])
                                      ELSE before[m]]
  <2>3. ASSUME NEW m \in 0..n
        PROVE  after[m] = IF m = 0 THEN [ok |-> TRUE, config |-> EmptyConfig]
                          ELSE AfterLine(after[m - 1], lines[m])
    <3>1. CASE m = n
      <4>1. after[n - 1] = before[n - 1]
        BY <2>1, <1>2
      <4> QED BY <1>4, <3>1, <4>1
    <3>2. CASE m # n
      <4>1. m \in 0..(n - 1) /\ (m # 0 => m - 1 \in 0..n /\ m - 1 # n)
        BY <2>1, <3>2
      <4>2. after[m] = before[m] /\ (m # 0 => after[m - 1] = before[m - 1])
        BY <4>1, <3>2
      <4>3. before[m] = IF m = 0 THEN [ok |-> TRUE, config |-> EmptyConfig]
                        ELSE AfterLine(before[m - 1], lines[m])
        BY <2>2, <4>1 DEF IsParse
      <4> QED BY <4>2, <4>3
    <3> QED BY <3>1, <3>2
  <2>4. IsParse(after, n, lines)
    BY <2>3 DEF IsParse
  <2> QED BY <2>4
<1> QED BY <1>3, <1>4

(* config_parse_file returns what the parser has after the last line. *)
LEMMA ParseSteps ==
  ASSUME NEW lines, lines \in Seq(Range(lines))
  PROVE  \E after : /\ config_parse_file(lines) = after[Len(lines)]
                    /\ after[0] = [ok |-> TRUE, config |-> EmptyConfig]
                    /\ \A n \in DOMAIN lines : after[n] = AfterLine(after[n - 1], lines[n])
<1> DEFINE solution == CHOOSE after : IsParse(after, Len(lines), lines)
<1>1. config_parse_file(lines) = solution[Len(lines)]
  BY DEF config_parse_file, IsParse
<1>2. IsParse(solution, Len(lines), lines)
  BY ParseExists
<1> HIDE DEF solution
<1>3. \A n \in 0..Len(lines) :
        solution[n] = IF n = 0 THEN [ok |-> TRUE, config |-> EmptyConfig]
                      ELSE AfterLine(solution[n - 1], lines[n])
  BY <1>2 DEF IsParse
<1>4. DOMAIN lines = 1..Len(lines) /\ Len(lines) \in Nat
  OBVIOUS
<1>5. solution[0] = [ok |-> TRUE, config |-> EmptyConfig]
  <2>1. 0 \in 0..Len(lines)
    BY <1>4
  <2> QED BY <1>3, <2>1
<1>6. ASSUME NEW n \in DOMAIN lines
      PROVE  solution[n] = AfterLine(solution[n - 1], lines[n])
  <2>1. n \in 0..Len(lines) /\ n # 0
    BY <1>4
  <2> QED BY <1>3, <2>1
<1> QED BY <1>1, <1>5, <1>6

-----------------------------------------------------------------------------
(* What the parser has after n lines *)

Keys == {"picker_cmd", "default_dir", "loglevel"}

(* A log level that does not exist is assigned in the first n lines. *)
BadLevel(n) == \E m \in Assignments("loglevel") : m <= n /\ file[m].value \notin LogLevels

(* The last of the assignments to key in the first n lines is in force. *)
LastInForce(conf, n, key) ==
  \/ /\ \A m \in Assignments(key) : ~(m <= n)
     /\ conf[key] = EmptyConfig[key]
  \/ \E m \in Assignments(key) :
       /\ m <= n
       /\ \A l \in Assignments(key) : l <= n => l <= m
       /\ conf[key] = file[m].value

IsConfig(conf) == DOMAIN conf = Keys /\ conf = [key \in Keys |-> conf[key]]

Parsed(parse, n) ==
  /\ parse = [ok |-> parse.ok, config |-> parse.config]
  /\ parse.ok = ~BadLevel(n)
  /\ parse.ok => /\ IsConfig(parse.config)
                 /\ \A key \in Keys : LastInForce(parse.config, n, key)

(* Only the line of an assignment is not skipped, for the known keys. *)
LEMMA AssignsUnlessSkipped ==
  ASSUME NEW n \in DOMAIN file, NEW key \in Keys
  PROVE  n \in Assignments(key) <=> ~Skipped(file[n]) /\ file[n].key = key
BY ConfigAssumption DEF Assignments, Assigns, Skipped, Keys

(* One round of the parser. *)
LEMMA LineParsed ==
  ASSUME file \in Seq(Range(file)), NEW n \in DOMAIN file, NEW parse, Parsed(parse, n - 1)
  PROVE  Parsed(AfterLine(parse, file[n]), n)
<1> DEFINE line == file[n]
           next == AfterLine(parse, line)
<1>1. /\ n \in Nat /\ n >= 1
      /\ \A key : \A m \in Assignments(key) : m \in Nat /\ (m <= n <=> m <= n - 1 \/ m = n)
  <2>1. DOMAIN file = 1..Len(file) /\ Len(file) \in Nat
    OBVIOUS
  <2> QED BY <2>1 DEF Assignments
<1>2. \A key \in Keys : n \in Assignments(key) <=> ~Skipped(line) /\ line.key = key
  BY AssignsUnlessSkipped
<1>3. BadLevel(n) <=> BadLevel(n - 1) \/ Aborts(line)
  BY <1>1, <1>2 DEF BadLevel, Aborts, Keys
<1>4. CASE ~parse.ok
  BY <1>1, <1>3, <1>4 DEF Parsed, AfterLine
<1>5. CASE parse.ok /\ Aborts(line)
  BY <1>1, <1>3, <1>5 DEF Parsed, AfterLine
<1>6. CASE parse.ok /\ ~Aborts(line)
  <2> DEFINE conf == Assigned(parse.config, line)
  <2>1. next = [ok |-> TRUE, config |-> conf]
    BY <1>3, <1>6 DEF Parsed, AfterLine
  <2>2. IsConfig(parse.config) /\ \A key \in Keys : LastInForce(parse.config, n - 1, key)
    BY <1>6 DEF Parsed
  <2>3. IsConfig(conf)
    BY <2>2 DEF Assigned, IsConfig
  <2>4. ASSUME NEW key \in Keys  PROVE LastInForce(conf, n, key)
    <3>1. CASE n \in Assignments(key)
      <4>1. conf[key] = line.value
        BY <1>2, <2>2, <3>1 DEF Assigned, IsConfig
      <4> QED BY <1>1, <3>1, <4>1 DEF LastInForce
    <3>2. CASE n \notin Assignments(key)
      <4>1. conf[key] = parse.config[key]
        BY <1>2, <2>2, <3>2 DEF Assigned, IsConfig
      <4> QED BY <1>1, <2>2, <3>2, <4>1 DEF LastInForce
    <3> QED BY <3>1, <3>2
  <2>5. ~BadLevel(n)
    BY <1>3, <1>6 DEF Parsed
  <2> HIDE DEF conf, next
  <2>6. next = [ok |-> next.ok, config |-> next.config] /\ next.ok = TRUE /\ next.config = conf
    BY <2>1
  <2>7. Parsed(next, n)
    BY <2>3, <2>4, <2>5, <2>6 DEF Parsed
  <2> QED BY <2>7 DEF next
<1> QED BY <1>4, <1>5, <1>6

(* The whole file has been parsed when config_parse_file returns. *)
LEMMA FileParsed ==
  ASSUME file \in Seq(Range(file))
  PROVE  Parsed(config_parse_file(file), Len(file))
<1>1. PICK after : /\ config_parse_file(file) = after[Len(file)]
                   /\ after[0] = [ok |-> TRUE, config |-> EmptyConfig]
                   /\ \A n \in DOMAIN file : after[n] = AfterLine(after[n - 1], file[n])
  BY ParseSteps
<1>2. DOMAIN file = 1..Len(file) /\ Len(file) \in Nat
  OBVIOUS
<1> DEFINE Bad == {n \in 0..Len(file) : ~Parsed(after[n], n)}
<1>3. SUFFICES ASSUME Bad # {}  PROVE FALSE
  BY <1>1, <1>2
<1>4. PICK n \in Bad : \A m \in Bad : n <= m
  <2>1. Bad \in SUBSET Nat
    BY <1>2
  <2> HIDE DEF Bad
  <2> QED BY <1>3, <2>1, LeastNumber
<1>5. CASE n = 0
  <2>1. \A key : \A m \in Assignments(key) : ~(m <= 0)
    BY <1>2 DEF Assignments
  <2>2. IsConfig(EmptyConfig)
    BY DEF IsConfig, EmptyConfig, Keys
  <2>3. ~BadLevel(0) /\ \A key \in Keys : LastInForce(EmptyConfig, 0, key)
    BY <2>1 DEF BadLevel, LastInForce
  <2>4. Parsed([ok |-> TRUE, config |-> EmptyConfig], 0)
    BY <2>2, <2>3 DEF Parsed
  <2> QED BY <1>1, <1>4, <1>5, <2>4
<1>6. CASE n # 0
  <2>1. n \in DOMAIN file /\ n - 1 \in 0..Len(file) /\ ~(n <= n - 1)
    BY <1>2, <1>4, <1>6
  <2>2. Parsed(after[n - 1], n - 1)
    BY <1>4, <2>1
  <2>3. Parsed(AfterLine(after[n - 1], file[n]), n)
    BY <2>1, <2>2, LineParsed
  <2> QED BY <1>1, <1>4, <2>1, <2>3
<1> QED BY <1>5, <1>6

-----------------------------------------------------------------------------
(* What config_init arrives at *)

(* After the whole file, the assignment in force is the one LastOr names. *)
LEMMA InForceIsLast ==
  ASSUME file \in Seq(Range(file)), NEW conf, NEW key \in Keys, NEW default,
         LastInForce(conf, Len(file), key)
  PROVE  /\ Assignments(key) = {} => conf[key] = EmptyConfig[key] /\ LastOr(key, default) = default
         /\ Assignments(key) # {} => conf[key] # None /\ LastOr(key, default) = conf[key]
<1>1. \A m \in Assignments(key) : m \in Nat /\ m <= Len(file) /\ file[m].value # None
  BY DEF Assignments, Assigns
<1>2. CASE Assignments(key) = {}
  BY <1>2 DEF LastInForce, LastOr
<1>3. CASE Assignments(key) # {}
  <2>1. PICK m \in Assignments(key) :
          (\A l \in Assignments(key) : l <= m) /\ conf[key] = file[m].value
    BY <1>1, <1>3 DEF LastInForce
  <2> DEFINE last == CHOOSE n \in Assignments(key) : \A l \in Assignments(key) : l <= n
  <2>2. last \in Assignments(key) /\ \A l \in Assignments(key) : l <= last
    BY <2>1
  <2>3. LastOr(key, default) = file[last].value
    BY <1>3 DEF LastOr
  <2> HIDE DEF last
  <2>4. last = m
    BY <1>1, <2>1, <2>2
  <2> QED BY <1>1, <1>3, <2>1, <2>3, <2>4
<1> QED BY <1>2, <1>3

(* A file is accepted exactly when it is usable, with the values expected. *)
LEMMA AcceptedIfUsable ==
  ASSUME file \in Seq(Range(file))
  PROVE  /\ ConfigAccepted(file) <=> Usable
         /\ ConfigAccepted(file) => ConfigOf(file) = ExpectedConfig
<1> DEFINE parse == config_parse_file(file)
           conf == parse.config
<1>1. Parsed(parse, Len(file))
  BY FileParsed
<1>2. BadLevel(Len(file)) <=> \E m \in Assignments("loglevel") : file[m].value \notin LogLevels
  BY DEF BadLevel, Assignments
<1>3. CASE BadLevel(Len(file))
  BY <1>1, <1>2, <1>3 DEF Parsed, ConfigAccepted, Usable
<1>4. CASE ~BadLevel(Len(file))
  <2>1. parse.ok /\ IsConfig(conf) /\ \A key \in Keys : LastInForce(conf, Len(file), key)
    BY <1>1, <1>4 DEF Parsed
  <2>2. /\ EmptyConfig["picker_cmd"] = None /\ EmptyConfig["default_dir"] = None
        /\ EmptyConfig["loglevel"] = "quiet"
    BY DEF EmptyConfig
  <2> HIDE DEF parse
  <2>3. conf["picker_cmd"] = ExpectedConfig.picker_cmd
    BY <2>1, <2>2, InForceIsLast DEF ExpectedConfig, Keys
  <2>4. conf["loglevel"] = ExpectedConfig.loglevel
    BY <2>1, <2>2, InForceIsLast DEF ExpectedConfig, Keys
  <2>5. (IF conf["default_dir"] # None THEN conf["default_dir"]
         ELSE IF Home # None THEN Home ELSE "/tmp") = ExpectedConfig.default_dir
    BY <2>1, <2>2, InForceIsLast DEF ExpectedConfig, Keys
  <2>6. config_fill_missing_values(conf) = ExpectedConfig
    <3> DEFINE filled == config_fill_missing_values(conf)
    <3>1. /\ DOMAIN filled = Keys /\ filled = [key \in Keys |-> filled[key]]
          /\ filled["picker_cmd"] = conf["picker_cmd"] /\ filled["loglevel"] = conf["loglevel"]
          /\ filled["default_dir"] = IF conf["default_dir"] # None THEN conf["default_dir"]
                                     ELSE IF Home # None THEN Home ELSE "/tmp"
      BY <2>1 DEF IsConfig, Keys, config_fill_missing_values
    <3>2. DOMAIN ExpectedConfig = Keys /\ ExpectedConfig = [key \in Keys |-> ExpectedConfig[key]]
      BY DEF ExpectedConfig, Keys
    <3> QED BY <2>3, <2>4, <2>5, <3>1, <3>2 DEF Keys
  <2>7. ConfigOf(file) = ExpectedConfig
    BY <2>6 DEF ConfigOf, parse
  <2>8. Usable <=> config_verify(ExpectedConfig)
    BY <1>2, <1>4 DEF Usable, config_verify
  <2> QED BY <2>1, <2>7, <2>8 DEF ConfigAccepted, parse
<1> QED BY <1>3, <1>4

-----------------------------------------------------------------------------
(* The theorems *)

(* The file and what an instance has made of it stay. *)
THEOREM ConfigInvariance == Spec => []ConfigInv
<1>1. Init => ConfigInv
  BY DEF Init, ConfigInv
<1>2. TypeOK /\ ConfigInv /\ [Next]_vars => ConfigInv'
  <2> SUFFICES ASSUME TypeOK, ConfigInv, [Next]_vars  PROVE ConfigInv'
    OBVIOUS
  <2>1. stage \in [Instances -> Stages] /\ file' = file
    BY DEF TypeOK, Next, vars
  <2>2. ASSUME NEW i \in Instances, config_init(i)  PROVE ConfigInv'
    BY <2>1, <2>2 DEF ConfigInv, config_init, Enters
  <2>3. CASE /\ UNCHANGED config
             /\ \/ UNCHANGED stage
                \/ \E i \in Instances : \E next \in Stages \ {"new"} :
                     stage[i] # "new" /\ Enters(i, next)
    BY <2>1, <2>3 DEF ConfigInv, Enters
  <2> QED BY <2>2, <2>3
          DEF Next, vars, Idle, Proceed, StartFails, Terminate, Starting, Leaves, Stages,
              busVars, callVars, sd_bus_request_name, NameGranted, NameRefused,
              sd_bus_add_match, pollen_loop_run, dbus_event_handler, MethodCall,
              handle_name_lost, OtherSignal, Exit, ClientCall, ActivationFails
<1>3. NameInv => TypeOK
  BY DEF NameInv
<1> QED BY <1>1, <1>2, <1>3, NameInvariance, PTL DEF Spec

(* What the run checks as one invariant. *)
THEOREM StartupInvariance == Spec => []StartupInv
<1>1. ConfigInv /\ NameInv /\ CallsInv => StartupInv
  BY DEF StartupInv
<1> QED BY <1>1, ConfigInvariance, CallsInvariance, PTL

(* An instance goes beyond config_init exactly when the last assignments   *)
(* of the file and the defaults are usable, and then with these values.    *)
THEOREM ConfigLastAssigned == Spec => []ConfigIsLastAssignment
<1>1. ConfigInv => ConfigIsLastAssignment
  <2> SUFFICES ASSUME ConfigInv, NEW i \in Instances
               PROVE  /\ config[i] # None => Usable /\ config[i] = ExpectedConfig
                      /\ stage[i] = "gone" /\ config[i] = None => ~Usable
    BY DEF ConfigIsLastAssignment
  <2>1. file \in Seq(Range(file)) /\ ConfigOf(file) # None
    BY StartupAssumption DEF ConfigInv
  <2>2. config[i] = IF stage[i] # "new" /\ ConfigAccepted(file) THEN ConfigOf(file) ELSE None
    BY DEF ConfigInv
  <2>3. /\ ConfigAccepted(file) <=> Usable
        /\ ConfigAccepted(file) => ConfigOf(file) = ExpectedConfig
    BY <2>1, AcceptedIfUsable
  <2> QED BY <2>1, <2>2, <2>3
<1> QED BY <1>1, ConfigInvariance, PTL
=============================================================================
