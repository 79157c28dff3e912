---------------------------- MODULE NodeServiceProofs ----------------------------
(***************************************************************************)
(* The safety invariants of NodeService, for any number of tasks that end. *)
(*                                                                         *)
(* The argument.  StepsOf is in the right order to begin with: the check   *)
(* of the keystore comes before any step that spawns a task, and starting  *)
(* the network comes last.  ServiceInv says what is left of that while the *)
(* start takes one step after the other: the network is still to be        *)
(* started, or nothing is left to do; a step that was passed has spawned   *)
(* its task, if the configuration asks for it.                             *)
(*                                                                         *)
(* The last part proves what of the two liveness properties is safety: the *)
(* end of a task is not forgotten, and a start has ever less left to do.   *)
(***************************************************************************)
EXTENDS NodeService, Functions, SequenceTheorems, TLAPS

\* All steps of the start.
Parts == Range(LoadSpec) \cup Range(NewPartial) \cup Range(Networking)
             \cup Range(Services) \cup Range(StartNetwork)

\* The steps of a command that works on the database alone.
OfflineSteps == Range(LoadSpec) \cup Range(NewPartial)

\* The steps that spawn a task.
SpawningSteps ==
    { "telemetry_task", "transaction_pool", "import_queue", "network", "offchain",
      "rpc", "aura", "grandpa_voter" }

\* Starting the network is the last of the steps.
NetworkLast(steps) ==
    \A i \in DOMAIN steps : steps[i] = "start_network" => i = Len(steps)

\* Only the chain specification is loaded before the keystore is checked.
KeystoreFirst(steps) ==
    \A i \in DOMAIN steps :
        steps[i] = "chain_spec" \/ \E j \in DOMAIN steps : j <= i /\ steps[j] = "keystore_check"

\* What the start still has to do, and where it is over.
StartInOrder ==
    /\ command \in Commands
    /\ config \in Configuration
    /\ status \in {"starting", "running", "failed", "stopped"}
    /\ todo \in Seq(Parts)
    /\ NetworkLast(todo)
    /\ status # "starting" => todo = <<>>
    /\ network => todo = <<>>

\* A process that is down is off the network, and nothing of it runs on.
DownIsIdle == status \in {"failed", "stopped"} => ~network /\ tasks = {}

OfflineParts ==
    command # "node" =>
        /\ Range(todo) \subseteq OfflineSteps
        /\ tasks \subseteq {"telemetry", "txpool", "block-import"}
        /\ ~network

NothingIsSkipped ==
    command = "node" /\ status \in {"starting", "running"} =>
        \A step \in SpawningSteps :
            Needed(step) => step \in Range(todo) \/ Spawned(step) \subseteq tasks

RefusedInTime ==
    config.keystore_remote =>
        /\ KeystoreFirst(todo)
        /\ tasks = {}
        /\ ~network

ServiceInv ==
    /\ StartInOrder
    /\ DownIsIdle
    /\ OfflineParts
    /\ NothingIsSkipped
    /\ RefusedInTime

--------------------------------------------------------------------------------
\* The order of the steps

\* A concatenation has the elements of both parts.
LEMMA ConcatRange ==
  ASSUME NEW S, NEW s \in Seq(S), NEW t \in Seq(S)
  PROVE  s \o t \in Seq(S) /\ Range(s \o t) = Range(s) \cup Range(t)
<1>1. /\ s \o t \in Seq(S)
      /\ Len(s \o t) = Len(s) + Len(t)
      /\ \A i \in 1 .. Len(s) + Len(t) :
             (s \o t)[i] = IF i <= Len(s) THEN s[i] ELSE t[i - Len(s)]
  BY ConcatProperties
<1>2. /\ Len(s) \in Nat /\ DOMAIN s = 1 .. Len(s)
      /\ Len(t) \in Nat /\ DOMAIN t = 1 .. Len(t)
      /\ DOMAIN (s \o t) = 1 .. Len(s) + Len(t)
  BY <1>1, LenProperties
<1>3. ASSUME NEW i \in DOMAIN (s \o t) PROVE (s \o t)[i] \in Range(s) \cup Range(t)
  <2>1. CASE i <= Len(s)
    <3>1. i \in DOMAIN s /\ (s \o t)[i] = s[i]
      BY <1>1, <1>2, <2>1
    <3> QED
      BY <3>1 DEF Range
  <2>2. CASE ~(i <= Len(s))
    <3>1. i - Len(s) \in DOMAIN t /\ (s \o t)[i] = t[i - Len(s)]
      BY <1>1, <1>2, <2>2
    <3> QED
      BY <3>1 DEF Range
  <2> QED
    BY <2>1, <2>2
<1>4. ASSUME NEW i \in DOMAIN s PROVE s[i] \in Range(s \o t)
  <2>1. i \in DOMAIN (s \o t) /\ (s \o t)[i] = s[i]
    BY <1>1, <1>2
  <2> QED
    BY <2>1 DEF Range
<1>5. ASSUME NEW i \in DOMAIN t PROVE t[i] \in Range(s \o t)
  <2>1. i + Len(s) \in DOMAIN (s \o t) /\ (s \o t)[i + Len(s)] = t[i]
    BY <1>1, <1>2
  <2> QED
    BY <2>1 DEF Range
<1>6. Range(s \o t) \subseteq Range(s) \cup Range(t)
  BY <1>3 DEF Range
<1>7. Range(s) \subseteq Range(s \o t) /\ Range(t) \subseteq Range(s \o t)
  BY <1>4, <1>5 DEF Range
<1> QED
  BY <1>1, <1>6, <1>7

\* Each part of the start as a set of steps.
LEMMA PartsOfStart ==
  /\ LoadSpec \in Seq(Parts) /\ Range(LoadSpec) = {"chain_spec"}
  /\ NewPartial \in Seq(Parts)
  /\ Range(NewPartial) = {"keystore_check", "telemetry_worker", "client", "telemetry_task",
         "transaction_pool", "grandpa_import", "slot_duration", "import_queue"}
  /\ Networking \in Seq(Parts)
  /\ Range(Networking) = {"remote_keystore", "network", "offchain"}
  /\ Services \in Seq(Parts)
  /\ Range(Services) = {"rpc", "aura_slot_duration", "aura", "grandpa_voter"}
  /\ StartNetwork \in Seq(Parts) /\ Range(StartNetwork) = {"start_network"}
<1>1. LoadSpec \in Seq(Range(LoadSpec)) /\ Range(LoadSpec) = {"chain_spec"}
  BY DEF LoadSpec, Range
<1>2. /\ NewPartial \in Seq(Range(NewPartial))
      /\ Range(NewPartial) = {"keystore_check", "telemetry_worker", "client",
             "telemetry_task", "transaction_pool", "grandpa_import", "slot_duration",
             "import_queue"}
  <2>1. NewPartial \in Seq({NewPartial[i] : i \in 1 .. 8}) /\ DOMAIN NewPartial = 1 .. 8
    BY DEF NewPartial
  <2>2. {NewPartial[i] : i \in 1 .. 8} =
            {"keystore_check", "telemetry_worker", "client", "telemetry_task",
             "transaction_pool", "grandpa_import", "slot_duration", "import_queue"}
    BY DEF NewPartial
  <2> QED
    BY <2>1, <2>2 DEF Range
<1>3. /\ Networking \in Seq(Range(Networking))
      /\ Range(Networking) = {"remote_keystore", "network", "offchain"}
  <2>1. Networking \in Seq({Networking[i] : i \in 1 .. 3}) /\ DOMAIN Networking = 1 .. 3
    BY DEF Networking
  <2>2. {Networking[i] : i \in 1 .. 3} = {"remote_keystore", "network", "offchain"}
    BY DEF Networking
  <2> QED
    BY <2>1, <2>2 DEF Range
<1>4. /\ Services \in Seq(Range(Services))
      /\ Range(Services) = {"rpc", "aura_slot_duration", "aura", "grandpa_voter"}
  <2>1. Services \in Seq({Services[i] : i \in 1 .. 4}) /\ DOMAIN Services = 1 .. 4
    BY DEF Services
  <2>2. {Services[i] : i \in 1 .. 4} = {"rpc", "aura_slot_duration", "aura", "grandpa_voter"}
    BY DEF Services
  <2> QED
    BY <2>1, <2>2 DEF Range
<1>5. StartNetwork \in Seq(Range(StartNetwork)) /\ Range(StartNetwork) = {"start_network"}
  BY DEF StartNetwork, Range
<1>6. /\ Range(LoadSpec) \subseteq Parts /\ Range(NewPartial) \subseteq Parts
      /\ Range(Networking) \subseteq Parts /\ Range(Services) \subseteq Parts
      /\ Range(StartNetwork) \subseteq Parts
  BY DEF Parts
<1>7. /\ LoadSpec \in Seq(Parts) /\ NewPartial \in Seq(Parts) /\ Networking \in Seq(Parts)
      /\ Services \in Seq(Parts) /\ StartNetwork \in Seq(Parts)
  BY <1>1, <1>2, <1>3, <1>4, <1>5, <1>6, SeqMonotonic
<1> QED
  BY <1>1, <1>2, <1>3, <1>4, <1>5, <1>7

\* What comes last, and nowhere else.
LEMMA LastStep ==
  ASSUME NEW s \in Seq(Parts), "start_network" \notin Range(s)
  PROVE  NetworkLast(s \o StartNetwork)
<1>1. /\ Len(s) \in Nat /\ DOMAIN s = 1 .. Len(s)
      /\ StartNetwork \in Seq(Parts) /\ Len(StartNetwork) = 1
  BY PartsOfStart, LenProperties DEF StartNetwork
<1>2. /\ s \o StartNetwork \in Seq(Parts)
      /\ Len(s \o StartNetwork) = Len(s) + 1
      /\ \A i \in 1 .. Len(s) + 1 :
             (s \o StartNetwork)[i] = IF i <= Len(s) THEN s[i] ELSE StartNetwork[i - Len(s)]
  BY <1>1, ConcatProperties
<1>3. DOMAIN (s \o StartNetwork) = 1 .. Len(s) + 1
  BY <1>1, <1>2, LenProperties
<1>4. \A i \in 1 .. Len(s) : s[i] # "start_network"
  BY <1>1 DEF Range
<1> QED
  BY <1>1, <1>2, <1>3, <1>4 DEF NetworkLast

\* What begins with the check of the keystore, after the chain specification.
LEMMA KeystoreStep ==
  ASSUME NEW t \in Seq(Parts), t # <<>>, t[1] = "keystore_check"
  PROVE  KeystoreFirst(LoadSpec \o t)
<1>1. Len(t) \in Nat /\ Len(t) # 0 /\ LoadSpec \in Seq(Parts) /\ Len(LoadSpec) = 1
  BY PartsOfStart, LenProperties, EmptySeq DEF LoadSpec
<1>2. /\ LoadSpec \o t \in Seq(Parts)
      /\ Len(LoadSpec \o t) = 1 + Len(t)
      /\ \A i \in 1 .. 1 + Len(t) :
             (LoadSpec \o t)[i] = IF i <= 1 THEN LoadSpec[i] ELSE t[i - 1]
  <2>1. /\ LoadSpec \o t \in Seq(Parts)
        /\ Len(LoadSpec \o t) = Len(LoadSpec) + Len(t)
        /\ \A i \in 1 .. Len(LoadSpec) + Len(t) :
               (LoadSpec \o t)[i] = IF i <= Len(LoadSpec) THEN LoadSpec[i]
                                                        ELSE t[i - Len(LoadSpec)]
    BY <1>1, ConcatProperties
  <2> QED
    BY <1>1, <2>1
<1>3. DOMAIN (LoadSpec \o t) = 1 .. 1 + Len(t)
  BY <1>1, <1>2, LenProperties
<1>4. (LoadSpec \o t)[1] = "chain_spec" /\ (LoadSpec \o t)[2] = "keystore_check"
  BY <1>1, <1>2 DEF LoadSpec
<1>5. ASSUME NEW i \in 1 .. 1 + Len(t)
      PROVE  \/ (LoadSpec \o t)[i] = "chain_spec"
             \/ \E j \in 1 .. 1 + Len(t) : j <= i /\ (LoadSpec \o t)[j] = "keystore_check"
  <2>1. CASE i = 1
    BY <1>4, <2>1
  <2>2. CASE i # 1
    <3>1. 2 \in 1 .. 1 + Len(t) /\ 2 <= i
      BY <1>1, <2>2
    <3> QED
      BY <1>4, <3>1
  <2> QED
    BY <2>1, <2>2
<1> QED
  BY <1>3, <1>5 DEF KeystoreFirst

\* The first step of a concatenation.
LEMMA FirstStep ==
  ASSUME NEW s \in Seq(Parts), s # <<>>, NEW t \in Seq(Parts)
  PROVE  /\ s \o t \in Seq(Parts) /\ s \o t # <<>>
         /\ (s \o t)[1] = s[1]
<1>1. Len(s) \in Nat /\ Len(s) # 0 /\ Len(t) \in Nat
  BY LenProperties, EmptySeq
<1>2. /\ s \o t \in Seq(Parts) /\ Len(s \o t) = Len(s) + Len(t)
      /\ \A i \in 1 .. Len(s) + Len(t) :
             (s \o t)[i] = IF i <= Len(s) THEN s[i] ELSE t[i - Len(s)]
  BY ConcatProperties
<1>3. Len(s \o t) # 0 /\ 1 \in 1 .. Len(s) + Len(t) /\ 1 <= Len(s)
  BY <1>1, <1>2
<1> QED
  BY <1>2, <1>3, EmptySeq

\* The steps of every command are in order.
LEMMA StepsInOrder ==
  ASSUME NEW c \in Commands
  PROVE  /\ StepsOf(c) \in Seq(Parts)
         /\ NetworkLast(StepsOf(c))
         /\ KeystoreFirst(StepsOf(c))
         /\ c # "node" => Range(StepsOf(c)) \subseteq OfflineSteps
         /\ c = "node" => SpawningSteps \subseteq Range(StepsOf(c))
<1>1. CASE c = "key"
  <2>1. StepsOf(c) = <<>>
    BY <1>1 DEF StepsOf
  <2>2. <<>> \in Seq(Parts) /\ DOMAIN <<>> = {}
    BY EmptySeq
  <2>3. \A S : Range(<<>>) \subseteq S
    BY <2>2 DEF Range
  <2> QED
    BY <1>1, <2>1, <2>2, <2>3 DEF NetworkLast, KeystoreFirst
<1>2. CASE c = "tool"
  <2>1. StepsOf(c) = LoadSpec
    BY <1>2 DEF StepsOf
  <2>2. \A i \in DOMAIN LoadSpec : LoadSpec[i] = "chain_spec"
    BY PartsOfStart DEF Range
  <2> QED
    BY <1>2, <2>1, <2>2, PartsOfStart DEF NetworkLast, KeystoreFirst, OfflineSteps
<1>3. CASE c \in {"chain", "benchmark"}
  <2>1. StepsOf(c) = LoadSpec \o NewPartial
    BY <1>3 DEF StepsOf
  <2>2. /\ StepsOf(c) \in Seq(Parts)
        /\ Range(StepsOf(c)) = OfflineSteps
    <3>1. LoadSpec \in Seq(Parts) /\ NewPartial \in Seq(Parts)
      BY PartsOfStart
    <3> QED
      BY <2>1, <3>1, ConcatRange DEF OfflineSteps
  <2>3. "start_network" \notin Range(StepsOf(c))
    BY <2>2, PartsOfStart DEF OfflineSteps
  <2>4. KeystoreFirst(StepsOf(c))
    BY <2>1, PartsOfStart, KeystoreStep DEF NewPartial
  <2> QED
    BY <1>3, <2>2, <2>3, <2>4 DEF NetworkLast, Range
<1>4. CASE c = "node"
  <2> DEFINE whole == NewPartial \o Networking \o Services
  <2>1. StepsOf(c) = LoadSpec \o (whole \o StartNetwork)
    BY <1>4 DEF StepsOf, NewFull
  <2>2. /\ whole \in Seq(Parts) /\ whole # <<>> /\ whole[1] = "keystore_check"
        /\ Range(whole) = Range(NewPartial) \cup Range(Networking) \cup Range(Services)
    <3>1. NewPartial # <<>> /\ NewPartial[1] = "keystore_check"
      BY DEF NewPartial
    <3> DEFINE front == NewPartial \o Networking
    <3>2. /\ front \in Seq(Parts) /\ front # <<>> /\ front[1] = "keystore_check"
          /\ Range(front) = Range(NewPartial) \cup Range(Networking)
      BY <3>1, PartsOfStart, FirstStep, ConcatRange
    <3>3. whole = front \o Services /\ Services \in Seq(Parts)
      BY PartsOfStart
    <3> HIDE DEF front, whole
    <3>4. /\ front \o Services \in Seq(Parts) /\ front \o Services # <<>>
          /\ (front \o Services)[1] = "keystore_check"
          /\ Range(front \o Services) = Range(front) \cup Range(Services)
      BY <3>2, <3>3, FirstStep, ConcatRange
    <3> QED
      BY <3>2, <3>3, <3>4
  <2> HIDE DEF whole
  <2>3. /\ whole \o StartNetwork \in Seq(Parts) /\ whole \o StartNetwork # <<>>
        /\ (whole \o StartNetwork)[1] = "keystore_check"
        /\ Range(whole \o StartNetwork) = Range(whole) \cup Range(StartNetwork)
    BY <2>2, PartsOfStart, FirstStep, ConcatRange
  <2>4. KeystoreFirst(StepsOf(c))
    BY <2>1, <2>3, KeystoreStep
  <2>5. /\ StepsOf(c) \in Seq(Parts)
        /\ Range(StepsOf(c)) = Range(LoadSpec) \cup Range(whole) \cup Range(StartNetwork)
    <3>1. LoadSpec \in Seq(Parts)
      BY PartsOfStart
    <3>2. /\ StepsOf(c) \in Seq(Parts)
          /\ Range(StepsOf(c)) = Range(LoadSpec) \cup Range(whole \o StartNetwork)
      <4> DEFINE rest == whole \o StartNetwork
      <4> HIDE DEF rest
      <4>1. rest \in Seq(Parts)
        BY <2>3 DEF rest
      <4>2. /\ LoadSpec \o rest \in Seq(Parts)
            /\ Range(LoadSpec \o rest) = Range(LoadSpec) \cup Range(rest)
        BY <3>1, <4>1, ConcatRange
      <4> QED
        BY <2>1, <4>2 DEF rest
    <3> QED
      BY <2>3, <3>2
  <2>6. SpawningSteps \subseteq Range(StepsOf(c))
    BY <2>2, <2>5, PartsOfStart DEF SpawningSteps
  <2>7. NetworkLast(StepsOf(c))
    <3>1. StepsOf(c) = (LoadSpec \o whole) \o StartNetwork
      <4>1. LoadSpec \in Seq(Parts) /\ StartNetwork \in Seq(Parts)
        BY PartsOfStart
      <4> QED
        BY <2>1, <2>2, <4>1, ConcatAssociative
    <3>2. LoadSpec \o whole \in Seq(Parts)
          /\ Range(LoadSpec \o whole) = Range(LoadSpec) \cup Range(whole)
      BY <2>2, PartsOfStart, ConcatRange
    <3>3. "start_network" \notin Range(LoadSpec \o whole)
      BY <2>2, <3>2, PartsOfStart
    <3> QED
      BY <3>1, <3>2, <3>3, LastStep
  <2> QED
    BY <1>4, <2>4, <2>5, <2>6, <2>7
<1> QED
  BY <1>1, <1>2, <1>3, <1>4 DEF Commands

--------------------------------------------------------------------------------
\* What is left of the order when a step is taken

LEMMA StepTaken ==
  ASSUME todo \in Seq(Parts), todo # <<>>
  PROVE  /\ Tail(todo) \in Seq(Parts)
         /\ Range(todo) = {Head(todo)} \cup Range(Tail(todo))
         /\ NetworkLast(todo) =>
                /\ NetworkLast(Tail(todo))
                /\ Head(todo) = "start_network" => Tail(todo) = <<>>
         /\ KeystoreFirst(todo) /\ Head(todo) # "keystore_check" =>
                /\ KeystoreFirst(Tail(todo))
                /\ Head(todo) = "chain_spec"
<1>1. /\ Len(todo) \in Nat /\ Len(todo) # 0 /\ DOMAIN todo = 1 .. Len(todo)
      /\ Head(todo) = todo[1]
      /\ Tail(todo) \in Seq(Parts) /\ Len(Tail(todo)) = Len(todo) - 1
      /\ \A i \in 1 .. Len(Tail(todo)) : Tail(todo)[i] = todo[i + 1]
  BY LenProperties, EmptySeq, HeadTailProperties
<1>2. DOMAIN Tail(todo) = 1 .. Len(todo) - 1
  BY <1>1, LenProperties
<1>3. Range(todo) = {Head(todo)} \cup Range(Tail(todo))
  <2>1. ASSUME NEW i \in 1 .. Len(todo)
        PROVE  todo[i] = Head(todo) \/ \E j \in DOMAIN Tail(todo) : Tail(todo)[j] = todo[i]
    <3>1. CASE i = 1
      BY <1>1, <3>1
    <3>2. CASE i # 1
      <4>1. i - 1 \in DOMAIN Tail(todo) /\ Tail(todo)[i - 1] = todo[i]
        BY <1>1, <1>2, <3>2
      <4> QED
        BY <4>1
    <3> QED
      BY <3>1, <3>2
  <2>2. ASSUME NEW j \in 1 .. Len(todo) - 1
        PROVE  \E i \in DOMAIN todo : Tail(todo)[j] = todo[i]
    <3>1. j + 1 \in DOMAIN todo /\ Tail(todo)[j] = todo[j + 1]
      BY <1>1
    <3> QED
      BY <3>1
  <2>3. Head(todo) \in Range(todo)
    BY <1>1 DEF Range
  <2>4. Range(todo) \subseteq {Head(todo)} \cup Range(Tail(todo))
    BY <1>1, <2>1 DEF Range
  <2>5. Range(Tail(todo)) \subseteq Range(todo)
    BY <1>2, <2>2 DEF Range
  <2> QED
    BY <2>3, <2>4, <2>5
<1>4. ASSUME NetworkLast(todo)
      PROVE  /\ NetworkLast(Tail(todo))
             /\ Head(todo) = "start_network" => Tail(todo) = <<>>
  <2>1. NetworkLast(Tail(todo))
    BY <1>1, <1>2, <1>4 DEF NetworkLast
  <2>2. ASSUME Head(todo) = "start_network" PROVE Tail(todo) = <<>>
    <3>1. Len(todo) = 1
      BY <1>1, <1>4, <2>2 DEF NetworkLast
    <3>2. Tail(todo) \in Seq(Parts) /\ Len(Tail(todo)) = 0
      BY <1>1, <3>1
    <3> QED
      BY <3>2, EmptySeq
  <2> QED
    BY <2>1, <2>2
<1>5. ASSUME KeystoreFirst(todo), Head(todo) # "keystore_check"
      PROVE  KeystoreFirst(Tail(todo)) /\ Head(todo) = "chain_spec"
  <2>1. \A i \in 1 .. Len(todo) :
            \/ todo[i] = "chain_spec"
            \/ \E j \in 1 .. Len(todo) : j <= i /\ todo[j] = "keystore_check"
    BY <1>1, <1>5 DEF KeystoreFirst
  <2>2. Head(todo) = "chain_spec"
    BY <1>1, <1>5, <2>1
  <2>3. ASSUME NEW i \in 1 .. Len(todo) - 1, Tail(todo)[i] # "chain_spec"
        PROVE  \E k \in 1 .. Len(todo) - 1 : k <= i /\ Tail(todo)[k] = "keystore_check"
    <3>1. i + 1 \in 1 .. Len(todo) /\ todo[i + 1] # "chain_spec"
      BY <1>1, <2>3
    <3>2. PICK j \in 1 .. Len(todo) : j <= i + 1 /\ todo[j] = "keystore_check"
      BY <2>1, <3>1
    <3>3. j # 1
      BY <1>1, <1>5, <3>2
    <3>4. j - 1 \in 1 .. Len(todo) - 1 /\ j - 1 <= i /\ Tail(todo)[j - 1] = "keystore_check"
      BY <1>1, <3>2, <3>3
    <3> QED
      BY <3>4
  <2>4. KeystoreFirst(Tail(todo))
    BY <1>2, <2>3 DEF KeystoreFirst
  <2> QED
    BY <2>2, <2>4
<1> QED
  BY <1>1, <1>3, <1>4, <1>5

\* Whatever the command, the tasks of the offline steps stay offline.
LEMMA OfflineTasks ==
  ASSUME NEW step \in OfflineSteps
  PROVE  /\ Spawned(step) \subseteq {"telemetry", "txpool", "block-import"}
         /\ step # "start_network"
  BY PartsOfStart DEF OfflineSteps, Spawned

--------------------------------------------------------------------------------
\* ServiceInv is inductive

\* A process that begins has done nothing yet.
Beginning ==
    /\ command \in Commands
    /\ config \in Configuration
    /\ status = "starting"
    /\ todo = StepsOf(command)
    /\ tasks = {}
    /\ network = FALSE

LEMMA BeginningInv == Beginning => ServiceInv
<1> SUFFICES ASSUME Beginning PROVE ServiceInv
  OBVIOUS
<1>1. StartInOrder
  BY StepsInOrder DEF Beginning, StartInOrder
<1>2. DownIsIdle
  BY DEF Beginning, DownIsIdle
<1>3. OfflineParts
  BY StepsInOrder DEF Beginning, OfflineParts
<1>4. NothingIsSkipped
  BY StepsInOrder DEF Beginning, NothingIsSkipped
<1>5. RefusedInTime
  BY StepsInOrder DEF Beginning, RefusedInTime
<1> QED
  BY <1>1, <1>2, <1>3, <1>4, <1>5 DEF ServiceInv

LEMMA BeginningInvNext == Beginning' => ServiceInv'
  BY BeginningInv, PTL

\* A process that is down has nothing left.
LEMMA DownInv ==
  ASSUME ServiceInv, NEW how \in {"failed", "stopped"}, Down(how)
  PROVE  ServiceInv'
<1>1. /\ status' = how /\ todo' = <<>> /\ tasks' = {} /\ ~network'
      /\ UNCHANGED << command, config >>
  BY DEF Down, DropTaskManager
<1>2. <<>> \in Seq(Parts) /\ DOMAIN <<>> = {} /\ Range(<<>>) = {}
  BY EmptySeq DEF Range
<1>3. NetworkLast(todo') /\ KeystoreFirst(todo') /\ Range(todo') = {}
  BY <1>1, <1>2 DEF NetworkLast, KeystoreFirst
<1>4. StartInOrder'
  BY <1>1, <1>2, <1>3 DEF ServiceInv, StartInOrder
<1>5. DownIsIdle' /\ OfflineParts' /\ NothingIsSkipped' /\ RefusedInTime'
  BY <1>1, <1>3 DEF DownIsIdle, OfflineParts, NothingIsSkipped,
                    RefusedInTime
<1> QED
  BY <1>4, <1>5 DEF ServiceInv

LEMMA AdvanceInv ==
  ASSUME ServiceInv, Advance
  PROVE  ServiceInv'
<1>1. /\ status = "starting" /\ todo # <<>> /\ ~Refused(Head(todo))
      /\ todo' = Tail(todo)
      /\ tasks' = IF Needed(Head(todo)) THEN tasks \cup Spawned(Head(todo)) ELSE tasks
      /\ network' = (network \/ Head(todo) = "start_network")
      /\ UNCHANGED << command, config, status >>
  BY DEF Advance
<1>2. todo \in Seq(Parts) /\ NetworkLast(todo) /\ ~network
  BY <1>1 DEF ServiceInv, StartInOrder
<1>3. /\ Tail(todo) \in Seq(Parts) /\ NetworkLast(Tail(todo))
      /\ Range(todo) = {Head(todo)} \cup Range(Tail(todo))
      /\ Head(todo) = "start_network" => Tail(todo) = <<>>
  BY <1>1, <1>2, StepTaken
<1>4. StartInOrder'
  BY <1>1, <1>2, <1>3 DEF ServiceInv, StartInOrder
<1>5. DownIsIdle'
  BY <1>1 DEF DownIsIdle
<1>6. OfflineParts'
  <2> SUFFICES ASSUME command # "node"
               PROVE  /\ Range(todo') \subseteq OfflineSteps
                      /\ tasks' \subseteq {"telemetry", "txpool", "block-import"}
                      /\ ~network'
    BY <1>1 DEF OfflineParts
  <2>1. /\ Range(todo) \subseteq OfflineSteps
        /\ tasks \subseteq {"telemetry", "txpool", "block-import"}
    BY DEF ServiceInv, OfflineParts
  <2>2. Head(todo) \in OfflineSteps
    BY <1>3, <2>1
  <2> QED
    BY <1>1, <1>2, <1>3, <2>1, <2>2, OfflineTasks
<1>7. NothingIsSkipped'
  <2> SUFFICES ASSUME command = "node", NEW step \in SpawningSteps, Needed(step)
               PROVE  step \in Range(todo') \/ Spawned(step) \subseteq tasks'
    BY <1>1 DEF NothingIsSkipped, Needed
  <2>1. step \in Range(todo) \/ Spawned(step) \subseteq tasks
    BY <1>1 DEF ServiceInv, NothingIsSkipped
  <2>2. CASE step = Head(todo)
    BY <1>1, <2>2
  <2>3. CASE step # Head(todo)
    BY <1>1, <1>3, <2>1, <2>3
  <2> QED
    BY <2>2, <2>3
<1>8. RefusedInTime'
  <2> SUFFICES ASSUME config.keystore_remote
               PROVE  KeystoreFirst(todo') /\ tasks' = {} /\ ~network'
    BY <1>1 DEF RefusedInTime
  <2>1. KeystoreFirst(todo) /\ tasks = {}
    BY DEF ServiceInv, RefusedInTime
  <2>2. Head(todo) # "keystore_check"
    BY <1>1 DEF Refused
  <2>3. KeystoreFirst(Tail(todo)) /\ Head(todo) = "chain_spec"
    BY <1>1, <1>2, <2>1, <2>2, StepTaken
  <2>4. Spawned("chain_spec") = {}
    BY DEF Spawned
  <2> QED
    BY <1>1, <1>2, <2>1, <2>3, <2>4
<1> QED
  BY <1>4, <1>5, <1>6, <1>7, <1>8 DEF ServiceInv

LEMMA StartedInv ==
  ASSUME ServiceInv, Started
  PROVE  ServiceInv'
<1>1. /\ status = "starting" /\ todo = <<>> /\ status' = "running"
      /\ tasks' = IF command = "benchmark" THEN {} ELSE tasks
      /\ UNCHANGED << command, config, todo, network >>
  BY DEF Started, DropTaskManager
<1>2. StartInOrder'
  BY <1>1 DEF ServiceInv, StartInOrder
<1>3. DownIsIdle'
  BY <1>1 DEF DownIsIdle
<1>4. OfflineParts' /\ RefusedInTime'
  BY <1>1 DEF ServiceInv, OfflineParts, RefusedInTime
<1>5. NothingIsSkipped'
  BY <1>1 DEF ServiceInv, NothingIsSkipped, Needed
<1> QED
  BY <1>2, <1>3, <1>4, <1>5 DEF ServiceInv

\* The end of a task is nothing that ServiceInv looks at.
LEMMA UntouchedInv ==
  ASSUME ServiceInv, UNCHANGED << command, config, status, todo, tasks, network >>
  PROVE  ServiceInv'
  BY DEF ServiceInv, StartInOrder, DownIsIdle, OfflineParts,
         NothingIsSkipped, Needed, RefusedInTime

LEMMA NextService ==
  ASSUME ServiceInv, [Next]_vars
  PROVE  ServiceInv'
<1>1. CASE FailToStart \/ EssentialTaskFailed \/ CommandFinishes \/ Interrupt
  BY <1>1, DownInv DEF FailToStart, EssentialTaskFailed, CommandFinishes, Interrupt
<1>2. ASSUME NEW task \in tasks, TaskEnds(task) PROVE ServiceInv'
  BY <1>2, UntouchedInv DEF TaskEnds
<1>3. CASE Restart
  <2>1. Beginning'
    BY <1>3 DEF Restart, Begin, Beginning
  <2> QED
    BY <2>1, BeginningInvNext
<1>4. CASE UNCHANGED vars
  BY <1>4, UntouchedInv DEF vars
<1> QED
  BY <1>1, <1>2, <1>3, <1>4, AdvanceInv, StartedInv DEF Next

\* The order of the start survives its failures, its interruption and restarts with
\* other arguments, however many tasks end in between.
THEOREM ServiceInvariant == Spec => []ServiceInv
<1>1. Init => ServiceInv
  BY BeginningInv DEF Init, Beginning
<1>2. ServiceInv /\ [Next]_vars => ServiceInv'
  BY NextService
<1> QED
  BY <1>1, <1>2, PTL DEF Spec

--------------------------------------------------------------------------------
\* What it gives

\* The network is started last (service.rs:338): the tasks the configuration asks
\* for have all been spawned by then.
THEOREM NetworkJoinedWhole == Spec => []JoinsTheNetworkWhole
<1>1. ServiceInv => JoinsTheNetworkWhole
  <2> SUFFICES ASSUME ServiceInv, network PROVE JoinsTheNetworkWhole
    BY DEF JoinsTheNetworkWhole
  <2>1. command = "node" /\ todo = <<>> /\ status \in {"starting", "running"}
    BY DEF ServiceInv, StartInOrder, DownIsIdle, OfflineParts
  <2>2. Range(todo) = {}
    BY <2>1 DEF Range
  <2>3. \A step \in SpawningSteps : Needed(step) => Spawned(step) \subseteq tasks
    BY <2>1, <2>2 DEF ServiceInv, NothingIsSkipped
  <2>4. /\ Needed("transaction_pool") /\ Needed("import_queue")
        /\ Needed("network") /\ Needed("rpc")
        /\ config.authority => Needed("aura")
        /\ config.enable_grandpa => Needed("grandpa_voter")
        /\ config.telemetry => Needed("telemetry_task")
        /\ config.offchain_worker => Needed("offchain")
    BY DEF Needed
  <2>5. /\ Spawned("transaction_pool") = {"txpool"} /\ Spawned("import_queue") = {"block-import"}
        /\ Spawned("network") = {"network-worker"} /\ Spawned("rpc") = {"rpc"}
        /\ Spawned("aura") = {"aura"} /\ Spawned("grandpa_voter") = {"grandpa-voter"}
        /\ Spawned("telemetry_task") = {"telemetry"}
        /\ Spawned("offchain") = {"offchain-notifications"}
    BY DEF Spawned
  <2> QED
    BY <2>3, <2>4, <2>5 DEF JoinsTheNetworkWhole, SpawningSteps
<1> QED
  BY <1>1, ServiceInvariant, PTL

\* Only the node talks to the network, authors and votes, whatever its role is.
THEOREM DatabaseCommandsStayOffline == Spec => []CommandsStayOffline
<1>1. ServiceInv => CommandsStayOffline
  BY DEF ServiceInv, OfflineParts, CommandsStayOffline
<1> QED
  BY <1>1, ServiceInvariant, PTL

\* new_partial refuses a remote keystore (service.rs:61-63) before it spawns anything.
THEOREM KeystoreRefusedFirst == Spec => []RemoteKeystoreIsRefusedFirst
<1>1. ServiceInv => RemoteKeystoreIsRefusedFirst
  BY DEF ServiceInv, RefusedInTime, RemoteKeystoreIsRefusedFirst
<1> QED
  BY <1>1, ServiceInvariant, PTL

--------------------------------------------------------------------------------
\* A task of consensus that ends, and the end of the start

TaskNames ==
    { "telemetry", "txpool", "block-import", "network-worker",
      "offchain-notifications", "rpc", "aura", "grandpa-voter" }

\* A task has to be spawned before it can end, and the manager drops both together.
EndedWereSpawned == ended \subseteq tasks /\ tasks \subseteq TaskNames

LEMMA EndedInvariant == Spec => []EndedWereSpawned
<1>1. Init => EndedWereSpawned
  BY DEF Init, EndedWereSpawned
<1>2. EndedWereSpawned /\ [Next]_vars => EndedWereSpawned'
  <2> SUFFICES ASSUME EndedWereSpawned, [Next]_vars PROVE EndedWereSpawned'
    OBVIOUS
  <2>1. CASE Advance
    <3>1. Spawned(Head(todo)) \subseteq TaskNames
      BY DEF Spawned, TaskNames
    <3> QED
      BY <2>1, <3>1 DEF Advance, EndedWereSpawned
  <2>2. CASE FailToStart \/ EssentialTaskFailed \/ CommandFinishes \/ Interrupt
    BY <2>2 DEF FailToStart, EssentialTaskFailed, CommandFinishes, Interrupt, Down,
                DropTaskManager, EndedWereSpawned
  <2>3. CASE Started
    BY <2>3 DEF Started, DropTaskManager, EndedWereSpawned
  <2>4. ASSUME NEW task \in tasks, TaskEnds(task) PROVE EndedWereSpawned'
    BY <2>4 DEF TaskEnds, EndedWereSpawned
  <2>5. CASE Restart
    BY <2>5 DEF Restart, Begin, EndedWereSpawned
  <2>6. CASE UNCHANGED vars
    BY <2>6 DEF vars, EndedWereSpawned
  <2> QED
    BY <2>1, <2>2, <2>3, <2>4, <2>5, <2>6 DEF Next
<1> QED
  BY <1>1, <1>2, PTL DEF Spec

ConsensusFailed == ended \cap {"aura", "grandpa-voter"} # {}

\* The future that run_node_until_exit waits for is there to see the failure: only
\* a node has tasks of consensus, and it is starting or running.
FailureIsSeen ==
    ConsensusFailed => command = "node" /\ status \in {"starting", "running"}

\* The task manager keeps the failure, also before anybody waits for it.
FailureIsKept == ConsensusFailed => ConsensusFailed' \/ status' \in {"failed", "stopped"}

\* The safety half of ConsensusFailureStopsTheNode: nothing but the end of the
\* service undoes a failure of authoring or voting, and until then the guard of
\* EssentialTaskFailed waits for the start to be over, and for nothing else.
THEOREM FailureIsNotForgotten == Spec => []FailureIsSeen /\ [][FailureIsKept]_vars
<1>1. ServiceInv /\ EndedWereSpawned => FailureIsSeen
  <2> SUFFICES ASSUME ServiceInv, EndedWereSpawned, ConsensusFailed
               PROVE  command = "node" /\ status \in {"starting", "running"}
    BY DEF FailureIsSeen
  <2>1. tasks \cap {"aura", "grandpa-voter"} # {}
    BY DEF ConsensusFailed, EndedWereSpawned
  <2>2. command = "node"
    BY <2>1 DEF ServiceInv, OfflineParts
  <2>3. status \in {"starting", "running"}
    BY <2>1 DEF ServiceInv, StartInOrder, DownIsIdle
  <2> QED
    BY <2>2, <2>3
<1>2. ServiceInv /\ EndedWereSpawned /\ [Next]_vars => [FailureIsKept]_vars
  <2> SUFFICES ASSUME ServiceInv, EndedWereSpawned, [Next]_vars, ConsensusFailed,
                      status' \notin {"failed", "stopped"}
               PROVE  ConsensusFailed'
    BY DEF FailureIsKept
  <2>1. command = "node" /\ status \in {"starting", "running"}
    BY <1>1 DEF FailureIsSeen
  <2>2. ended \subseteq ended'
    BY <2>1 DEF Next, Advance, FailToStart, Started, TaskEnds, EssentialTaskFailed,
                CommandFinishes, Interrupt, Restart, Down, vars
  <2> QED
    BY <2>2 DEF ConsensusFailed
<1> QED
  BY <1>1, <1>2, ServiceInvariant, EndedInvariant, PTL DEF Spec

\* A start that goes on has one step less to take, unless a task has ended that had
\* not ended before.
StartShortens ==
    status = "starting" /\ status' = "starting" =>
        \/ Len(todo') < Len(todo)
        \/ todo' = todo /\ ended \subseteq ended' /\ ended' # ended

\* The safety half of StartEnds: todo is finite, TaskNames has eight members, and no
\* start begins again before it is over.
THEOREM StartGetsShorter == Spec => [][StartShortens]_vars
<1>1. ServiceInv /\ [Next]_vars => [StartShortens]_vars
  <2> SUFFICES ASSUME ServiceInv, Next, status = "starting", status' = "starting"
               PROVE  \/ Len(todo') < Len(todo)
                      \/ todo' = todo /\ ended \subseteq ended' /\ ended' # ended
    BY DEF StartShortens
  <2>1. CASE Advance
    <3>1. todo \in Seq(Parts) /\ todo # <<>> /\ todo' = Tail(todo)
      BY <2>1 DEF Advance, ServiceInv, StartInOrder
    <3>2. Len(todo) \in Nat /\ Len(todo) # 0
      BY <3>1, EmptySeq, LenProperties
    <3>3. Len(Tail(todo)) = Len(todo) - 1
      BY <3>1, HeadTailProperties
    <3>4. Len(todo') = Len(todo) - 1
      BY <3>1, <3>3, Zenon
    <3> QED
      BY <3>2, <3>4
  <2>2. CASE \E task \in tasks : TaskEnds(task)
    BY <2>2 DEF TaskEnds
  <2> QED
    BY <2>1, <2>2 DEF Next, FailToStart, Started, EssentialTaskFailed, CommandFinishes,
                      Interrupt, Restart, Down
<1> QED
  BY <1>1, ServiceInvariant, PTL DEF Spec

================================================================================
