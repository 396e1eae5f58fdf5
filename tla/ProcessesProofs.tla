---------------------------- MODULE ProcessesProofs ----------------------------
(* Theorems about Processes, for any number of processes and every file. *)
EXTENDS Processes, SequenceTheorems, TLAPS

USE ConstantsAssumption

(* How many parts are open after so many constructors, at most 8.          *)
Heights(p) ==
    CASE program[p] = "grpc" -> <<0, 1, 2, 3, 3, 4, 4, 5, 5, 5, 6, 7, 8>>
      [] program[p] = "outbox" -> <<0, 1, 2, 2, 3, 3>>
      [] OTHER -> <<0, 1, 2, 2, 3, 4, 4>>

(* A list of cleanups that counts down to 1: it closes the parts 1 .. n,   *)
(* each of them once and the last one first.                               *)
CountsDown(list, n) ==
    /\ n \in 0 .. 8
    /\ list \in Seq(1 .. 8)
    /\ Len(list) = n
    /\ \A i \in 1 .. n : list[i] = n + 1 - i

(* TypeOK without the parts. *)
Types ==
    /\ program \in [Instances -> Programs]
    /\ file \in Files
    /\ phase \in [Instances -> Phases]
    /\ built \in [Instances -> Nat]
    /\ open \in [Instances -> SUBSET (1 .. 8)]
    /\ todo \in [Instances -> Seq(1 .. 8)]
    /\ entry \in [Instances -> [Roles -> file.topics \cup {Null}]]
    /\ running \in [Instances -> SUBSET Roles]
    /\ cancelled \in [Instances -> BOOLEAN]

(* The parts that are open are the first so many.  Before a process has a  *)
(* list of cleanups, that is given by the constructors it has called; from *)
(* then on by the list, which counts down from the last part.              *)
Parts(p) ==
    /\ built[p] \in 0 .. Len(Steps(p))
    /\ phase[p] \in {"off", "building"} =>
          open[p] = 1 .. Heights(p)[built[p] + 1] /\ todo[p] = <<>>
    /\ phase[p] \in {"serving", "stopping", "closing"} =>
          CountsDown(todo[p], Len(todo[p])) /\ open[p] = 1 .. Len(todo[p])
    /\ phase[p] = "off" => built[p] = 0
    /\ phase[p] = "exited" => todo[p] = <<>> /\ open[p] = {}
    /\ phase[p] = "aborted" => \E n \in 0 .. 8 : open[p] = 1 .. n

IInv == Types /\ \A p \in Instances : Parts(p)

LEMMA SelectTopicType ==
    ASSUME NEW f \in Files, NEW name
    PROVE  SelectTopic(f, name) \subseteq f.topics \cup {Null}
  BY DEF SelectTopic, Files

-----------------------------------------------------------------------------
(* What wire_gen.go says.                                                  *)

(* Any list that counts down is a sequence of parts. *)
LEMMA ListsOfCleanups ==
    /\ CountsDown(<<>>, 0)
    /\ CountsDown(<<1>>, 1)
    /\ CountsDown(<<2, 1>>, 2)
    /\ CountsDown(<<3, 2, 1>>, 3)
    /\ CountsDown(<<4, 3, 2, 1>>, 4)
    /\ CountsDown(<<5, 4, 3, 2, 1>>, 5)
    /\ CountsDown(<<6, 5, 4, 3, 2, 1>>, 6)
    /\ CountsDown(<<7, 6, 5, 4, 3, 2, 1>>, 7)
    /\ CountsDown(<<8, 7, 6, 5, 4, 3, 2, 1>>, 8)
  BY DEF CountsDown

(* Every error branch closes what the constructors before it have opened,  *)
(* and a constructor opens the next part or none.                          *)
StepIsRight(p, i) ==
    LET step == Steps(p)[i]
        height == Heights(p)[i]
    IN  /\ height \in 0 .. 8
        /\ step.panics \/ CountsDown(step.unwinds, height)
        /\ \/ step.cleanup = 0 /\ Heights(p)[i + 1] = height
           \/ step.cleanup = height + 1 /\ Heights(p)[i + 1] = height + 1

LEMMA ConstructorIsRight ==
    ASSUME NEW p \in Instances, NEW i, NEW c, NEW list, NEW h,
           Steps(p)[i] = Constructor(c, list), Heights(p)[i] = h,
           CountsDown(list, h),
           \/ c = 0 /\ Heights(p)[i + 1] = h
           \/ c = h + 1 /\ Heights(p)[i + 1] = h + 1
    PROVE  StepIsRight(p, i)
  BY DEF StepIsRight, Constructor, CountsDown

LEMMA StepsAreRight ==
    ASSUME NEW p \in Instances, program \in [Instances -> Programs],
           NEW i \in 1 .. Len(Steps(p))
    PROVE  StepIsRight(p, i)
  <1>1. CASE program[p] = "grpc"
    <2>1. Steps(p) = GrpcSteps /\ Heights(p) = <<0, 1, 2, 3, 3, 4, 4, 5, 5, 5, 6, 7, 8>>
      BY <1>1 DEF Steps, Heights
    <2>2. i \in 1 .. 12
      BY <2>1 DEF GrpcSteps
    <2>3. CASE i = 1
      <3>1. Steps(p)[i] = Constructor(1, <<>>) /\ Heights(p)[i] = 0 /\ Heights(p)[i + 1] = 1
        BY <2>1, <2>3 DEF GrpcSteps
      <3> QED
        BY SMTT(30), <3>1, ListsOfCleanups, ConstructorIsRight
    <2>4. CASE i = 2
      <3>1. Steps(p)[i] = Constructor(2, <<1>>) /\ Heights(p)[i] = 1 /\ Heights(p)[i + 1] = 2
        BY <2>1, <2>4 DEF GrpcSteps
      <3> QED
        BY SMTT(30), <3>1, ListsOfCleanups, ConstructorIsRight
    <2>5. CASE i = 3
      <3>1. Steps(p)[i] = Constructor(3, <<2, 1>>) /\ Heights(p)[i] = 2 /\ Heights(p)[i + 1] = 3
        BY <2>1, <2>5 DEF GrpcSteps
      <3> QED
        BY SMTT(30), <3>1, ListsOfCleanups, ConstructorIsRight
    <2>6. CASE i = 4
      <3>1. Steps(p)[i] = Constructor(0, <<3, 2, 1>>) /\ Heights(p)[i] = 3 /\ Heights(p)[i + 1] = 3
        BY <2>1, <2>6 DEF GrpcSteps
      <3> QED
        BY SMTT(30), <3>1, ListsOfCleanups, ConstructorIsRight
    <2>7. CASE i = 5
      <3>1. Steps(p)[i] = Constructor(4, <<3, 2, 1>>) /\ Heights(p)[i] = 3 /\ Heights(p)[i + 1] = 4
        BY <2>1, <2>7 DEF GrpcSteps
      <3> QED
        BY SMTT(30), <3>1, ListsOfCleanups, ConstructorIsRight
    <2>8. CASE i = 6
      BY <2>1, <2>8, ListsOfCleanups DEF StepIsRight, GrpcSteps, Constructor, OutboxConfig
    <2>9. CASE i = 7
      <3>1. Steps(p)[i] = Constructor(5, <<4, 3, 2, 1>>) /\ Heights(p)[i] = 4 /\ Heights(p)[i + 1] = 5
        BY <2>1, <2>9 DEF GrpcSteps
      <3> QED
        BY SMTT(30), <3>1, ListsOfCleanups, ConstructorIsRight
    <2>10. CASE i = 8
      <3>1. Steps(p)[i] = Constructor(0, <<5, 4, 3, 2, 1>>) /\ Heights(p)[i] = 5 /\ Heights(p)[i + 1] = 5
        BY <2>1, <2>10 DEF GrpcSteps
      <3> QED
        BY SMTT(30), <3>1, ListsOfCleanups, ConstructorIsRight
    <2>11. CASE i = 9
      <3>1. Steps(p)[i] = Constructor(0, <<5, 4, 3, 2, 1>>) /\ Heights(p)[i] = 5 /\ Heights(p)[i + 1] = 5
        BY <2>1, <2>11 DEF GrpcSteps
      <3> QED
        BY SMTT(30), <3>1, ListsOfCleanups, ConstructorIsRight
    <2>12. CASE i = 10
      <3>1. Steps(p)[i] = Constructor(6, <<5, 4, 3, 2, 1>>) /\ Heights(p)[i] = 5 /\ Heights(p)[i + 1] = 6
        BY <2>1, <2>12 DEF GrpcSteps
      <3> QED
        BY SMTT(30), <3>1, ListsOfCleanups, ConstructorIsRight
    <2>13. CASE i = 11
      <3>1. Steps(p)[i] = Constructor(7, <<6, 5, 4, 3, 2, 1>>) /\ Heights(p)[i] = 6 /\ Heights(p)[i + 1] = 7
        BY <2>1, <2>13 DEF GrpcSteps
      <3> QED
        BY SMTT(30), <3>1, ListsOfCleanups, ConstructorIsRight
    <2>14. CASE i = 12
      <3>1. Steps(p)[i] = Constructor(8, <<7, 6, 5, 4, 3, 2, 1>>) /\ Heights(p)[i] = 7 /\ Heights(p)[i + 1] = 8
        BY <2>1, <2>14 DEF GrpcSteps
      <3> QED
        BY SMTT(30), <3>1, ListsOfCleanups, ConstructorIsRight
    <2> QED
      BY <2>2, <2>3, <2>4, <2>5, <2>6, <2>7, <2>8, <2>9, <2>10, <2>11, <2>12, <2>13, <2>14
  <1>2. CASE program[p] = "outbox"
    <2>1. Steps(p) = OutboxSteps /\ Heights(p) = <<0, 1, 2, 2, 3, 3>>
      BY <1>2 DEF Steps, Heights
    <2>2. i \in 1 .. 5
      BY <2>1 DEF OutboxSteps
    <2>3. CASE i = 1
      <3>1. Steps(p)[i] = Constructor(1, <<>>) /\ Heights(p)[i] = 0 /\ Heights(p)[i + 1] = 1
        BY <2>1, <2>3 DEF OutboxSteps
      <3> QED
        BY SMTT(30), <3>1, ListsOfCleanups, ConstructorIsRight
    <2>4. CASE i = 2
      <3>1. Steps(p)[i] = Constructor(2, <<1>>) /\ Heights(p)[i] = 1 /\ Heights(p)[i + 1] = 2
        BY <2>1, <2>4 DEF OutboxSteps
      <3> QED
        BY SMTT(30), <3>1, ListsOfCleanups, ConstructorIsRight
    <2>5. CASE i = 3
      BY <2>1, <2>5, ListsOfCleanups DEF StepIsRight, OutboxSteps, Constructor, OutboxConfig
    <2>6. CASE i = 4
      <3>1. Steps(p)[i] = Constructor(3, <<2, 1>>) /\ Heights(p)[i] = 2 /\ Heights(p)[i + 1] = 3
        BY <2>1, <2>6 DEF OutboxSteps
      <3> QED
        BY SMTT(30), <3>1, ListsOfCleanups, ConstructorIsRight
    <2>7. CASE i = 5
      <3>1. Steps(p)[i] = Constructor(0, <<3, 2, 1>>) /\ Heights(p)[i] = 3 /\ Heights(p)[i + 1] = 3
        BY <2>1, <2>7 DEF OutboxSteps
      <3> QED
        BY SMTT(30), <3>1, ListsOfCleanups, ConstructorIsRight
    <2> QED
      BY <2>2, <2>3, <2>4, <2>5, <2>6, <2>7
  <1>3. CASE program[p] \in {"engagement", "uploads"}
    <2>1. Steps(p) = ConsumerSteps /\ Heights(p) = <<0, 1, 2, 2, 3, 4, 4>>
      BY <1>3 DEF Steps, Heights
    <2>2. i \in 1 .. 6
      BY <2>1 DEF ConsumerSteps
    <2>3. CASE i = 1
      <3>1. Steps(p)[i] = Constructor(1, <<>>) /\ Heights(p)[i] = 0 /\ Heights(p)[i + 1] = 1
        BY <2>1, <2>3 DEF ConsumerSteps
      <3> QED
        BY SMTT(30), <3>1, ListsOfCleanups, ConstructorIsRight
    <2>4. CASE i = 2
      <3>1. Steps(p)[i] = Constructor(2, <<1>>) /\ Heights(p)[i] = 1 /\ Heights(p)[i + 1] = 2
        BY <2>1, <2>4 DEF ConsumerSteps
      <3> QED
        BY SMTT(30), <3>1, ListsOfCleanups, ConstructorIsRight
    <2>5. CASE i = 3
      BY <2>1, <2>5, ListsOfCleanups DEF StepIsRight, ConsumerSteps, Constructor, OutboxConfig
    <2>6. CASE i = 4
      <3>1. Steps(p)[i] = Constructor(3, <<2, 1>>) /\ Heights(p)[i] = 2 /\ Heights(p)[i + 1] = 3
        BY <2>1, <2>6 DEF ConsumerSteps
      <3> QED
        BY SMTT(30), <3>1, ListsOfCleanups, ConstructorIsRight
    <2>7. CASE i = 5
      <3>1. Steps(p)[i] = Constructor(4, <<3, 2, 1>>) /\ Heights(p)[i] = 3 /\ Heights(p)[i + 1] = 4
        BY <2>1, <2>7 DEF ConsumerSteps
      <3> QED
        BY SMTT(30), <3>1, ListsOfCleanups, ConstructorIsRight
    <2>8. CASE i = 6
      <3>1. Steps(p)[i] = Constructor(0, <<4, 3, 2, 1>>) /\ Heights(p)[i] = 4 /\ Heights(p)[i + 1] = 4
        BY <2>1, <2>8 DEF ConsumerSteps
      <3> QED
        BY SMTT(30), <3>1, ListsOfCleanups, ConstructorIsRight
    <2> QED
      BY <2>2, <2>3, <2>4, <2>5, <2>6, <2>7, <2>8
  <1> QED
    BY <1>1, <1>2, <1>3 DEF Programs

(* The cleanup function closes all that was opened. *)
LEMMA CleanupIsRight ==
    ASSUME NEW p \in Instances, program \in [Instances -> Programs]
    PROVE  /\ Len(Steps(p)) \in Nat
           /\ CountsDown(Cleanup(p), Heights(p)[Len(Steps(p)) + 1])
  <1>1. CASE program[p] = "grpc"
    BY <1>1, ListsOfCleanups DEF Cleanup, Steps, GrpcSteps, Heights
  <1>2. CASE program[p] = "outbox"
    BY <1>2, ListsOfCleanups DEF Cleanup, Steps, OutboxSteps, Heights
  <1>3. CASE program[p] \in {"engagement", "uploads"}
    BY <1>3, ListsOfCleanups DEF Cleanup, Steps, ConsumerSteps, Heights
  <1> QED
    BY <1>1, <1>2, <1>3 DEF Programs

(* Nothing is open to begin with. *)
LEMMA FirstHeight ==
    ASSUME NEW p \in Instances, program \in [Instances -> Programs]
    PROVE  Heights(p)[1] = 0 /\ Len(Steps(p)) \in Nat
  BY CleanupIsRight DEF Heights, Programs

(* The tables of a process do not change. *)
LEMMA SameTables ==
    ASSUME UNCHANGED given, NEW p \in Instances
    PROVE  Steps(p)' = Steps(p) /\ Heights(p)' = Heights(p) /\ Cleanup(p)' = Cleanup(p)
  BY DEF given, Steps, Heights, Cleanup

(* A process leaves the parts of the others alone. *)
LEMMA Others ==
    ASSUME NEW q \in Instances, Parts(q), UNCHANGED given,
           phase'[q] = phase[q], built'[q] = built[q], open'[q] = open[q],
           todo'[q] = todo[q]
    PROVE  Parts(q)'
  BY SameTables DEF Parts, CountsDown

-----------------------------------------------------------------------------
(* Every step keeps the invariant.                                         *)

LEMMA LoadKeepsInv ==
    ASSUME IInv, NEW p \in Instances, Load(p) \/ LoadFails(p)
    PROVE  IInv'
  <1>1. Types'
    <2>1. CASE Load(p)
      <3>1. PICK choice \in [Roles -> EntryNames \cup {Null}] :
               /\ \A r \in Roles : choice[r] \in SelectTopic(file, TopicName(r))
               /\ entry' = [entry EXCEPT ![p] = choice]
        BY <2>1 DEF Load
      <3>2. file \in Files
        BY DEF IInv, Types
      <3>3. \A r \in Roles : choice[r] \in file.topics \cup {Null}
        BY <3>1, <3>2, SelectTopicType
      <3>4. choice \in [Roles -> file.topics \cup {Null}]
        BY <3>3
      <3> QED
        BY <2>1, <3>1, <3>4 DEF IInv, Types, Load, given, parts, Phases
    <2>2. CASE LoadFails(p)
      BY <2>2 DEF IInv, Types, LoadFails, given, parts, Phases
    <2> QED
      BY <2>1, <2>2
  <1>2. Parts(p)'
    <2>1. Parts(p) /\ phase[p] = "off" /\ built[p] = 0 /\ program \in [Instances -> Programs]
      BY DEF IInv, Types, Parts, Load, LoadFails
    <2>2. UNCHANGED <<built, open, todo>> /\ phase'[p] \in {"building", "exited"}
          /\ UNCHANGED given
      BY DEF IInv, Types, Load, LoadFails, parts
    <2>3. Heights(p)[1] = 0
      BY <2>1, FirstHeight
    <2>4. open[p] = {} /\ todo[p] = <<>>
      BY <2>1, <2>3 DEF Parts
    <2> QED
      BY <2>1, <2>2, <2>3, <2>4, SameTables DEF Parts
  <1>3. ASSUME NEW q \in Instances, q # p
        PROVE  Parts(q)'
    BY <1>3, Others DEF IInv, Types, Load, LoadFails, parts
  <1> QED
    BY <1>1, <1>2, <1>3 DEF IInv

(* Whatever a process does, the parts that are open are the first so many. *)
LEMMA FirstPartsAreOpen ==
    ASSUME IInv, NEW p \in Instances
    PROVE  \E n \in 0 .. 8 : open[p] = 1 .. n
  <1>1. Parts(p) /\ program \in [Instances -> Programs] /\ phase[p] \in Phases
    BY DEF IInv, Types
  <1>2. CASE phase[p] \in {"off", "building"}
    <2>1. Len(Steps(p)) \in Nat /\ built[p] \in 0 .. Len(Steps(p))
      BY <1>1, CleanupIsRight DEF Parts
    <2>2. CASE built[p] = Len(Steps(p))
      BY <1>1, <1>2, <2>2, CleanupIsRight DEF Parts, CountsDown
    <2>3. CASE built[p] # Len(Steps(p))
      <3>1. built[p] + 1 \in 1 .. Len(Steps(p))
        BY <2>1, <2>3
      <3> QED
        BY <1>1, <1>2, <3>1, StepsAreRight DEF Parts, StepIsRight
    <2> QED
      BY <2>2, <2>3
  <1>3. CASE phase[p] \in {"serving", "stopping", "closing"}
    BY <1>1, <1>3 DEF Parts, CountsDown
  <1>4. CASE phase[p] = "exited"
    <2>1. open[p] = 1 .. 0
      BY <1>1, <1>4 DEF Parts
    <2> QED
      BY <2>1
  <1>5. CASE phase[p] = "aborted"
    BY <1>1, <1>5 DEF Parts
  <1> QED
    BY <1>1, <1>2, <1>3, <1>4, <1>5 DEF Phases

(* A constructor is called while the first parts are open. *)
LEMMA BuildingContext ==
    ASSUME IInv, NEW p \in Instances, phase[p] = "building", ~Built(p)
    PROVE  /\ built[p] \in Nat
           /\ built[p] + 1 \in 1 .. Len(Steps(p))
           /\ StepIsRight(p, built[p] + 1)
           /\ open[p] = 1 .. Heights(p)[built[p] + 1]
           /\ todo[p] = <<>>
  <1>1. Parts(p) /\ program \in [Instances -> Programs] /\ built[p] \in Nat
    BY DEF IInv, Types
  <1>2. Len(Steps(p)) \in Nat
    BY <1>1, CleanupIsRight
  <1>3. built[p] + 1 \in 1 .. Len(Steps(p))
    BY <1>1, <1>2 DEF Parts, Built
  <1> QED
    BY <1>1, <1>3, StepsAreRight DEF Parts

LEMMA BuildKeepsInv ==
    ASSUME IInv, NEW p \in Instances, Build(p)
    PROVE  IInv'
  <1> DEFINE i == built[p] + 1
             n == Heights(p)[i]
             c == Steps(p)[i].cleanup
  <1>1. /\ built[p] \in Nat /\ i \in 1 .. Len(Steps(p))
        /\ n \in 0 .. 8 /\ todo[p] = <<>> /\ open[p] = 1 .. n
        /\ \/ c = 0 /\ Heights(p)[i + 1] = n
           \/ c = n + 1 /\ Heights(p)[i + 1] = n + 1
    BY BuildingContext DEF Build, StepIsRight
  <1>2. Heights(p)[i + 1] \in 0 .. 8
    <2>1. program \in [Instances -> Programs]
      BY DEF IInv, Types
    <2>2. CASE i = Len(Steps(p))
      BY <2>1, <2>2, CleanupIsRight DEF CountsDown
    <2>3. CASE i # Len(Steps(p))
      <3>1. Len(Steps(p)) \in Nat
        BY <2>1, CleanupIsRight
      <3>2. i + 1 \in 1 .. Len(Steps(p))
        BY <1>1, <2>3, <3>1
      <3> HIDE DEF i
      <3> QED
        BY <2>1, <3>2, StepsAreRight DEF StepIsRight
    <2> QED
      BY <2>2, <2>3
  <1>3. open[p] \cup ({c} \ {0}) = 1 .. Heights(p)[i + 1]
    <2> HIDE DEF n, c
    <2>1. CASE c = 0 /\ Heights(p)[i + 1] = n
      BY <1>1, <2>1
    <2>2. CASE c = n + 1 /\ Heights(p)[i + 1] = n + 1
      <3>1. (1 .. n) \cup {n + 1} = 1 .. n + 1 /\ {n + 1} \ {0} = {n + 1}
        BY <1>1
      <3> QED
        BY <1>1, <2>2, <3>1
    <2> QED
      BY <1>1, <2>1, <2>2
  <1>4. /\ open' = [open EXCEPT ![p] = 1 .. Heights(p)[i + 1]]
        /\ built' = [built EXCEPT ![p] = i]
        /\ UNCHANGED <<given, phase, todo, entry, running, cancelled>>
        /\ phase[p] = "building"
    BY <1>3 DEF Build, NextStep, IInv, Types
  <1>5. Types'
    <2>1. 1 .. Heights(p)[i + 1] \in SUBSET (1 .. 8)
      BY <1>2
    <2> HIDE DEF i
    <2> QED
      BY <1>1, <1>4, <2>1 DEF IInv, Types, given, i
  <1>6. Parts(p)'
    <2>1. /\ built'[p] = i /\ open'[p] = 1 .. Heights(p)[i + 1]
          /\ phase'[p] = "building" /\ todo'[p] = <<>>
      BY <1>1, <1>4 DEF IInv, Types
    <2>2. i \in 0 .. Len(Steps(p))
      BY <1>1
    <2> HIDE DEF i
    <2> QED
      BY <1>4, <2>1, <2>2, SameTables DEF Parts
  <1>7. ASSUME NEW q \in Instances, q # p
        PROVE  Parts(q)'
    BY <1>4, <1>7, Others DEF IInv, Types
  <1> QED
    BY <1>5, <1>6, <1>7 DEF IInv

LEMMA BuildFailsKeepsInv ==
    ASSUME IInv, NEW p \in Instances, BuildFails(p)
    PROVE  IInv'
  <1> DEFINE list == Steps(p)[built[p] + 1].unwinds
             n == Heights(p)[built[p] + 1]
  <1>1. CountsDown(list, n) /\ open[p] = 1 .. n
    BY BuildingContext DEF BuildFails, StepIsRight, NextStep
  <1>2. /\ todo' = [todo EXCEPT ![p] = list]
        /\ phase' = [phase EXCEPT ![p] = "closing"]
        /\ UNCHANGED <<given, built, open, entry, running, cancelled>>
    BY DEF BuildFails, NextStep
  <1> HIDE DEF list, n
  <1>3. Types'
    BY <1>1, <1>2 DEF IInv, Types, given, Phases, CountsDown
  <1>4. Parts(p)'
    <2>1. /\ todo'[p] = list /\ phase'[p] = "closing"
          /\ built'[p] = built[p] /\ open'[p] = open[p] /\ UNCHANGED given
      BY <1>2 DEF IInv, Types
    <2>2. Len(list) = n
      BY <1>1 DEF CountsDown
    <2>3. built[p] \in 0 .. Len(Steps(p))
      BY DEF IInv, Parts
    <2>4. CountsDown(todo[p], Len(todo[p]))' /\ open'[p] = 1 .. Len(todo'[p])
      BY <1>1, <2>1, <2>2 DEF CountsDown
    <2> QED
      BY <2>1, <2>3, <2>4, SameTables DEF Parts
  <1>5. ASSUME NEW q \in Instances, q # p
        PROVE  Parts(q)'
    BY <1>2, <1>5, Others DEF IInv, Types
  <1> QED
    BY <1>3, <1>4, <1>5 DEF IInv

LEMMA StartKeepsInv ==
    ASSUME IInv, NEW p \in Instances, Start(p)
    PROVE  IInv'
  <1> DEFINE list == Cleanup(p)
             n == Heights(p)[Len(Steps(p)) + 1]
  <1>1. CountsDown(list, n)
    BY CleanupIsRight DEF IInv, Types
  <1>2. open[p] = 1 .. n
    BY DEF Start, Built, IInv, Parts
  <1>3. /\ todo' = [todo EXCEPT ![p] = list]
        /\ running' = [running EXCEPT ![p] = Runners(p)]
        /\ UNCHANGED <<given, built, open, entry, cancelled>>
    BY DEF Start
  <1>4. phase' \in [Instances -> Phases] /\ phase'[p] \in {"serving", "closing"}
        /\ \A q \in Instances : q # p => phase'[q] = phase[q]
    BY DEF Start, IInv, Types, Phases
  <1>5. Runners(p) \subseteq Roles
    BY DEF Runners, RolesOf, Roles, IInv, Types, Programs
  <1> HIDE DEF list, n
  <1>6. Types'
    BY <1>1, <1>3, <1>4, <1>5 DEF IInv, Types, given, CountsDown
  <1>7. Parts(p)'
    <2>1. /\ todo'[p] = list /\ phase'[p] \in {"serving", "closing"}
          /\ built'[p] = built[p] /\ open'[p] = open[p] /\ UNCHANGED given
      BY <1>3, <1>4 DEF IInv, Types
    <2>2. Len(list) = n
      BY <1>1 DEF CountsDown
    <2>3. built[p] \in 0 .. Len(Steps(p))
      BY DEF IInv, Parts
    <2>4. CountsDown(todo[p], Len(todo[p]))' /\ open'[p] = 1 .. Len(todo'[p])
      BY <1>1, <1>2, <2>1, <2>2 DEF CountsDown
    <2> QED
      BY <2>1, <2>3, <2>4, SameTables DEF Parts
  <1>8. ASSUME NEW q \in Instances, q # p
        PROVE  Parts(q)'
    BY <1>3, <1>4, <1>8, Others DEF IInv, Types
  <1> QED
    BY <1>6, <1>7, <1>8 DEF IInv

(* Steps that leave the parts alone: from a phase with a list of cleanups  *)
(* to another one, or to the end of an aborted process.                    *)
LEMMA PhaseKeepsInv ==
    ASSUME IInv, NEW p \in Instances, UNCHANGED <<given, parts, entry>>,
           running' \in [Instances -> SUBSET Roles],
           cancelled' \in [Instances -> BOOLEAN],
           NEW next \in Phases, phase' = [phase EXCEPT ![p] = next],
           \/ next = "aborted"
           \/ next = phase[p]
           \/ /\ phase[p] \in {"serving", "stopping"}
              /\ next \in {"serving", "stopping", "closing"}
    PROVE  IInv'
  <1>1. Types'
    BY DEF IInv, Types, given, parts
  <1>2. Parts(p)'
    <2>1. /\ phase'[p] = next /\ Parts(p)
          /\ built'[p] = built[p] /\ open'[p] = open[p] /\ todo'[p] = todo[p]
      BY DEF IInv, Types, parts
    <2>2. \E m \in 0 .. 8 : open[p] = 1 .. m
      BY FirstPartsAreOpen
    <2>3. CountsDown(todo[p], Len(todo[p]))' = CountsDown(todo[p], Len(todo[p]))
      BY <2>1 DEF CountsDown
    <2> QED
      BY <2>1, <2>2, <2>3, SameTables DEF Parts
  <1>3. ASSUME NEW q \in Instances, q # p
        PROVE  Parts(q)'
    BY <1>3, Others DEF IInv, Types, parts
  <1> QED
    BY <1>1, <1>2, <1>3 DEF IInv

LEMMA RunningKeepsInv ==
    ASSUME IInv, NEW p \in Instances, NEW r \in Roles,
           RunnerEnds(p, r) \/ RunnerReturns(p, r)
    PROVE  IInv'
  <1>1. /\ running' \in [Instances -> SUBSET Roles]
        /\ cancelled' \in [Instances -> BOOLEAN]
        /\ UNCHANGED <<given, parts, entry>>
    BY DEF RunnerEnds, RunnerReturns, IInv, Types
  <1>2. CASE RunnerEnds(p, r)
    <2>1. PICK next \in IF program[p] = "grpc" THEN {phase[p]} ELSE {"closing", "aborted"} :
             phase' = [phase EXCEPT ![p] = next]
      BY <1>2 DEF RunnerEnds
    <2>2. next \in Phases /\ phase[p] \in {"serving", "stopping"}
      BY <1>2, <2>1 DEF RunnerEnds, Phases
    <2> QED
      BY <1>1, <2>1, <2>2, PhaseKeepsInv
  <1>3. CASE RunnerReturns(p, r)
    <2>1. phase' = [phase EXCEPT ![p] = phase[p]] /\ phase[p] \in Phases
      BY <1>3 DEF RunnerReturns, IInv, Types
    <2> QED
      BY <1>1, <2>1, PhaseKeepsInv
  <1> QED
    BY <1>2, <1>3

LEMMA StopKeepsInv ==
    ASSUME IInv, NEW p \in Instances,
           Stop(p) \/ WaitEnds(p) \/ WaitIsCut(p) \/ Killed(p) \/ BuildPanics(p)
    PROVE  IInv'
  <1>1. /\ running' \in [Instances -> SUBSET Roles]
        /\ cancelled' \in [Instances -> BOOLEAN]
        /\ UNCHANGED <<given, parts, entry>>
    BY DEF Stop, WaitEnds, WaitIsCut, Killed, BuildPanics, IInv, Types
  <1>2. CASE Stop(p)
    BY <1>1, <1>2, PhaseKeepsInv DEF Stop, Phases
  <1>3. CASE WaitEnds(p)
    BY <1>1, <1>3, PhaseKeepsInv DEF WaitEnds, Phases
  <1>4. CASE WaitIsCut(p)
    BY <1>1, <1>4, PhaseKeepsInv DEF WaitIsCut, Phases
  <1>5. CASE Killed(p) \/ BuildPanics(p)
    BY <1>1, <1>5, PhaseKeepsInv DEF Killed, BuildPanics, Phases
  <1> QED
    BY <1>2, <1>3, <1>4, <1>5

(* The rest of a list that counts down counts down, from one part less.    *)
LEMMA TailCountsDown ==
    ASSUME NEW list, CountsDown(list, Len(list)), list # <<>>
    PROVE  /\ CountsDown(Tail(list), Len(Tail(list)))
           /\ Tail(list) \in Seq(1 .. 8)
           /\ Head(list) \in 1 .. 8
           /\ (1 .. Len(list)) \ {Head(list)} = 1 .. Len(Tail(list))
  <1>1. list \in Seq(1 .. 8) /\ Len(list) \in 1 .. 8
    BY EmptySeq DEF CountsDown
  <1>2. /\ Tail(list) \in Seq(1 .. 8)
        /\ Len(Tail(list)) = Len(list) - 1
        /\ \A i \in 1 .. Len(list) - 1 : Tail(list)[i] = list[i + 1]
    BY <1>1, HeadTailProperties
  <1>3. Head(list) = Len(list)
    BY <1>1 DEF CountsDown
  <1>4. CountsDown(Tail(list), Len(list) - 1)
    <2>1. ASSUME NEW i \in 1 .. Len(list) - 1
          PROVE  Tail(list)[i] = Len(list) - i
      BY <1>1, <1>2 DEF CountsDown
    <2>2. Len(list) - 1 \in 0 .. 8
      BY <1>1
    <2>3. \A i \in 1 .. Len(list) - 1 : Tail(list)[i] = Len(list) - 1 + 1 - i
      BY <1>1, <2>1
    <2> QED
      BY <1>2, <2>2, <2>3 DEF CountsDown
  <1>5. (1 .. Len(list)) \ {Len(list)} = 1 .. Len(list) - 1
    BY <1>1
  <1> QED
    BY <1>1, <1>2, <1>3, <1>4, <1>5

LEMMA CloseKeepsInv ==
    ASSUME IInv, NEW p \in Instances, CloseNext(p)
    PROVE  IInv'
  <1> DEFINE list == todo[p]
  <1>1. /\ CountsDown(list, Len(list)) /\ list # <<>>
        /\ open[p] = 1 .. Len(list) /\ phase[p] = "closing"
        /\ built[p] \in 0 .. Len(Steps(p))
    BY DEF CloseNext, IInv, Parts
  <1>2. /\ open' = [open EXCEPT ![p] = open[p] \ {Head(list)}]
        /\ todo' = [todo EXCEPT ![p] = Tail(list)]
        /\ UNCHANGED <<given, built, phase, entry, running, cancelled>>
    BY DEF CloseNext
  <1> HIDE DEF list
  <1>3. /\ CountsDown(Tail(list), Len(Tail(list))) /\ Tail(list) \in Seq(1 .. 8)
        /\ open[p] \ {Head(list)} = 1 .. Len(Tail(list))
    BY <1>1, TailCountsDown
  <1>4. Types'
    <2>1. open[p] \ {Head(list)} \in SUBSET (1 .. 8)
      BY DEF IInv, Types
    <2> QED
      BY <1>2, <1>3, <2>1 DEF IInv, Types, given
  <1>5. Parts(p)'
    <2>1. /\ todo'[p] = Tail(list) /\ open'[p] = 1 .. Len(Tail(list))
          /\ built'[p] = built[p] /\ phase'[p] = "closing" /\ UNCHANGED given
      BY <1>1, <1>2, <1>3 DEF IInv, Types
    <2>2. CountsDown(todo[p], Len(todo[p]))'
      BY <1>3, <2>1 DEF CountsDown
    <2> QED
      BY <1>1, <2>1, <2>2, SameTables DEF Parts
  <1>6. ASSUME NEW q \in Instances, q # p
        PROVE  Parts(q)'
    BY <1>2, <1>6, Others DEF IInv, Types
  <1> QED
    BY <1>4, <1>5, <1>6 DEF IInv

LEMMA ExitKeepsInv ==
    ASSUME IInv, NEW p \in Instances, Exit(p)
    PROVE  IInv'
  <1>1. Types'
    BY DEF IInv, Types, Exit, given, parts, Phases
  <1>2. Parts(p)'
    <2>1. /\ todo[p] = <<>> /\ phase[p] = "closing" /\ Parts(p)
          /\ phase'[p] = "exited" /\ UNCHANGED <<given, built, open, todo>>
      BY DEF Exit, IInv, Types, parts
    <2>2. open[p] = {}
      BY <2>1 DEF Parts
    <2> QED
      BY <2>1, <2>2, SameTables DEF Parts
  <1>3. ASSUME NEW q \in Instances, q # p
        PROVE  Parts(q)'
    BY <1>3, Others DEF IInv, Types, Exit, parts
  <1> QED
    BY <1>1, <1>2, <1>3 DEF IInv

LEMMA InitHasInv == Init => IInv
  <1> SUFFICES ASSUME Init PROVE IInv
    OBVIOUS
  <1>1. Types
    <2>1. <<>> \in Seq(1 .. 8)
      BY EmptySeq
    <2> QED
      BY <2>1 DEF Init, Types, Phases
  <1>2. ASSUME NEW p \in Instances PROVE Parts(p)
    BY FirstHeight DEF Init, Parts
  <1> QED
    BY <1>1, <1>2 DEF IInv

LEMMA StepKeepsInv == IInv /\ [Next]_vars => IInv'
  <1> SUFFICES ASSUME IInv, [Next]_vars PROVE IInv'
    OBVIOUS
  <1>1. CASE UNCHANGED vars
    <2>1. Types'
      BY <1>1 DEF vars, given, parts, IInv, Types
    <2>2. ASSUME NEW p \in Instances PROVE Parts(p)'
      BY <1>1, Others DEF vars, parts, IInv
    <2> QED
      BY <2>1, <2>2 DEF IInv
  <1>2. ASSUME NEW p \in Instances, Load(p) \/ LoadFails(p)
        PROVE  IInv'
    BY <1>2, LoadKeepsInv
  <1>3. ASSUME NEW p \in Instances,
               Build(p) \/ BuildFails(p) \/ BuildPanics(p) \/ Start(p)
        PROVE  IInv'
    BY <1>3, BuildKeepsInv, BuildFailsKeepsInv, StopKeepsInv, StartKeepsInv
  <1>4. ASSUME NEW p \in Instances,
               Stop(p) \/ WaitIsCut(p) \/ ShutDown(p) \/ Killed(p)
        PROVE  IInv'
    BY <1>4, StopKeepsInv, CloseKeepsInv, ExitKeepsInv DEF ShutDown
  <1>5. ASSUME NEW p \in Instances, NEW r \in Roles,
               RunnerEnds(p, r) \/ RunnerReturns(p, r)
        PROVE  IInv'
    BY <1>5, RunningKeepsInv
  <1> QED
    BY <1>1, <1>2, <1>3, <1>4, <1>5 DEF Next

(* The inductive invariant, of all processes at all times. *)
THEOREM ProcessInvariant == Spec => []IInv
  BY InitHasInv, StepKeepsInv, PTL DEF Spec

-----------------------------------------------------------------------------
(* What follows from it.                                                   *)

LEMMA InvIsTyped == IInv => TypeOK
  <1> SUFFICES ASSUME IInv PROVE TypeOK
    OBVIOUS
  <1>1. ASSUME NEW p \in Instances PROVE built[p] <= Len(Steps(p))
    BY CleanupIsRight DEF IInv, Types, Parts
  <1> QED
    BY <1>1 DEF IInv, Types, TypeOK

(* Every variable keeps its type: a process never has more than the eight  *)
(* parts of wire_gen.go, and every role is given an entry the file has.    *)
THEOREM ProcessTypes == Spec => []TypeOK
  BY ProcessInvariant, InvIsTyped, PTL

LEMMA InvGivesUnwinding == IInv => PartsAreUnwound
  <1> SUFFICES ASSUME IInv, NEW p \in Instances
               PROVE  /\ phase[p] \in {"closing", "exited"} => Range(todo[p]) = open[p]
                      /\ \A part \in open[p] : 1 .. part \subseteq open[p]
    BY DEF PartsAreUnwound
  <1>1. \A part \in open[p] : 1 .. part \subseteq open[p]
    <2>1. PICK n \in 0 .. 8 : open[p] = 1 .. n
      BY FirstPartsAreOpen
    <2> QED
      BY <2>1
  <1>2. CASE phase[p] = "closing"
    <2> DEFINE list == todo[p]
               n == Len(list)
    <2>1. CountsDown(list, n) /\ open[p] = 1 .. n
      BY <1>2 DEF IInv, Parts
    <2> HIDE DEF list
    <2>2. n \in 0 .. 8 /\ DOMAIN list = 1 .. n /\ \A i \in 1 .. n : list[i] = n + 1 - i
      BY <2>1, LenProperties DEF CountsDown
    <2> HIDE DEF n
    <2>3. Range(list) = {n + 1 - i : i \in 1 .. n}
      BY <2>2 DEF Range
    <2>4. ASSUME NEW k \in 1 .. n PROVE \E i \in 1 .. n : k = n + 1 - i
      <3>1. n + 1 - k \in 1 .. n /\ k = n + 1 - (n + 1 - k)
        BY <2>2
      <3> QED
        BY <3>1
    <2>5. \A i \in 1 .. n : n + 1 - i \in 1 .. n
      BY <2>2
    <2> QED
      BY <1>1, <1>2, <2>1, <2>3, <2>4, <2>5 DEF list
  <1>3. CASE phase[p] = "exited"
    <2>1. todo[p] = <<>> /\ open[p] = {}
      BY <1>3 DEF IInv, Parts
    <2>2. Range(<<>>) = {}
      BY DEF Range
    <2> QED
      BY <1>1, <2>1, <2>2
  <1> QED
    BY <1>1, <1>2, <1>3

(* Whichever constructor of whichever program fails, the cleanups of its    *)
(* branch are those of the parts that are open, and the last one built is   *)
(* the first one closed.                                                    *)
THEOREM PartsTheorem == Spec => []PartsAreUnwound
  BY ProcessInvariant, InvGivesUnwinding, PTL

(* What a file says of the timeouts, or that it says nothing.              *)
HandlerSettings ==
    [default : Durations, command : Durations, query : Durations] \cup {Null}

LEMMA TimeoutsAreNumbers ==
    ASSUME NEW h \in HandlerSettings
    PROVE  /\ HandlerTimeouts(h).default \in Nat
           /\ HandlerTimeouts(h).command \in Nat
           /\ HandlerTimeouts(h).query \in Nat
  <1>1. CASE h = Null
    BY <1>1 DEF HandlerTimeouts
  <1>2. CASE h # Null
    <2>1. h.default \in Nat /\ h.command \in Nat /\ h.query \in Nat
      BY <1>2 DEF HandlerSettings
    <2> QED
      BY <1>2, <2>1 DEF HandlerTimeouts
  <1> QED
    BY <1>1, <1>2

(* Whatever numbers it is given, a handler has three timeouts.             *)
LEMMA NewBaseHandlerFillsIn ==
    ASSUME NEW t, t.default \in Nat, t.command \in Nat, t.query \in Nat
    PROVE  /\ NewBaseHandler(t).default > 0
           /\ NewBaseHandler(t).command > 0
           /\ NewBaseHandler(t).query > 0
  BY DEF NewBaseHandler

LEMMA SettingsGiveTimeouts == EveryCallIsBounded
  <1>1. ASSUME NEW h \in HandlerSettings, NEW kind \in {"default", "command", "query"}
        PROVE  WithTimeout(NewBaseHandler(HandlerTimeouts(h)), kind) > 0
    <2>1. /\ NewBaseHandler(HandlerTimeouts(h)).default > 0
          /\ NewBaseHandler(HandlerTimeouts(h)).command > 0
          /\ NewBaseHandler(HandlerTimeouts(h)).query > 0
      BY TimeoutsAreNumbers, NewBaseHandlerFillsIn
    <2> QED
      BY <2>1 DEF WithTimeout
  <1> QED
    BY <1>1 DEF EveryCallIsBounded, HandlerSettings

(* Every call has a timeout, for any durations a file may give: what is    *)
(* left out of the file is filled in by one of two functions.              *)
THEOREM BoundedTheorem == Spec => []EveryCallIsBounded
  BY SettingsGiveTimeouts, PTL
=============================================================================
