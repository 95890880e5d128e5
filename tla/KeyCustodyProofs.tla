-------------------------- MODULE KeyCustodyProofs --------------------------
(***************************************************************************)
(* Proofs about KeyCustody, for any number of terminals, identities and    *)
(* keys.                                                                   *)
(***************************************************************************)
EXTENDS KeyCustody, SequenceTheorems, TLAPS

----------------------------------------------------------------------------
(* Type correctness.  A command that runs works for some identity, and     *)
(* past loading it holds a key.                                            *)

Running ==
    \A t \in Terminal :
        /\ command[t].at # "idle" => command[t].v \in Validator
        /\ command[t].at \in {"held", "cleared", "stored"} => command[t].key \in Key

KeysTyped == KeysTypeOK /\ Running

LEMMA KeysTypedInit == KeyInit => KeysTyped
BY DEF KeyInit, KeysTyped, KeysTypeOK, Running, Command, Step, Idle

LEMMA CommandTyped ==
    ASSUME KeysTyped, NEW t \in Terminal, NEW c \in Command,
           c.at # "idle" => c.v \in Validator,
           c.at \in {"held", "cleared", "stored"} => c.key \in Key,
           command' = [command EXCEPT ![t] = c]
    PROVE  command' \in [Terminal -> Command] /\ Running'
<1>1. command \in [Terminal -> Command] /\ Running
  BY DEF KeysTyped, KeysTypeOK
<1>2. command' \in [Terminal -> Command]
  BY <1>1
<1>3. \A u \in Terminal : command'[u] = IF u = t THEN c ELSE command[u]
  BY <1>1
<1>. QED  BY <1>1, <1>2, <1>3 DEF Running

\* A command moves on with what it works for unchanged.
LEMMA StepTyped ==
    ASSUME KeysTyped, NEW t \in Terminal, NEW step \in Step,
           command[t].at # "idle",
           step \in {"held", "cleared", "stored"} =>
               command[t].at \in {"held", "cleared", "stored"}
    PROVE  /\ [command[t] EXCEPT !.at = step] \in Command
           /\ [command[t] EXCEPT !.at = step].at = step
           /\ [command[t] EXCEPT !.at = step].v = command[t].v
           /\ [command[t] EXCEPT !.at = step].key = command[t].key
           /\ command[t].v \in Validator
           /\ step \in {"held", "cleared", "stored"} => command[t].key \in Key
<1>1. command[t] \in [at: Step, v: Validator \cup {None}, key: Key \cup {None}]
  BY DEF KeysTyped, KeysTypeOK, Command
<1>2. command[t].v \in Validator
  BY DEF KeysTyped, Running
<1>3. step \in {"held", "cleared", "stored"} => command[t].key \in Key
  BY DEF KeysTyped, Running
<1>. QED  BY <1>1, <1>2, <1>3 DEF Command

\* One run of the deposit CLI writes material of one newly drawn key.
LEMMA DepositCliWrites ==
    ASSUME NEW t \in Terminal, DepositCli(t)
    PROVE  \E k \in Key, new \in SUBSET Artifact :
              /\ drawn' = drawn \cup {k}
              /\ files' = [files EXCEPT ![command[t].v] = @ \cup new]
              /\ \A f \in new : f.key = k
              /\ \/ command' = [command EXCEPT ![t] = [command[t] EXCEPT !.at = "generated"]]
                 \/ command' = [command EXCEPT ![t] = Idle]
<1>1. PICK k \in Key :
        /\ drawn' = drawn \cup {k}
        /\ \/ \E grade \in {"good", "foreign"} :
                 /\ files' = [files EXCEPT ![command[t].v] =
                                @ \cup {File("keystore", k, "good"), File("deposit", k, grade)}]
                 /\ command' = [command EXCEPT ![t] = [command[t] EXCEPT !.at = "generated"]]
           \/ /\ \E left \in {{}, {File("keystore", k, "good")}, {File("keystore", k, "broken")}} :
                    files' = [files EXCEPT ![command[t].v] = @ \cup left]
              /\ command' = [command EXCEPT ![t] = Idle]
  BY DEF DepositCli, Goto
<1>2. \A kind \in {"keystore", "deposit"}, grade \in {"good", "foreign", "broken"} :
         File(kind, k, grade) \in Artifact /\ File(kind, k, grade).key = k
  BY DEF File, Artifact, Grade
<1>3. CASE \E grade \in {"good", "foreign"} :
              /\ files' = [files EXCEPT ![command[t].v] =
                             @ \cup {File("keystore", k, "good"), File("deposit", k, grade)}]
              /\ command' = [command EXCEPT ![t] = [command[t] EXCEPT !.at = "generated"]]
  <2>1. PICK grade \in {"good", "foreign"} :
              /\ files' = [files EXCEPT ![command[t].v] =
                             @ \cup {File("keystore", k, "good"), File("deposit", k, grade)}]
              /\ command' = [command EXCEPT ![t] = [command[t] EXCEPT !.at = "generated"]]
    BY <1>3
  <2> DEFINE new == {File("keystore", k, "good"), File("deposit", k, grade)}
  <2>2. new \in SUBSET Artifact /\ \A f \in new : f.key = k
    BY <1>2
  <2>3. files' = [files EXCEPT ![command[t].v] = @ \cup new]
    BY <2>1
  <2> HIDE DEF new
  <2>. QED  BY <1>1, <2>1, <2>2, <2>3
<1>4. CASE /\ \E left \in {{}, {File("keystore", k, "good")}, {File("keystore", k, "broken")}} :
                 files' = [files EXCEPT ![command[t].v] = @ \cup left]
           /\ command' = [command EXCEPT ![t] = Idle]
  <2>1. PICK left \in {{}, {File("keystore", k, "good")}, {File("keystore", k, "broken")}} :
           files' = [files EXCEPT ![command[t].v] = @ \cup left]
    BY <1>4
  <2>2. left \in SUBSET Artifact /\ \A f \in left : f.key = k
    BY <1>2
  <2>. QED  BY <1>1, <1>4, <2>1, <2>2
<1>. QED  BY <1>1, <1>3, <1>4

LEMMA KeysTypedStep == KeysTyped /\ [KeyNext]_keyVars => KeysTyped'
<1> SUFFICES ASSUME KeysTyped, [KeyNext]_keyVars PROVE KeysTyped'
  OBVIOUS
<1> USE DEF KeysTyped, KeysTypeOK, Running, Command, Step, Idle, Goto
<1>1. CASE UNCHANGED keyVars
  BY <1>1 DEF keyVars
<1>2. ASSUME NEW v \in Validator, Discard(v) PROVE KeysTyped'
  BY <1>2 DEF Discard
<1>3. ASSUME NEW t \in Terminal, NEW v \in Validator, Prepare(t, v) PROVE KeysTyped'
  BY <1>3 DEF Prepare
<1>4. ASSUME NEW t \in Terminal, NEW v \in Validator, Load(t, v) PROVE KeysTyped'
  BY <1>4 DEF Load, Artifact
<1>5. ASSUME NEW t \in Terminal, DepositCli(t) PROVE KeysTyped'
  <2>1. PICK k \in Key, new \in SUBSET Artifact :
          /\ drawn' = drawn \cup {k}
          /\ files' = [files EXCEPT ![command[t].v] = @ \cup new]
          /\ \/ command' = [command EXCEPT ![t] = [command[t] EXCEPT !.at = "generated"]]
             \/ command' = [command EXCEPT ![t] = Idle]
    BY <1>5, DepositCliWrites
  <2>2. /\ command[t].at = "prepared" /\ command[t].v \in Validator
        /\ UNCHANGED <<validated, container, onboarded, crowded, astray, raced>>
    BY <1>5 DEF DepositCli
  <2>3. files' \in [Validator -> SUBSET Artifact]
    BY <2>1, <2>2
  <2>4. ASSUME command' = [command EXCEPT ![t] = [command[t] EXCEPT !.at = "generated"]]
        PROVE  command' \in [Terminal -> Command] /\ Running'
    <3>1. PICK c \in Command :
            /\ c.at = "generated" /\ c.v \in Validator
            /\ command' = [command EXCEPT ![t] = c]
      BY <2>2, <2>4, StepTyped
    <3>. QED  BY <3>1, CommandTyped
  <2>5. command' \in [Terminal -> Command] /\ Running'
    BY <2>1, <2>4, CommandTyped
  <2>. QED  BY <2>1, <2>2, <2>3, <2>5
<1>6. ASSUME NEW t \in Terminal, Validate(t) PROVE KeysTyped'
  BY <1>6 DEF Validate, Artifact
<1>7. ASSUME NEW t \in Terminal, Clear(t) PROVE KeysTyped'
  BY <1>7 DEF Clear
<1>8. ASSUME NEW t \in Terminal, Put(t) PROVE KeysTyped'
  <2> DEFINE c == [command[t] EXCEPT !.at = "stored"]
  <2>1. c \in Command /\ c.at = "stored" /\ c.v \in Validator /\ c.key \in Key
    BY <1>8, StepTyped DEF Put
  <2>2. command' = [command EXCEPT ![t] = c]
    BY <1>8 DEF Put
  <2> HIDE DEF c
  <2>3. command' \in [Terminal -> Command] /\ Running'
    BY <2>1, <2>2, CommandTyped
  <2>4. command[t].v \in Validator /\ command[t].key \in Key
    BY <1>8 DEF Put
  <2>5. container' \in [Validator -> Seq(Key)]
    BY <1>8, <2>4 DEF Put
  <2>. QED  BY <1>8, <2>3, <2>5 DEF Put
<1>9. ASSUME NEW t \in Terminal, ReadBack(t) PROVE KeysTyped'
  <2>1. command' = [command EXCEPT ![t] = Idle] /\ Idle \in Command
    BY <1>9 DEF ReadBack
  <2>2. command[t].v \in Validator /\ command[t].key \in Key
    BY <1>9 DEF ReadBack
  <2>3. onboarded' \in [Validator -> SUBSET Key]
    BY <1>9, <2>2 DEF ReadBack
  <2>. QED  BY <1>9, <2>1, <2>3 DEF ReadBack
<1>10. ASSUME NEW t \in Terminal, Quit(t) PROVE KeysTyped'
  BY <1>10 DEF Quit
<1>. QED
  BY <1>1, <1>2, <1>3, <1>4, <1>5, <1>6, <1>7, <1>8, <1>9, <1>10 DEF KeyNext

LEMMA KeysTypedAlways == KeySpec => []KeysTyped
BY KeysTypedInit, KeysTypedStep, PTL DEF KeySpec

\* The type invariant of the custody tools.
THEOREM KeysTypeCorrect == KeySpec => []KeysTypeOK
<1>1. KeysTyped => KeysTypeOK
  BY DEF KeysTyped
<1>. QED  BY <1>1, KeysTypedAlways, PTL

----------------------------------------------------------------------------
(* Onboarding.  As long as no two commands were past their check for one   *)
(* identity, at most one is past it, and then the container is empty.      *)

Onboarding(v) ==
    /\ Len(container[v]) <= 1
    /\ \A t \in Terminal : At(t, "cleared", v) => container[v] = <<>>
    /\ \A t, u \in Terminal : At(t, "cleared", v) /\ At(u, "cleared", v) => t = u
    /\ \A t \in Terminal : At(t, "stored", v) => container[v] # <<>>
    /\ \A k \in onboarded[v] : container[v] = <<k>>

Orderly == \A v \in Validator \ raced : Onboarding(v)

LEMMA OneVersion == \A k : Len(<<k>>) = 1 /\ <<k>> # <<>> /\ <<k>>[1] = k
OBVIOUS

LEMMA OneVersionOf ==
    ASSUME NEW s \in Seq(Key), Len(s) <= 1, s # <<>>
    PROVE  s = <<s[1]>> /\ Len(s) = 1
<1>1. \A seq \in Seq(Key) : (seq # << >>) => (Len(seq) \in Nat \ {0})
  BY EmptySeq
<1>2. \A n \in Nat \ {0} : n <= 1 => n = 1
  OBVIOUS
<1>3. Len(s) = 1
  BY <1>1, <1>2
<1>4. s[1] \in Key
  BY <1>3, ElementOfSeq
<1>5. <<s[1]>> \in Seq(Key) /\ Len(<<s[1]>>) = 1 /\ <<s[1]>>[1] = s[1]
  BY <1>4
<1>6. \A i \in 1..Len(s) : s[i] = <<s[1]>>[i]
  BY <1>3, <1>5
<1>. QED  BY <1>3, <1>5, <1>6, SeqEqual

LEMMA OrderlyStep == KeysTyped /\ Orderly /\ [KeyNext]_keyVars => Orderly'
<1> SUFFICES ASSUME KeysTyped, Orderly, [KeyNext]_keyVars,
                    NEW v \in Validator, v \notin raced'
             PROVE  Onboarding(v)'
  BY DEF Orderly
<1> USE DEF KeysTyped, KeysTypeOK, Running, Orderly, Onboarding, At, Goto, Command, Idle
<1>1. ASSUME UNCHANGED <<container, onboarded, raced>>,
             \A t \in Terminal : command'[t].at \in {"cleared", "stored"} => command'[t] = command[t]
      PROVE  Onboarding(v)'
  BY <1>1
<1>2. ASSUME NEW t \in Terminal, NEW c, command' = [command EXCEPT ![t] = c],
             c.at \notin {"cleared", "stored"},
             UNCHANGED <<container, onboarded, raced>>
      PROVE  Onboarding(v)'
  <2>1. \A u \in Terminal : command'[u] = IF u = t THEN c ELSE command[u]
    BY <1>2
  <2>. QED  BY <1>1, <1>2, <2>1
<1>3. ASSUME NEW t \in Terminal, NEW w \in Validator, Prepare(t, w) PROVE Onboarding(v)'
  BY <1>2, <1>3 DEF Prepare
<1>3a. ASSUME NEW t \in Terminal, NEW w \in Validator, Load(t, w) PROVE Onboarding(v)'
  <2>1. PICK f : command' = [command EXCEPT ![t] = [at |-> "held", v |-> w, key |-> f]]
    BY <1>3a DEF Load
  <2>. QED  BY <1>2, <1>3a, <2>1 DEF Load
<1>3b. ASSUME NEW t \in Terminal, DepositCli(t) PROVE Onboarding(v)'
  <2>1. UNCHANGED <<container, onboarded, raced>> /\ command[t].at = "prepared"
    BY <1>3b DEF DepositCli
  <2>2. [command[t] EXCEPT !.at = "generated"].at = "generated"
    BY <2>1, StepTyped DEF Step
  <2>3. \/ command' = [command EXCEPT ![t] = [command[t] EXCEPT !.at = "generated"]]
        \/ command' = [command EXCEPT ![t] = Idle]
    BY <1>3b, DepositCliWrites
  <2>. QED  BY <1>2, <2>1, <2>2, <2>3
<1>3c. ASSUME NEW t \in Terminal, Validate(t) \/ Quit(t) PROVE Onboarding(v)'
  BY <1>2, <1>3c DEF Validate, Quit
<1>4. ASSUME NEW t \in Terminal, Clear(t) PROVE Onboarding(v)'
  <2>1. CASE command[t].v # v
    BY <1>4, <2>1 DEF Clear
  <2>2. CASE command[t].v = v
    <3>1. /\ container[v] = <<>> /\ UNCHANGED <<container, onboarded>>
          /\ command' = [command EXCEPT ![t] = [command[t] EXCEPT !.at = "cleared"]]
          /\ ~Others(t, {"cleared"}, v) /\ v \notin raced
      BY <1>4, <2>2 DEF Clear
    <3>2. \A u \in Terminal \ {t} : ~(command[u].at = "cleared" /\ command[u].v = v)
      BY <3>1 DEF Others
    <3>3. \A u \in Terminal :
             /\ At(u, "cleared", v)' => u = t
             /\ At(u, "stored", v)' => At(u, "stored", v)
      <4>1. [command[t] EXCEPT !.at = "cleared"].at = "cleared"
        BY <1>4, StepTyped DEF Clear
      <4>2. \A u \in Terminal \ {t} : command'[u] = command[u]
        BY <3>1
      <4>3. command'[t].at = "cleared"
        BY <3>1, <4>1
      <4>. QED  BY <3>2, <4>2, <4>3
    <3>4. onboarded[v] = {} /\ Len(container[v]) = 0
      <4>1. \A k \in onboarded[v] : container[v] = <<k>>
        BY <3>1
      <4>2. Len(<<>>) = 0
        OBVIOUS
      <4>. QED  BY <3>1, <4>1, <4>2, OneVersion
    <3>. QED  BY <3>1, <3>3, <3>4
  <2>. QED  BY <2>1, <2>2
<1>5. ASSUME NEW t \in Terminal, Put(t) PROVE Onboarding(v)'
  <2>1. /\ command[t].at = "cleared" /\ command[t].v \in Validator /\ command[t].key \in Key
        /\ container' = [container EXCEPT ![command[t].v] = Append(@, command[t].key)]
        /\ command' = [command EXCEPT ![t] = [command[t] EXCEPT !.at = "stored"]]
        /\ UNCHANGED <<onboarded, raced>>
    BY <1>5 DEF Put
  <2>2. CASE command[t].v # v
    BY <2>1, <2>2
  <2>3. CASE command[t].v = v
    <3>1. container[v] = <<>> /\ onboarded[v] = {}
      BY <2>1, <2>3, OneVersion
    <3>2. container'[v] = <<command[t].key>>
      BY <2>1, <2>3, <3>1
    <3>3. \A u \in Terminal : ~At(u, "cleared", v)'
      <4>1. [command[t] EXCEPT !.at = "stored"].at = "stored"
        BY <2>1, StepTyped
      <4>2. command'[t].at = "stored"
        BY <2>1, <4>1
      <4>3. \A u \in Terminal \ {t} : command'[u] = command[u] /\ ~At(u, "cleared", v)
        BY <2>1, <2>3
      <4>. QED  BY <4>2, <4>3
    <3>4. Len(container'[v]) = 1 /\ container'[v] # <<>> /\ onboarded'[v] = {}
      BY <2>1, <3>1, <3>2, OneVersion
    <3>. QED  BY <3>3, <3>4
  <2>. QED  BY <2>2, <2>3
<1>6. ASSUME NEW t \in Terminal, ReadBack(t) PROVE Onboarding(v)'
  <2>1. /\ command[t].at = "stored" /\ UNCHANGED <<container, raced>>
        /\ command' = [command EXCEPT ![t] = Idle]
        /\ onboarded' = IF Current(command[t].v) = command[t].key
                        THEN [onboarded EXCEPT ![command[t].v] = @ \cup {command[t].key}]
                        ELSE onboarded
    BY <1>6 DEF ReadBack
  <2>2. ASSUME NEW k \in onboarded'[v] PROVE container[v] = <<k>>
    <3>1. CASE k \in onboarded[v]
      BY <2>1, <3>1
    <3>2. CASE k \notin onboarded[v]
      <4>0. command[t].v \in Validator /\ onboarded'[v] # onboarded[v]
        BY <2>1, <2>2, <3>2
      <4>1. /\ Current(command[t].v) = command[t].key
            /\ onboarded' = [onboarded EXCEPT ![command[t].v] = @ \cup {command[t].key}]
        BY <2>1, <4>0
      <4>2. command[t].v = v
        BY <4>0, <4>1
      <4>3. Current(v) = k /\ container[v] # <<>>
        BY <2>1, <2>2, <3>2, <4>1, <4>2
      <4>4. container[v] \in Seq(Key) /\ Len(container[v]) <= 1
        BY <2>1
      <4>5. container[v] = <<container[v][1]>> /\ Len(container[v]) = 1
        BY <4>3, <4>4, OneVersionOf
      <4>. QED  BY <4>3, <4>5 DEF Current
    <3>. QED  BY <3>1, <3>2
  <2>. QED  BY <2>1, <2>2
<1>7. ASSUME NEW w \in Validator, Discard(w) PROVE Onboarding(v)'
  BY <1>1, <1>7 DEF Discard
<1>8. CASE UNCHANGED keyVars
  BY <1>1, <1>8 DEF keyVars
<1>. QED
  BY <1>3, <1>3a, <1>3b, <1>3c, <1>4, <1>5, <1>6, <1>7, <1>8 DEF KeyNext

LEMMA OrderlyAlways == KeySpec => []Orderly
<1>1. KeyInit => Orderly
  BY DEF KeyInit, Orderly, Onboarding, At, Idle
<1>. QED  BY <1>1, KeysTypedAlways, OrderlyStep, PTL DEF KeySpec

\* A keystore is rotated only when two onboardings raced.
THEOREM RotationOnlyByRace == KeySpec => []RotationNeedsRace
<1>1. Orderly => RotationNeedsRace
  BY DEF Orderly, Onboarding, RotationNeedsRace
<1>. QED  BY <1>1, OrderlyAlways, PTL

\* A key reported as stored stays the only version of its container.
THEOREM ReportedKeysStay == KeySpec => []ReportedKeyStays
<1>1. Orderly => ReportedKeyStays
  BY DEF Orderly, Onboarding, ReportedKeyStays
<1>. QED  BY <1>1, OrderlyAlways, PTL

----------------------------------------------------------------------------
(* The ceremony.  As long as no two ran at once for an identity, its       *)
(* directory is empty while one runs, and once one succeeded the directory *)
(* holds its bundle for good, so that nothing else is found there.         *)

Ceremonies == {"prepared", "generated"}

CeremonyOf(v) ==
    /\ \A t, u \in Terminal :
          /\ command[t].at \in Ceremonies /\ command[t].v = v
          /\ command[u].at \in Ceremonies /\ command[u].v = v
          => t = u
    /\ \A t \in Terminal : At(t, "prepared", v) => files[v] = {}
    /\ \A f, g \in files[v] : f.key = g.key

\* A keystore passed against the runbook taints what comes after it, and nothing before.
DepositedOnly(v) ==
    /\ validated[v] # {} =>
          ValidBundle(files[v]) /\ \A f \in files[v] : f.key \in validated[v]
    /\ v \notin astray =>
          /\ \A t \in Terminal : At(t, "held", v) \/ At(t, "cleared", v) =>
                command[t].key \in validated[v]
          /\ \A i \in 1..Len(container[v]) : container[v][i] \in validated[v]

Separate == \A v \in Validator \ crowded : CeremonyOf(v) /\ DepositedOnly(v)

LEMMA CeremonyStep ==
    ASSUME KeysTyped, Separate, [KeyNext]_keyVars, NEW v \in Validator, v \notin crowded'
    PROVE  CeremonyOf(v)'
<1> USE DEF KeysTyped, KeysTypeOK, Running, Separate, CeremonyOf, Ceremonies, At, Goto,
            Command, Idle
<1>1. ASSUME UNCHANGED <<files, crowded>>,
             \A t \in Terminal : command'[t].at \in Ceremonies => command'[t] = command[t]
      PROVE  CeremonyOf(v)'
  BY <1>1
<1>2. ASSUME NEW t \in Terminal, NEW w \in Validator, Prepare(t, w) PROVE CeremonyOf(v)'
  <2>1. /\ command' = [command EXCEPT ![t] = [Idle EXCEPT !.at = "prepared", !.v = w]]
        /\ files[w] = {} /\ UNCHANGED files
        /\ v \notin crowded
        /\ w = v => ~Others(t, {"prepared", "generated"}, v)
    BY <1>2 DEF Prepare, Fresh
  <2>2. CASE w # v
    BY <2>1, <2>2
  <2>3. CASE w = v
    BY <2>1, <2>3 DEF Others
  <2>. QED  BY <2>2, <2>3
<1>3. ASSUME NEW t \in Terminal, DepositCli(t) PROVE CeremonyOf(v)'
  <2>1. PICK k \in Key, new \in SUBSET Artifact :
          /\ files' = [files EXCEPT ![command[t].v] = @ \cup new]
          /\ \A f \in new : f.key = k
          /\ \/ command' = [command EXCEPT ![t] = [command[t] EXCEPT !.at = "generated"]]
             \/ command' = [command EXCEPT ![t] = Idle]
    BY <1>3, DepositCliWrites
  <2>2. command[t].at = "prepared" /\ UNCHANGED crowded
    BY <1>3 DEF DepositCli
  <2>2a. [command[t] EXCEPT !.at = "generated"].at = "generated" /\
         [command[t] EXCEPT !.at = "generated"].v = command[t].v
    BY <2>2, StepTyped DEF Step
  <2>2b. /\ command'[t].at # "prepared"
         /\ command'[t].at = "generated" => command'[t].v = command[t].v
         /\ command'[t].at \in {"generated", "idle"}
         /\ \A u \in Terminal \ {t} : command'[u] = command[u]
    BY <2>1, <2>2a
  <2>3. CASE command[t].v # v
    <3>1. files'[v] = files[v] /\ v \notin crowded
      BY <2>1, <2>2, <2>3
    <3>2. \A u \in Terminal : (command'[u].at \in Ceremonies /\ command'[u].v = v)
                             => u # t /\ command'[u] = command[u]
      BY <2>2b, <2>3
    <3>3. CeremonyOf(v)
      BY <3>1
    <3>. QED  BY <3>1, <3>2, <3>3
  <2>4. CASE command[t].v = v
    <3>1. files[v] = {} /\ files'[v] = new
      BY <2>1, <2>2, <2>4
    <3>2. \A u \in Terminal \ {t} : ~(command'[u].at \in Ceremonies /\ command'[u].v = v)
      BY <2>2, <2>2b, <2>4
    <3>3. command'[t].at # "prepared"
      BY <2>2b
    <3>. QED  BY <2>1, <3>1, <3>2, <3>3
  <2>. QED  BY <2>3, <2>4
<1>4. ASSUME NEW w \in Validator, Discard(w) PROVE CeremonyOf(v)'
  BY <1>4 DEF Discard
<1>5. ASSUME NEW t \in Terminal,
             \/ \E w \in Validator : Load(t, w)
             \/ Validate(t) \/ Clear(t) \/ Put(t) \/ ReadBack(t) \/ Quit(t)
      PROVE  CeremonyOf(v)'
  <2>1. UNCHANGED <<files, crowded>>
    BY <1>5 DEF Load, Validate, Clear, Put, ReadBack, Quit
  <2>2. PICK c : command' = [command EXCEPT ![t] = c] /\ c.at \notin Ceremonies
    BY <1>5 DEF Load, Validate, Clear, Put, ReadBack, Quit
  <2>. QED  BY <1>1, <2>1, <2>2
<1>6. CASE UNCHANGED keyVars
  BY <1>1, <1>6 DEF keyVars
<1>. QED  BY <1>2, <1>3, <1>4, <1>5, <1>6 DEF KeyNext

LEMMA DepositedStep ==
    ASSUME KeysTyped, Separate, [KeyNext]_keyVars, NEW v \in Validator, v \notin crowded'
    PROVE  DepositedOnly(v)'
<1> USE DEF KeysTyped, KeysTypeOK, Running, Separate, DepositedOnly, At, Goto, Command, Idle
<1>1. ASSUME UNCHANGED <<files, validated, container, astray>>, crowded \subseteq crowded',
             \A t \in Terminal : command'[t].at \in {"held", "cleared"} => command'[t] = command[t]
      PROVE  DepositedOnly(v)'
  BY <1>1
<1>2. ASSUME NEW t \in Terminal, NEW w \in Validator, Prepare(t, w) PROVE DepositedOnly(v)'
  BY <1>1, <1>2 DEF Prepare
<1>3. ASSUME NEW t \in Terminal, DepositCli(t) PROVE DepositedOnly(v)'
  <2>1. /\ command[t].at = "prepared" /\ UNCHANGED <<validated, container, crowded, astray>>
        /\ \A w \in Validator \ {command[t].v} : files'[w] = files[w]
        /\ \A u \in Terminal : command'[u].at \in {"held", "cleared"} => command'[u] = command[u]
    BY <1>3 DEF DepositCli
  <2>2. command[t].v = v => validated[v] = {}
    <3>1. command[t].v = v => files[v] = {}
      BY <2>1 DEF CeremonyOf
    <3>2. ~ValidBundle({})
      BY DEF ValidBundle
    <3>. QED  BY <2>1, <3>1, <3>2
  <2>. QED  BY <2>1, <2>2
<1>4. ASSUME NEW w \in Validator, Discard(w) PROVE DepositedOnly(v)'
  BY <1>4 DEF Discard
<1>5. ASSUME NEW t \in Terminal, NEW w \in Validator, Load(t, w) PROVE DepositedOnly(v)'
  <2>0. PICK x \in Validator : \E f \in files[x] :
          /\ command' = [command EXCEPT ![t] = [at |-> "held", v |-> w, key |-> f.key]]
          /\ astray' = IF ByRunbook(x, w) THEN astray ELSE astray \cup {w}
    BY <1>5 DEF Load
  <2>1. PICK f \in files[x] :
          /\ command' = [command EXCEPT ![t] = [at |-> "held", v |-> w, key |-> f.key]]
          /\ astray' = IF ByRunbook(x, w) THEN astray ELSE astray \cup {w}
    BY <2>0
  <2>2. UNCHANGED <<files, validated, container, crowded>> /\ astray \subseteq astray'
    BY <1>5, <2>1 DEF Load
  <2>3. w = v /\ v \notin astray' => x = v /\ f.key \in validated[v]
    BY <2>1, <2>2 DEF ByRunbook
  <2>4. \A u \in Terminal \ {t} : command'[u] = command[u]
    BY <2>1
  <2>. QED  BY <2>1, <2>2, <2>3, <2>4
<1>6. ASSUME NEW t \in Terminal, Validate(t) PROVE DepositedOnly(v)'
  <2>1. /\ validated' = IF ValidBundle(files[command[t].v])
                        THEN [validated EXCEPT ![command[t].v] =
                                @ \cup {f.key : f \in files[command[t].v]}]
                        ELSE validated
        /\ command' = [command EXCEPT ![t] = Idle]
        /\ command[t].v \in Validator
        /\ UNCHANGED <<files, container, crowded, astray>>
    BY <1>6 DEF Validate
  <2>2. CASE command[t].v = v /\ ValidBundle(files[v])
    <3>1. validated'[v] = validated[v] \cup {f.key : f \in files[v]}
      BY <2>1, <2>2
    <3>2. \A f \in files[v] : f.key \in validated'[v]
      BY <3>1
    <3>3. validated[v] \subseteq validated'[v]
      BY <3>1
    <3>. QED  BY <2>1, <2>2, <3>2, <3>3
  <2>3. CASE ~(command[t].v = v /\ ValidBundle(files[v]))
    <3>1. validated'[v] = validated[v]
      BY <2>1, <2>3
    <3>. QED  BY <2>1, <3>1
  <2>. QED  BY <2>2, <2>3
<1>7. ASSUME NEW t \in Terminal, Put(t) PROVE DepositedOnly(v)'
  <2>1. /\ command[t].at = "cleared" /\ command[t].v \in Validator /\ command[t].key \in Key
        /\ container' = [container EXCEPT ![command[t].v] = Append(@, command[t].key)]
        /\ command' = [command EXCEPT ![t] = [command[t] EXCEPT !.at = "stored"]]
        /\ UNCHANGED <<files, validated, crowded, astray>>
    BY <1>7 DEF Put
  <2>2. CASE command[t].v = v
    <3>1. v \notin astray => command[t].key \in validated[v]
      BY <2>1, <2>2
    <3>2. v \notin astray =>
             \A i \in 1..Len(container'[v]) : container'[v][i] \in validated[v]
      BY <2>1, <2>2, <3>1
    <3>. QED  BY <2>1, <3>2
  <2>3. CASE command[t].v # v
    BY <2>1, <2>3
  <2>. QED  BY <2>2, <2>3
<1>8. ASSUME NEW t \in Terminal, Clear(t) PROVE DepositedOnly(v)'
  BY <1>8 DEF Clear
<1>9. ASSUME NEW t \in Terminal, ReadBack(t) \/ Quit(t) PROVE DepositedOnly(v)'
  BY <1>1, <1>9 DEF ReadBack, Quit
<1>10. CASE UNCHANGED keyVars
  BY <1>1, <1>10 DEF keyVars
<1>. QED
  BY <1>2, <1>3, <1>4, <1>5, <1>6, <1>7, <1>8, <1>9, <1>10 DEF KeyNext

LEMMA SeparateAlways == KeySpec => []Separate
<1>1. KeyInit => Separate
  BY DEF KeyInit, Separate, CeremonyOf, DepositedOnly, At, Ceremonies, Idle
<1>2. KeysTyped /\ Separate /\ [KeyNext]_keyVars => Separate'
  BY CeremonyStep, DepositedStep DEF Separate
<1>. QED  BY <1>1, <1>2, KeysTypedAlways, PTL DEF KeySpec

\* A directory never mixes two keys unless two ceremonies ran in it at once.
THEOREM DirectoriesHoldOneKey == KeySpec => []DirectoryHoldsOneKey
<1>1. Separate => DirectoryHoldsOneKey
  BY DEF Separate, CeremonyOf, DirectoryHoldsOneKey
<1>. QED  BY <1>1, SeparateAlways, PTL

\* Only keys whose ceremony for this identity succeeded, and for which the deposit
\* is made, get into its secret container, as long as nobody passes a keystore
\* against the runbook and no two ceremonies overlap.
THEOREM ContainersHoldDepositedKeys == KeySpec => []ContainerHoldsDepositedKey
<1>1. Separate => ContainerHoldsDepositedKey
  BY DEF Separate, DepositedOnly, ContainerHoldsDepositedKey
<1>. QED  BY <1>1, SeparateAlways, PTL
============================================================================
