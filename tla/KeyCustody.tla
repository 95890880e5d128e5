---------------------------- MODULE KeyCustody -----------------------------
(***************************************************************************)
(* How a validator's signing key gets from the deposit CLI to its secret   *)
(* container: hack/generate-validator-key.py runs one key ceremony into    *)
(* the identity's directory, hack/onboard-web3signer-keystore.py stores    *)
(* the keystore of a directory in the container Terraform declared.        *)
(*                                                                         *)
(* Both commands check first and act later, and neither takes a lock: the  *)
(* model lets several terminals run them at once and be killed anywhere.   *)
(***************************************************************************)
EXTENDS Naturals, Sequences, FiniteSets

CONSTANTS
    Terminal,   \* where operators run the two commands, on one workstation
    Validator,  \* identities with a declared container
    Key,        \* signing keys the deposit CLI may draw
    None        \* no identity, no key

ASSUME NoneIsNothing == None \notin Key \cup Validator

VARIABLES
    files,      \* artifacts in the output directory of each identity
    drawn,      \* keys the deposit CLI has drawn
    validated,  \* keys of each identity whose ceremony succeeded, to be deposited
    container,  \* versions of each identity's secret, oldest first
    command,    \* what each terminal runs
    onboarded,  \* history variable: keys whose onboarding was reported as stored
    crowded,    \* history variable: identities with two ceremonies at once
    astray,     \* history variable: identities given a keystore against the runbook
    raced       \* history variable: identities with two onboardings past their check

keyVars == <<files, drawn, validated, container, command, onboarded, crowded, astray, raced>>

\* "good" passes every check of the ceremony; "foreign" is a well-formed file the
\* ceremony rejects (group readable, other chain, fork or amount); "broken" is cut off.
Grade == {"good", "foreign", "broken"}
Artifact == [kind: {"keystore", "deposit"}, key: Key, grade: Grade]
File(kind, k, grade) == [kind |-> kind, key |-> k, grade |-> grade]

Step == {"idle", "prepared", "generated", "held", "cleared", "stored"}
Command == [at: Step, v: Validator \cup {None}, key: Key \cup {None}]
Idle == [at |-> "idle", v |-> None, key |-> None]

KeysTypeOK ==
    /\ files \in [Validator -> SUBSET Artifact]
    /\ drawn \subseteq Key
    /\ validated \in [Validator -> SUBSET Key]
    /\ container \in [Validator -> Seq(Key)]
    /\ command \in [Terminal -> Command]
    /\ onboarded \in [Validator -> SUBSET Key]
    /\ crowded \subseteq Validator
    /\ astray \subseteq Validator
    /\ raced \subseteq Validator

KeyInit ==
    /\ files = [v \in Validator |-> {}]
    /\ drawn = {}
    /\ validated = [v \in Validator |-> {}]
    /\ container = [v \in Validator |-> <<>>]
    /\ command = [t \in Terminal |-> Idle]
    /\ onboarded = [v \in Validator |-> {}]
    /\ crowded = {}
    /\ astray = {}
    /\ raced = {}

Goto(t, c) == command' = [command EXCEPT ![t] = c]
At(t, step, v) == command[t].at = step /\ command[t].v = v
Others(t, steps, v) == \E u \in Terminal \ {t} : \E s \in steps : At(u, s, v)

----------------------------------------------------------------------------
(* The ceremony                                                            *)

\* Mutation: an existing directory is taken as it is.
Reusable(v) == TRUE

\* The output directory has to be empty, or not to exist yet.
Fresh(v) == files[v] = {}

\* The profile and the one deposit CLI are found and the directory is made.
Prepare(t, v) ==
    /\ command[t] = Idle
    /\ Fresh(v)
    /\ Goto(t, [Idle EXCEPT !.at = "prepared", !.v = v])
    /\ crowded' = IF Others(t, {"prepared", "generated"}, v) THEN crowded \cup {v} ELSE crowded
    /\ UNCHANGED <<files, drawn, validated, container, onboarded, astray, raced>>

\* The deposit CLI draws a new key.  A run that fails leaves what it wrote.
DepositCli(t) ==
    /\ command[t].at = "prepared"
    /\ \E k \in Key \ drawn :
          /\ drawn' = drawn \cup {k}
          /\ \/ \E grade \in {"good", "foreign"} :
                   /\ files' = [files EXCEPT ![command[t].v] =
                                  @ \cup {File("keystore", k, "good"), File("deposit", k, grade)}]
                   /\ Goto(t, [command[t] EXCEPT !.at = "generated"])
             \/ /\ \E left \in {{}, {File("keystore", k, "good")}, {File("keystore", k, "broken")}} :
                      files' = [files EXCEPT ![command[t].v] = @ \cup left]
                /\ Goto(t, Idle)
    /\ UNCHANGED <<validated, container, onboarded, crowded, astray, raced>>

\* Exactly one keystore and one deposit record, private, of the same key and for
\* the chain, fork and amount of the profile.
ValidBundle(d) ==
    \E k \in Key : d = {File("keystore", k, "good"), File("deposit", k, "good")}

\* A valid bundle is reported, and its deposit will be submitted.
Validate(t) ==
    /\ command[t].at = "generated"
    /\ LET v == command[t].v
       IN  validated' = IF ValidBundle(files[v])
                        THEN [validated EXCEPT ![v] = @ \cup {f.key : f \in files[v]}]
                        ELSE validated
    /\ Goto(t, Idle)
    /\ UNCHANGED <<files, drawn, container, onboarded, crowded, astray, raced>>

\* A person inspects what a failed ceremony left and removes it.
Discard(v) ==
    /\ files[v] # {} /\ ~ValidBundle(files[v])
    /\ \A t \in Terminal : ~At(t, "prepared", v) /\ ~At(t, "generated", v)
    /\ files' = [files EXCEPT ![v] = {}]
    /\ UNCHANGED <<drawn, validated, container, command, onboarded, crowded, astray, raced>>

----------------------------------------------------------------------------
(* Onboarding                                                              *)

\* An EIP-2335 keystore whose checksum the typed password opens.  Nothing derives
\* the public key or compares it with the identity's.
Accepted(f) == f.kind = "keystore" /\ f.grade # "broken"

\* What the runbook says to pass: a keystore out of the directory of the identity,
\* once its ceremony has succeeded.
ByRunbook(w, v) == w = v /\ validated[v] # {}

\* The command takes the path and the identity as it is told, whichever they are.
Load(t, v) ==
    /\ command[t] = Idle
    /\ \E w \in Validator : \E f \in files[w] :
          /\ Accepted(f)
          /\ Goto(t, [at |-> "held", v |-> v, key |-> f.key])
          /\ astray' = IF ByRunbook(w, v) THEN astray ELSE astray \cup {v}
    /\ UNCHANGED <<files, drawn, validated, container, onboarded, crowded, raced>>

\* Mutation: only a second version counts as rotation.
ClearAnyway(t) ==
    /\ command[t].at = "held"
    /\ LET v == command[t].v
       IN  /\ Len(container[v]) <= 1
           /\ Goto(t, [command[t] EXCEPT !.at = "cleared"])
           /\ raced' = IF Others(t, {"cleared"}, v) THEN raced \cup {v} ELSE raced
    /\ UNCHANGED <<files, drawn, validated, container, onboarded, crowded, astray>>

\* The container has no version, deprecated ones included.
Clear(t) ==
    /\ command[t].at = "held"
    /\ LET v == command[t].v
       IN  /\ container[v] = <<>>
           /\ Goto(t, [command[t] EXCEPT !.at = "cleared"])
           /\ raced' = IF Others(t, {"cleared"}, v) THEN raced \cup {v} ELSE raced
    /\ UNCHANGED <<files, drawn, validated, container, onboarded, crowded, astray>>

\* put-secret-value adds a version and makes it the current one.
Put(t) ==
    /\ command[t].at = "cleared"
    /\ container' = [container EXCEPT ![command[t].v] = Append(@, command[t].key)]
    /\ Goto(t, [command[t] EXCEPT !.at = "stored"])
    /\ UNCHANGED <<files, drawn, validated, onboarded, crowded, astray, raced>>

Current(v) == container[v][Len(container[v])]

\* The version read back is the payload sent, or the command fails.
ReadBack(t) ==
    /\ command[t].at = "stored"
    /\ LET v == command[t].v
       IN  onboarded' = IF Current(v) = command[t].key
                        THEN [onboarded EXCEPT ![v] = @ \cup {command[t].key}]
                        ELSE onboarded
    /\ Goto(t, Idle)
    /\ UNCHANGED <<files, drawn, validated, container, crowded, astray, raced>>

\* Any check refuses, any call fails, or the process is killed.
Quit(t) ==
    /\ command[t] # Idle
    /\ Goto(t, Idle)
    /\ UNCHANGED <<files, drawn, validated, container, onboarded, crowded, astray, raced>>

----------------------------------------------------------------------------

KeyNext ==
    \/ \E v \in Validator : Discard(v)
    \/ \E t \in Terminal, v \in Validator : Prepare(t, v) \/ Load(t, v)
    \/ \E t \in Terminal :
          \/ DepositCli(t) \/ Validate(t)
          \/ Clear(t) \/ Put(t) \/ ReadBack(t)
          \/ Quit(t)

KeySpec == KeyInit /\ [][KeyNext]_keyVars

----------------------------------------------------------------------------
(* Properties                                                              *)

\* A directory mixes the material of two keys only if two ceremonies for the
\* identity ran at once ("refusing to mix or overwrite key material").
DirectoryHoldsOneKey ==
    \A v \in Validator \ crowded : \A f, g \in files[v] : f.key = g.key

\* A container gets a second version, that is, its keystore is rotated, only if
\* two onboardings were both past their check ("refuses implicit rotation").
RotationNeedsRace == \A v \in Validator \ raced : Len(container[v]) <= 1

\* Without such a race the key an onboarding reported as stored is what the
\* container holds from then on, and it is the only one ever reported.
ReportedKeyStays ==
    \A v \in Validator \ raced : \A k \in onboarded[v] : container[v] = <<k>>

\* Every key in a container is one whose ceremony for this identity succeeded, so
\* that the deposit was made for it, and not one of another identity or one a
\* failed ceremony left behind: unless somebody passed a keystore against the
\* runbook, which the command does not notice, or two ceremonies overlapped.
ContainerHoldsDepositedKey ==
    \A v \in Validator \ (crowded \cup astray) :
        \A i \in 1..Len(container[v]) : container[v][i] \in validated[v]
============================================================================
