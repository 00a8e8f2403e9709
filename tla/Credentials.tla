----------------------------- MODULE Credentials ----------------------------
(***************************************************************************)
(* Provider credentials under a versioned master keyring: commands that    *)
(* store and rotate, each with the keyring it read when it began.          *)
(* Dispatch, which only reads a secret, is not modelled.                   *)
(***************************************************************************)
EXTENDS Integers, FiniteSets

CONSTANTS Records,       \* one credential per provider and owner
          Commands,      \* command line processes alive at the same time
          RotationBatch, \* rows a rotation re-encrypts in a transaction
          MaxKeys,       \* keys the operator ever makes active
          MaxStores,     \* bound on store commands
          MaxCommands    \* bound on commands begun

ASSUME CredentialsAssumption == /\ Records \subseteq Nat /\ IsFiniteSet(Records)
                                /\ RotationBatch \in Nat \ {0}
                                /\ MaxKeys \in Nat \ {0}
                                /\ MaxStores \in Nat
                                /\ MaxCommands \in Nat

VARIABLES ciphertexts,       \* record -> key and secret of its ciphertext; key 0: no row
          keyring,    \* the keyring file: active key and the keys it holds
          retirable,  \* the last rotation report calls the other keys retirable
          command,    \* process -> what it does, its keyring, the rows in hand
          outdated,   \* records stored since that report by a command with an older keyring
          stores, commands

credentialVars == <<ciphertexts, keyring, retirable, command, outdated, stores, commands>>

NoCommand == [op |-> "none", ring |-> [active |-> 0, keys |-> {}], record |-> -1,
              secret |-> 0, picked |-> {}]

\* An unknown key or a failed authentication raises; only the key can differ here.
Decrypts(ring, row) == row.key \in ring.keys

-----------------------------------------------------------------------------
\* A command parses the keyring once, when it starts.
BeginCommand(c, work) ==
    /\ command[c] = NoCommand
    /\ commands < MaxCommands
    /\ commands' = commands + 1
    /\ command' = [command EXCEPT ![c] = [work EXCEPT !.ring = keyring]]
    /\ UNCHANGED <<ciphertexts, keyring, retirable, outdated>>

EndCommand(c) == command' = [command EXCEPT ![c] = NoCommand]

BeginStore(c, r) ==
    /\ stores < MaxStores
    /\ stores' = stores + 1
    /\ BeginCommand(c, [NoCommand EXCEPT !.op = "store", !.record = r, !.secret = stores'])

BeginRotation(c) ==
    /\ BeginCommand(c, [NoCommand EXCEPT !.op = "select"])
    /\ UNCHANGED stores

\* One upsert per provider and owner, under the key the command took for active.
Upsert(c) ==
    /\ command[c].op = "store"
    /\ ciphertexts' = [ciphertexts EXCEPT ![command[c].record] = [key |-> command[c].ring.active, secret |-> command[c].secret]]
    /\ outdated' = IF command[c].ring.active = keyring.active THEN outdated \ {command[c].record}
                   ELSE outdated \cup {command[c].record}
    /\ EndCommand(c)
    /\ UNCHANGED <<keyring, retirable, stores, commands>>

Present == {r \in Records : ciphertexts[r].key # 0}

Inactive(ring) == {r \in Present : ciphertexts[r].key # ring.active}

\* The first rows by id, at most a batch of them.
Lowest(S) == {r \in S : Cardinality({q \in S : q < r}) < RotationBatch}

\* The batch is read without a lock; a row whose key the keyring lacks aborts
\* the rotation.
SelectBatch(c) ==
    /\ command[c].op = "select"
    /\ LET ring == command[c].ring
           batch == Lowest(Inactive(ring))
       IN IF batch = {} THEN command' = [command EXCEPT ![c].op = "verify"]
          ELSE IF \E r \in batch : ~Decrypts(ring, ciphertexts[r]) THEN EndCommand(c)
          ELSE command' = [command EXCEPT ![c].op = "update",
                                          ![c].picked = {[record |-> r, was |-> ciphertexts[r]] : r \in batch}]
    /\ UNCHANGED <<ciphertexts, keyring, retirable, outdated, stores, commands>>

StillThere(p) == ciphertexts[p.record].key # 0              \* mutated form
SameKey(p) == ciphertexts[p.record].key = p.was.key

UnderOwnKey(c) ==                                    \* mutated form
    [r \in Records |->
        IF \E p \in command[c].picked : p.record = r /\ SameKey(p)
        THEN (CHOOSE p \in command[c].picked : p.record = r).was
        ELSE ciphertexts[r]]

\* What was read is written back under the active key where the row still
\* carries the key it was read with.
Rewritten(c) ==
    [r \in Records |->
        IF \E p \in command[c].picked : p.record = r /\ SameKey(p)
        THEN [key |-> command[c].ring.active,
              secret |-> (CHOOSE p \in command[c].picked : p.record = r).was.secret]
        ELSE ciphertexts[r]]

\* The updates of a batch commit together, and the next batch is read.
CommitBatch(c) ==
    /\ command[c].op = "update"
    /\ ciphertexts' = Rewritten(c)
    /\ command' = [command EXCEPT ![c].op = "select", ![c].picked = {}]
    /\ UNCHANGED <<keyring, retirable, outdated, stores, commands>>

Decryptable(ring) == \A r \in Present : Decrypts(ring, ciphertexts[r])      \* mutated form
SafeReport(ring) == Inactive(ring) = {} /\ \A r \in Present : Decrypts(ring, ciphertexts[r])

\* The pass ends with a report on every row. The operator acts on one made with
\* the keyring of the file.
Verify(c) ==
    /\ command[c].op = "verify"
    /\ retirable' = (SafeReport(command[c].ring) /\ command[c].ring = keyring)
    /\ outdated' = IF retirable' THEN {} ELSE outdated
    /\ EndCommand(c)
    /\ UNCHANGED <<ciphertexts, keyring, stores, commands>>

\* The operator puts a new active key beside the others ...
NewKey ==
    /\ keyring.active < MaxKeys
    /\ LET k == keyring.active + 1
       IN keyring' = [active |-> k, keys |-> keyring.keys \cup {k}]
    /\ retirable' = FALSE
    /\ UNCHANGED <<ciphertexts, command, outdated, stores, commands>>

\* ... and takes the others out when a report says so.
RetireKeys ==
    /\ retirable /\ keyring.keys # {keyring.active}
    /\ keyring' = [keyring EXCEPT !.keys = {keyring.active}]
    /\ UNCHANGED <<ciphertexts, retirable, command, outdated, stores, commands>>

\* A command is killed; an uncommitted batch is rolled back.
KillCommand(c) ==
    /\ command[c] # NoCommand
    /\ EndCommand(c)
    /\ UNCHANGED <<ciphertexts, keyring, retirable, outdated, stores, commands>>

CommandStep(c) == Upsert(c) \/ SelectBatch(c) \/ CommitBatch(c) \/ Verify(c)

CredentialsInit ==
    /\ ciphertexts = [r \in Records |-> [key |-> 0, secret |-> 0]]
    /\ keyring = [active |-> 1, keys |-> {1}]
    /\ retirable = FALSE /\ outdated = {}
    /\ command = [c \in Commands |-> NoCommand]
    /\ stores = 0 /\ commands = 0

CredentialsNext ==
    \/ \E c \in Commands : \/ \E r \in Records : BeginStore(c, r)
                           \/ BeginRotation(c) \/ CommandStep(c) \/ KillCommand(c)
    \/ NewKey \/ RetireKeys

(* A command goes on unless it is killed.                                  *)
CredentialsSpec ==
  /\ CredentialsInit /\ [][CredentialsNext]_credentialVars
  /\ \A c \in Commands : WF_credentialVars(CommandStep(c))

-----------------------------------------------------------------------------
(* Properties.                                                             *)

\* A row names a key that has been active, a command what it took from a table.
CredentialsTypeOK ==
    /\ \A r \in Records : ciphertexts[r] \in [key : 0..MaxKeys, secret : 0..MaxStores]
    /\ keyring.active \in keyring.keys /\ keyring.keys \subseteq 1..MaxKeys
    /\ \A c \in Commands :
          /\ Cardinality(command[c].picked) <= RotationBatch
          /\ \A p \in command[c].picked : p.was.key \in command[c].ring.keys \ {0}

\* A rotation changes keys and no secret: one stored between its read and its
\* write survives, unless it was stored under the very key that was read (a
\* command with the keyring of before).
RotationKeepsSecrets ==
    [][\A r \in Present :
          ciphertexts'[r].secret # ciphertexts[r].secret =>
             \/ \E c \in Commands : command[c].op = "store" /\ command[c].record = r /\ command'[c] = NoCommand
             \/ \E c \in Commands : \E p \in command[c].picked :
                   p.record = r /\ p.was # ciphertexts[r] /\ p.was.key = ciphertexts[r].key]_credentialVars

\* While a report calls the other keys retirable no credential needs them: no
\* rotation, not even one with an older keyring, brings a row back under them.
\* Only a store by a command that began with an older keyring does.
RetirableMeansRotated ==
    retirable => \A r \in Present \ outdated : ciphertexts[r].key = keyring.active

\* A rotation that is not killed ends: every batch brings it nearer to the
\* active key, and commands that store are few.
RotationEnds ==
    \A c \in Commands : (command[c].op = "select") ~> (command[c] = NoCommand)

\* What a rotation may not do, together: call a key retirable that a row needs,
\* or lose a secret.
CredentialsSafe ==
    /\ []CredentialsTypeOK
    /\ []RetirableMeansRotated
    /\ RotationKeepsSecrets
=============================================================================
