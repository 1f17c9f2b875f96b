-------------------------- MODULE IdentityManager --------------------------
(***************************************************************************)
(* The identity store: one LevelDB database behind one mutex, holding a    *)
(* record per address ('I' keys) and an index from a claim, that is a      *)
(* service and an identifier on it, to the address that claims it ('S'     *)
(* keys).  Saving an identity is a series of separate database writes made *)
(* under the mutex, so another thread never sees the middle of one but a   *)
(* crash may leave it behind.  AddVerifiedProof and AddPGPKey read under   *)
(* the mutex, release it, edit a private copy, and take the mutex again to *)
(* save, so two of them may interleave.                                    *)
(***************************************************************************)
EXTENDS Naturals, FiniteSets

CONSTANTS Threads, Addresses, Services, Identifiers,
          NoThread, NoAddress, NoIdentifier, NoIdentity,
          PGP,            \* the service name under which key fingerprints are indexed
          ProofStatuses   \* which of "verified", "unverified" a saved proof may have

Claims == Services \X Identifiers

ASSUME IdentityAssumption ==
    /\ NoThread \notin Threads
    /\ NoAddress \notin Addresses
    /\ NoIdentifier \notin Identifiers
    /\ PGP \in Services
    /\ ProofStatuses \subseteq {"verified", "unverified"}

VARIABLES db,     \* [Addresses -> Identity \cup {NoIdentity}]
          index,  \* [Claims -> Addresses \cup {NoAddress}]
          holder, \* the thread inside m_mutex
          call    \* [Threads -> Call]: what each thread is doing

identityVars == <<db, index, holder, call>>

(* A UserIdentity.  AddProof drops the earlier proof of the same service,  *)
(* so there is at most one per service.                                    *)
UserIdentity == [proofs : [Services -> Identifiers \cup {NoIdentifier}],
                 verified : SUBSET Services,
                 pgp : Identifiers \cup {NoIdentifier}]

EmptyIdentity == [proofs |-> [s \in Services |-> NoIdentifier],
                  verified |-> {},
                  pgp |-> NoIdentifier]

ASSUME NoIdentityAssumption == NoIdentity \notin UserIdentity

Ops == {"AddVerifiedProof", "AddPGPKey", "SaveIdentity", "DeleteIdentity"}

(* pc: "idle"; "edited" (holds a copy, mutex free); inside the mutex       *)
(* "erase", "write", "index" are the three parts of SaveIdentity, and      *)
(* "erase", "remove" the two of DeleteIdentity.                            *)
Call == [pc : {"idle", "edited", "erase", "write", "index", "remove"},
         op : Ops,
         addr : Addresses \cup {NoAddress},
         copy : UserIdentity,
         todo : SUBSET Claims]

Idle == [pc |-> "idle", op |-> "SaveIdentity", addr |-> NoAddress,
         copy |-> EmptyIdentity, todo |-> {}]

ProofClaims(u, S) == {c \in Claims : c[1] \in S /\ u.proofs[c[1]] = c[2]}

PGPClaim(u) == {c \in Claims : c[1] = PGP /\ u.pgp = c[2]}

(* What UpdateServiceIndex writes, and what RemoveServiceIndex erases.     *)
IndexedClaims(u) == ProofClaims(u, u.verified) \cup PGPClaim(u)

(* Mutant: RemoveServiceIndex forgets the PGP fingerprint.                 *)
ErasedClaims_NoPGP(u) == ProofClaims(u, Services)

ErasedClaims(u) == ProofClaims(u, Services) \cup PGPClaim(u)

WithProof(u, s, i, st) ==
    [u EXCEPT !.proofs[s] = i,
              !.verified = IF st = "verified" THEN @ \cup {s} ELSE @ \ {s}]

WithoutProof(u, s) == [u EXCEPT !.proofs[s] = NoIdentifier, !.verified = @ \ {s}]

WithPGPKey(u, f) == [u EXCEPT !.pgp = f]

-----------------------------------------------------------------------------
IdentityInit ==
    /\ db = [a \in Addresses |-> NoIdentity]
    /\ index = [c \in Claims |-> NoAddress]
    /\ holder = NoThread
    /\ call = [t \in Threads |-> Idle]

(* Under the mutex, and released before it returns.                        *)
GetIdentity(a) == IF db[a] = NoIdentity THEN EmptyIdentity ELSE db[a]

Edited(t, op, a, u) ==
    /\ call[t].pc = "idle"
    /\ holder = NoThread
    /\ call' = [call EXCEPT ![t] = [pc |-> "edited", op |-> op, addr |-> a,
                                    copy |-> u, todo |-> {}]]
    /\ UNCHANGED <<db, index, holder>>

AddVerifiedProof(t, a, s, i) ==
    Edited(t, "AddVerifiedProof", a, WithProof(GetIdentity(a), s, i, "verified"))

AddPGPKey(t, a, f) ==
    Edited(t, "AddPGPKey", a, WithPGPKey(GetIdentity(a), f))

(* A caller that edits the identity itself and saves it.                   *)
EditIdentity(t, a) ==
    \/ \E s \in Services, i \in Identifiers, st \in ProofStatuses :
          Edited(t, "SaveIdentity", a, WithProof(GetIdentity(a), s, i, st))
    \/ \E s \in Services :
          Edited(t, "SaveIdentity", a, WithoutProof(GetIdentity(a), s))
    \/ Edited(t, "SaveIdentity", a, WithPGPKey(GetIdentity(a), NoIdentifier))

(* What must be erased before the record of a changes: nothing when there  *)
(* is no old record.                                                       *)
OldClaims(a) == IF db[a] = NoIdentity THEN {} ELSE ErasedClaims(db[a])

(* SaveIdentity, lines 41-49: take the mutex, read the old record.         *)
BeginSave(t) ==
    /\ call[t].pc = "edited"
    /\ holder = NoThread
    /\ holder' = t
    /\ call' = [call EXCEPT ![t].pc = "erase", ![t].todo = OldClaims(call[t].addr)]
    /\ UNCHANGED <<db, index>>

BeginDelete(t, a) ==
    /\ call[t].pc = "idle"
    /\ holder = NoThread
    /\ holder' = t
    /\ call' = [call EXCEPT ![t] = [pc |-> "erase", op |-> "DeleteIdentity", addr |-> a,
                                    copy |-> EmptyIdentity, todo |-> OldClaims(a)]]
    /\ UNCHANGED <<db, index>>

(* One m_db->Erase of RemoveServiceIndex.  It does not look at whom the    *)
(* entry names.                                                            *)
EraseClaim(t) ==
    /\ call[t].pc = "erase"
    /\ \E c \in call[t].todo :
          /\ index' = [index EXCEPT ![c] = NoAddress]
          /\ call' = [call EXCEPT ![t].todo = @ \ {c}]
    /\ UNCHANGED <<db, holder>>

AfterErase(t) == IF call[t].op = "DeleteIdentity" THEN "remove" ELSE "write"

EndErase(t) ==
    /\ call[t].pc = "erase"
    /\ call[t].todo = {}
    /\ call' = [call EXCEPT ![t].pc = AfterErase(t)]
    /\ UNCHANGED <<db, index, holder>>

WriteIdentity(t) ==
    /\ call[t].pc = "write"
    /\ db' = [db EXCEPT ![call[t].addr] = call[t].copy]
    /\ call' = [call EXCEPT ![t].pc = "index", ![t].todo = IndexedClaims(call[t].copy)]
    /\ UNCHANGED <<index, holder>>

(* One m_db->Write of UpdateServiceIndex: it replaces whatever address     *)
(* held the claim.                                                         *)
IndexClaim(t) ==
    /\ call[t].pc = "index"
    /\ \E c \in call[t].todo :
          /\ index' = [index EXCEPT ![c] = call[t].addr]
          /\ call' = [call EXCEPT ![t].todo = @ \ {c}]
    /\ UNCHANGED <<db, holder>>

EndSave(t) ==
    /\ call[t].pc = "index"
    /\ call[t].todo = {}
    /\ holder' = NoThread
    /\ call' = [call EXCEPT ![t] = Idle]
    /\ UNCHANGED <<db, index>>

RemoveIdentity(t) ==
    /\ call[t].pc = "remove"
    /\ db' = [db EXCEPT ![call[t].addr] = NoIdentity]
    /\ holder' = NoThread
    /\ call' = [call EXCEPT ![t] = Idle]
    /\ UNCHANGED index

(* The process dies: the database keeps the writes made so far.            *)
IdentityCrash ==
    /\ \E t \in Threads : call[t].pc # "idle"
    /\ holder' = NoThread
    /\ call' = [t \in Threads |-> Idle]
    /\ UNCHANGED <<db, index>>

Locked(t) ==
    \/ BeginSave(t)
    \/ EraseClaim(t)
    \/ EndErase(t)
    \/ WriteIdentity(t)
    \/ IndexClaim(t)
    \/ EndSave(t)
    \/ RemoveIdentity(t)

Request(t) ==
    \/ \E a \in Addresses, s \in Services, i \in Identifiers : AddVerifiedProof(t, a, s, i)
    \/ \E a \in Addresses, f \in Identifiers : AddPGPKey(t, a, f)
    \/ \E a \in Addresses : EditIdentity(t, a)
    \/ \E a \in Addresses : BeginDelete(t, a)

IdentityNext == IdentityCrash \/ \E t \in Threads : Request(t) \/ Locked(t)

IdentitySpec == IdentityInit /\ [][IdentityNext]_identityVars

-----------------------------------------------------------------------------
LookupByService(c) == IF index[c] = NoAddress THEN NoIdentity ELSE db[index[c]]

-----------------------------------------------------------------------------
IdentityTypeOK ==
    /\ db \in [Addresses -> UserIdentity \cup {NoIdentity}]
    /\ index \in [Claims -> Addresses \cup {NoAddress}]
    /\ holder \in Threads \cup {NoThread}
    /\ call \in [Threads -> Call]

(* A lookup never names an address that does not hold the claim: whatever  *)
(* saves and deletions interleave, and wherever a crash cuts one short,    *)
(* an index entry written by UpdateServiceIndex leads to a stored identity *)
(* that has this verified proof or this PGP key.                           *)
IndexSound ==
    \A c \in Claims :
        index[c] # NoAddress =>
            /\ LookupByService(c) # NoIdentity
            /\ c \in IndexedClaims(LookupByService(c))
=============================================================================
