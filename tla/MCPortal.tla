------------------------------ MODULE MCPortal ------------------------------
(***************************************************************************)
(* Small instances, for TLC, of what customers and agents do outside their *)
(* bookings. The five components share no table, so every behaviour is one *)
(* of a single component, chosen at the start (part): their interleavings  *)
(* with each other could show nothing more. The accounts come in two       *)
(* shapes, to stay small: three accounts in all their steps, and four that *)
(* reach, in the steps that give a recruiter, a chain longer than the      *)
(* number of recruiters an override reads.                                 *)
(***************************************************************************)
EXTENDS AgentAccounts, CustomerSessions, PilgrimDocuments, PilgrimLetters, PilgrimRecords, TLC

CONSTANT Keempat  \* the account that is only in the chains

VARIABLE part

(* Registration, an application approved at once, and overrides.            *)
ChainsNext ==
  \/ \E o \in Overriders : OverrideStep(o)
  \/ \E a \in Accounts :
       \/ \E r \in Accounts \cup {NULL} : Register(a, r)
       \/ \E fee \in Fees \ {TRUE} : Ajukan(a, fee)
       \/ Setujui(a) \/ LepasAgenAkun(a)

PortalInit ==
  /\ part \in {"accounts", "chains", "sessions", "documents", "letters", "records"}
  /\ AccountsInit /\ CustomerInit /\ DocumentsInit /\ LettersInit /\ RecordsInit

PortalNext ==
  \/ /\ part = "accounts" /\ AccountsNext /\ akun'[Keempat].status = "absent"
     /\ UNCHANGED <<part, customerVars, documentVars, letterVars, recordVars>>
  \/ /\ part = "chains" /\ ChainsNext
     /\ UNCHANGED <<part, customerVars, documentVars, letterVars, recordVars>>
  \/ /\ part = "sessions" /\ CustomerNext
     /\ UNCHANGED <<part, accountVars, documentVars, letterVars, recordVars>>
  \/ /\ part = "documents" /\ DocumentsNext
     /\ UNCHANGED <<part, accountVars, customerVars, letterVars, recordVars>>
  \/ /\ part = "letters" /\ LettersNext
     /\ UNCHANGED <<part, accountVars, customerVars, documentVars, recordVars>>
  \/ /\ part = "records" /\ RecordsNext
     /\ UNCHANGED <<part, accountVars, customerVars, documentVars, letterVars>>

PortalSpec ==
  PortalInit
    /\ [][PortalNext]_<<part, accountVars, customerVars, documentVars, letterVars, recordVars>>

(* Components share the model values of their ids, so that few permutations  *)
(* make the interchangeable ids of each of them interchangeable.             *)
Alike == UNION {Permutations(S) : S \in {Orang, Merek, Nama, Meja}}

(* In every state: documents with a status and a file for each version, and  *)
(* letters whose numbers differ unless a settings form took the brand's      *)
(* counter back while one was issued.                                        *)
PapersInvariant == DocumentsTypeOK /\ LettersTypeOK /\ LetterNumbersDiffer
=============================================================================
