---------------------------- MODULE LibraryProofs ----------------------------
(***************************************************************************)
(* Proofs about Library, for every number of providers and recipients, of   *)
(* Works, conversations and entries of the log.                             *)
(*                                                                          *)
(* ProviderRegistry.  An operation is a sequence of calls, and others run   *)
(* between them: of each call it is stated what the ones before it have     *)
(* left true (Staged, Fresh, Named, UpToDate).  While no recipient was put  *)
(* in beside the deletion of its profile, what was validated is stored, and *)
(* a profile about to go has no recipient (Sound).  A key is where its      *)
(* profile says, or as the copy of the window says that is at work on the   *)
(* profile (Keyed).                                                         *)
(*                                                                          *)
(* Attention.  What is asked of the user is computed from the log: every    *)
(* status belongs to an entry that is there, and an entry only points back  *)
(* (AskInv).                                                                *)
(*                                                                          *)
(* ContextGraph.  A graph that is built between two writes has what the     *)
(* records have (GraphInv).  A traversal is a search: it is proved of its    *)
(* recursions, for every graph and all bounds, that what it has taken or     *)
(* queued is joined to the root at the depth it says and that nothing nearer *)
(* is left out (Searched), and of the graph of the records what is next to   *)
(* what in it (EdgeShape).                                                  *)
(*                                                                          *)
(* ContextAssembly.  The package is what the recursions of its bounds make   *)
(* of the candidates in their order (PackageInv).                           *)
(*                                                                          *)
(* The recursive functions are known by induction, which is the least number *)
(* of a set said of sets and of functions.                                  *)
(***************************************************************************)
EXTENDS Library, FiniteSetTheorems, SequenceTheorems, WellFoundedInduction, TLAPS

-----------------------------------------------------------------------------
(* ProviderRegistry: the invariant *)

Jobs == Registry!Jobs

\* What an operation is in, at each of its calls.
Staged(p, j) ==
    \/ /\ j.op = "new" /\ j.at \in {"create", "validate", "insert"}
       /\ j.f # None /\ j.copy \in Registry!ProfileRecord
       /\ j.at # "create" => j.r # None
       /\ p # Window => j.r = None /\ j.copy.cred # "own"
    \/ /\ j.op = "edit" /\ j.at \in {"set_key", "version", "commit"}
       /\ j.f # None /\ j.r = None /\ j.copy \in Registry!ProfileRecord
       /\ j.at = "set_key" => p = Window /\ j.copy.cred = "own"
    \/ j.op = "recipient" /\ j.at \in {"validate", "insert"} /\ j.f # None /\ j.r # None
    \/ /\ j.op = "toggle" /\ j.at \in {"validate", "version", "commit"}
       /\ j.f # None /\ j.r # None
       /\ j.copy \in Registry!RecipientRecord /\ j.copy.profile = j.f
    \/ j.op = "drop" /\ j.at = "delete_recipient" /\ j.f = None /\ j.r # None
    \/ /\ j.op = "delete" /\ j.f # None /\ j.copy \in Registry!ProfileRecord
       /\ j.at \in {"next", "delete_recipient", "list", "get", "delete", "delete_key"}
       /\ j.at = "delete_recipient" => j.r # None
       /\ j.at = "delete_key" => p = Window

\* Each operation is where its calls can have brought it.
InStage == \A p \in Registry!Procs : job[p] # None => Staged(p, job[p])

\* A job that is to make a record is the only one that names it.
Fresh ==
    \A p \in Registry!Procs : job[p] # None =>
        /\ job[p].at = "create" =>
               /\ ~Registry!Stored(job[p].f) /\ job[p].f \notin gone
               /\ \A q \in Registry!Procs \ {p} : job[q] # None => job[q].f # job[p].f
        /\ job[p].op \in {"new", "recipient"} /\ job[p].r # None =>
               /\ ~Registry!Exists(job[p].r) /\ job[p].r \notin gone
               /\ \A q \in Registry!Procs \ {p} : job[q] # None => job[q].r # job[p].r

\* Every other one that is named is stored, or was.
KnownProfile(f)   == Registry!Stored(f) \/ f \in gone
KnownRecipient(r) == Registry!Exists(r) \/ r \in gone
Named ==
    /\ \A r \in Recipients : Registry!Exists(r) => KnownProfile(recipients[r].profile)
    /\ \A p \in Registry!Procs : job[p] # None =>
           /\ job[p].at # "create" /\ job[p].f # None => KnownProfile(job[p].f)
           /\ job[p].op \in {"toggle", "drop", "delete"} /\ job[p].r # None =>
                  KnownRecipient(job[p].r)
           /\ \A r \in job[p].deps : KnownRecipient(r)

\* A version that is current is that of a record that is still there; the profile of
\* a recipient does not change.
UpToDate ==
    \A p \in Registry!Procs : job[p] # None =>
        /\ job[p].at = "commit" /\ job[p].current =>
               IF job[p].r = None THEN Registry!Stored(job[p].f) ELSE Registry!Exists(job[p].r)
        /\ job[p].op = "toggle" /\ Registry!Exists(job[p].r) =>
               recipients[job[p].r].profile = job[p].f

\* Unless a recipient was put in while its profile was being deleted: what was
\* validated is still stored, and a profile about to be deleted has no recipient.
Validated ==
    \A p \in Registry!Procs : job[p] # None =>
        /\ job[p].at = "insert" => Registry!Stored(job[p].f)
        /\ job[p].at \in {"get", "delete"} => Registry!Unused(job[p].f)
Sound == crossed \/ (Registry!RecipientsHaveProfiles /\ Validated)

\* While the window is between the record and its key, the key is as the copy says.
Owns(f) == Registry!Stored(f) /\ profiles[f].cred = "own"
Pending(f) ==
    /\ job[Window] # None /\ job[Window].f = f
    /\ \/ job[Window].at \in {"create", "delete_key"}
       \/ job[Window].op = "edit" /\ job[Window].at \in {"version", "commit"}
KeyedAsNeeded(f) == f \in keys <=> IF Pending(f) THEN job[Window].copy.cred = "own" ELSE Owns(f)
DeletedAsRead(f) ==
    job[Window] # None /\ job[Window].f = f /\ job[Window].op = "delete" =>
        IF job[Window].at = "delete_key" THEN ~Registry!Stored(f)
        ELSE Registry!Stored(f) /\ profiles[f].cred = job[Window].copy.cred
\* Every profile whose write was not torn has its key.
Keyed == \A f \in Profiles \ torn : KeyedAsNeeded(f) /\ DeletedAsRead(f)

\* What the registry keeps between any two calls.
RegistryInv ==
    /\ Registry!TypeOK /\ InStage /\ Fresh /\ Named /\ Registry!DeletedStaysDeleted
    /\ UpToDate /\ Sound /\ Keyed

\* A job that goes on, but that its version may have become old.
Kept(q) ==
    IF job[q] = None THEN job'[q] = None
    ELSE /\ job'[q] # None
         /\ job'[q].op = job[q].op /\ job'[q].at = job[q].at /\ job'[q].f = job[q].f
         /\ job'[q].r = job[q].r /\ job'[q].copy = job[q].copy /\ job'[q].deps = job[q].deps
         /\ job'[q].current => job[q].current
\* Every job but that of p goes on.
Others(p) == \A q \in Registry!Procs \ {p} : Kept(q)

\* A process that goes on leaves the jobs of the others,
LEMMA Go ==
  ASSUME Registry!TypeOK, NEW p \in Registry!Procs, NEW next \in Jobs \cup {None},
         Registry!Go(p, next)
  PROVE  /\ job' \in [Registry!Procs -> Jobs \cup {None}] /\ job'[p] = next /\ Others(p)
         /\ \A q \in Registry!Procs \ {p} : job'[q] = job[q]
  <1>1. /\ job' \in [Registry!Procs -> Jobs \cup {None}] /\ job'[p] = next
        /\ \A q \in Registry!Procs \ {p} : job'[q] = job[q]
    BY DEF Registry!Go, Registry!TypeOK, Jobs
  <1> QED
    BY <1>1 DEF Others, Kept

\* and one that wrote makes the versions they have of that record old.
LEMMA Wrote ==
  ASSUME Registry!TypeOK, NEW p \in Registry!Procs, NEW next \in Jobs \cup {None},
         NEW id, Registry!Wrote(p, next, id)
  PROVE  /\ job' \in [Registry!Procs -> Jobs \cup {None}] /\ job'[p] = next /\ Others(p)
         /\ \A q \in Registry!Procs \ {p} :
                job[q] # None /\ id \in {job[q].f, job[q].r} => ~job'[q].current
  <1>1. /\ job'[p] = next
        /\ \A q \in Registry!Procs \ {p} :
               job'[q] = IF job[q] = None \/ id \notin {job[q].f, job[q].r} THEN job[q]
                         ELSE [job[q] EXCEPT !.current = FALSE]
    BY DEF Registry!Wrote
  <1>2. ASSUME NEW q \in Registry!Procs \ {p}, job[q] # None, id \in {job[q].f, job[q].r}
        PROVE  job'[q] \in Jobs /\ Kept(q) /\ ~job'[q].current
    <2>1. job[q] \in Jobs /\ job'[q] = [job[q] EXCEPT !.current = FALSE]
      BY <1>1, <1>2 DEF Registry!TypeOK, Jobs
    <2>2. job'[q] \in Jobs
      BY <2>1 DEF Jobs, Registry!Jobs
    <2>3. /\ job'[q].op = job[q].op /\ job'[q].at = job[q].at /\ job'[q].f = job[q].f
          /\ job'[q].r = job[q].r /\ job'[q].copy = job[q].copy /\ job'[q].deps = job[q].deps
          /\ job'[q].current = FALSE
      BY <2>1 DEF Jobs, Registry!Jobs
    <2> QED
      BY <1>2, <2>2, <2>3, RegistryAssumption DEF Kept, Jobs
  <1>3. \A q \in Registry!Procs \ {p} : ~(job[q] # None /\ id \in {job[q].f, job[q].r}) =>
            job'[q] = job[q] /\ Kept(q)
    BY <1>1 DEF Kept
  <1>4. \A q \in Registry!Procs : job'[q] \in Jobs \cup {None}
    BY <1>1, <1>2, <1>3 DEF Registry!TypeOK, Jobs
  <1>5. DOMAIN job' = Registry!Procs /\ job' = [q \in Registry!Procs |-> job'[q]]
    BY DEF Registry!Wrote
  <1> QED
    BY <1>1, <1>2, <1>3, <1>4, <1>5 DEF Others

\* A profile that is switched on or off keeps its credential,
LEMMA Toggled ==
  ASSUME NEW x \in Registry!ProfileRecord
  PROVE  /\ [x EXCEPT !.enabled = ~@] \in Registry!ProfileRecord
         /\ [x EXCEPT !.enabled = ~@].cred = x.cred
  BY DEF Registry!ProfileRecord

\* and a recipient its profile.
LEMMA ToggledRecipient ==
  ASSUME NEW x \in Registry!RecipientRecord
  PROVE  /\ [x EXCEPT !.enabled = ~@] \in Registry!RecipientRecord
         /\ [x EXCEPT !.enabled = ~@].profile = x.profile
  BY DEF Registry!RecipientRecord

\* The key of a profile the window is not at work on, and which does not change.
LEMMA KeyKept ==
  ASSUME RegistryInv, NEW x \in Profiles, x \notin torn, x \in keys' <=> x \in keys,
         profiles'[x] = profiles[x], Kept(Window)
  PROVE  KeyedAsNeeded(x)' /\ DeletedAsRead(x)'
  BY DEF RegistryInv, Keyed, KeyedAsNeeded, DeletedAsRead, Pending, Owns, Kept,
         Registry!Stored

\* The window adds a provider with its recipient,
LEMMA NewProviderKeeps ==
  ASSUME RegistryInv, NEW f \in Profiles, NEW r \in Recipients, Registry!NewProvider(f, r)
  PROVE  RegistryInv'
  <1>1. CASE /\ Registry!NewProvider(f, r)
              /\ keys' = keys \cup {f} /\ Registry!Go(Window, [Registry!Job("new", "create", f, r) EXCEPT !.copy = Registry!Profile("own", TRUE)])
    <2> DEFINE next == [Registry!Job("new", "create", f, r) EXCEPT !.copy = Registry!Profile("own", TRUE)]
    <2>1. next \in Jobs
        BY <1>1, RegistryAssumption
        DEF RegistryInv, InStage, Staged, Registry!NewProvider, Registry!Idle,
            Registry!Stored, Registry!Taken, Registry!Exists, Registry!Job,
            Registry!Profile, Registry!Creds, Registry!TypeOK, Registry!Jobs,
            Jobs, Registry!ProfileRecord, Registry!RecipientRecord,
            Registry!Procs
    <2>2. /\ next.op = "new"
          /\ next.at = "create"
          /\ next.f = f
          /\ next.r = r
          /\ next.copy = Registry!Profile("own", TRUE)
          /\ next.deps = {}
          /\ next.current = FALSE
          /\ next.copy.cred = "own"
        BY DEF Registry!Job, Registry!Profile
    <2>3. /\ Registry!Go(Window, next)
          /\ UNCHANGED <<profiles, recipients, gone, crossed, torn>>
          /\ keys' = keys \cup {f}
          /\ job[Window] = None
          /\ ~Registry!Stored(f)
        BY <1>1 DEF Registry!NewProvider, Registry!Idle, Registry!store
    <2> HIDE DEF next
    <2>4. /\ job' \in [Registry!Procs -> Jobs \cup {None}]
          /\ job'[Window] = next /\ Others(Window)
        BY <2>1, <2>3, Go DEF RegistryInv, Registry!Procs
    <2>5. Registry!TypeOK'
        BY <2>3, <2>4 DEF RegistryInv, Registry!TypeOK, Jobs
    <2>6. InStage'
      <3>1. next.copy \in Registry!ProfileRecord /\ next.f # None /\ next.r # None
        BY <2>2, RegistryAssumption
        DEF Registry!ProfileRecord, Registry!Profile, Registry!Creds
      <3>2. Staged(Window, next)
        BY <3>1, <2>2 DEF Staged
      <3> QED
        BY <3>2, <2>4 DEF RegistryInv, InStage, Staged, Others, Kept
    <2>7. Fresh'
        BY <1>1
        DEF RegistryInv, Registry!Stored, Registry!Taken, Registry!Exists,
            Registry!Go, Registry!Job, Registry!Profile, Registry!NewProvider,
            Registry!store, Fresh
    <2>8. Named'
        BY <1>1
        DEF RegistryInv, Registry!Stored, Registry!Exists, Registry!Go,
            Registry!Job, Registry!Profile, Registry!NewProvider,
            Registry!store, Named, KnownProfile, KnownRecipient
    <2>9. Registry!DeletedStaysDeleted'
        BY DEF RegistryInv, Registry!Stored, Registry!Exists,
               Registry!NewProvider, Registry!store,
               Registry!DeletedStaysDeleted
    <2>10. UpToDate'
        BY <1>1
        DEF RegistryInv, Registry!Stored, Registry!Exists, Registry!Go,
            Registry!Job, Registry!Profile, Registry!NewProvider,
            Registry!store, UpToDate
    <2>11. Sound'
        BY <1>1, RegistryAssumption
        DEF RegistryInv, Registry!TypeOK, InStage, Staged, Registry!Idle,
            Registry!Stored, Registry!Taken, Registry!Exists, Registry!Go,
            Registry!Job, Registry!Profile, Registry!Creds,
            Registry!NewProvider, Registry!store, Registry!Jobs,
            Registry!ProfileRecord, Registry!RecipientRecord, Sound, Validated,
            Registry!RecipientsHaveProfiles, Registry!Unused,
            Registry!Dependents
    <2>12. Keyed'
      <3> SUFFICES ASSUME NEW x \in Profiles \ torn'
                   PROVE  KeyedAsNeeded(x)' /\ DeletedAsRead(x)'
        BY DEF Keyed
      <3>1. KeyedAsNeeded(x) /\ DeletedAsRead(x)
        BY <2>3 DEF RegistryInv, Keyed
      <3>2. next # None
        BY <2>1, <2>2, RegistryAssumption DEF Jobs
      <3> QED
        BY <3>1, <3>2, <2>2, <2>3, <2>4
        DEF KeyedAsNeeded, DeletedAsRead, Pending, Owns, Registry!Stored
    <2> QED
        BY <2>5, <2>6, <2>7, <2>8, <2>9, <2>10, <2>11, <2>12 DEF RegistryInv
  <1>2. CASE /\ Registry!NewProvider(f, r)
              /\ UNCHANGED keys /\ Registry!Go(Window, [Registry!Job("new", "create", f, r) EXCEPT !.copy = Registry!Profile("none", TRUE)])
    <2> DEFINE next == [Registry!Job("new", "create", f, r) EXCEPT !.copy = Registry!Profile("none", TRUE)]
    <2>1. next \in Jobs
        BY <1>2, RegistryAssumption
        DEF RegistryInv, InStage, Staged, Registry!NewProvider, Registry!Idle,
            Registry!Stored, Registry!Taken, Registry!Exists, Registry!Job,
            Registry!Profile, Registry!Creds, Registry!TypeOK, Registry!Jobs,
            Jobs, Registry!ProfileRecord, Registry!RecipientRecord,
            Registry!Procs
    <2>2. /\ next.op = "new"
          /\ next.at = "create"
          /\ next.f = f
          /\ next.r = r
          /\ next.copy = Registry!Profile("none", TRUE)
          /\ next.deps = {}
          /\ next.current = FALSE
          /\ next.copy.cred = "none"
        BY DEF Registry!Job, Registry!Profile
    <2>3. /\ Registry!Go(Window, next)
          /\ UNCHANGED <<profiles, recipients, keys, gone, crossed, torn>>
          /\ job[Window] = None
          /\ ~Registry!Stored(f)
        BY <1>2 DEF Registry!NewProvider, Registry!Idle, Registry!store
    <2> HIDE DEF next
    <2>4. /\ job' \in [Registry!Procs -> Jobs \cup {None}]
          /\ job'[Window] = next /\ Others(Window)
        BY <2>1, <2>3, Go DEF RegistryInv, Registry!Procs
    <2>5. Registry!TypeOK'
        BY <2>3, <2>4 DEF RegistryInv, Registry!TypeOK, Jobs
    <2>6. InStage'
      <3>1. next.copy \in Registry!ProfileRecord /\ next.f # None /\ next.r # None
        BY <2>2, RegistryAssumption
        DEF Registry!ProfileRecord, Registry!Profile, Registry!Creds
      <3>2. Staged(Window, next)
        BY <3>1, <2>2 DEF Staged
      <3> QED
        BY <3>2, <2>4 DEF RegistryInv, InStage, Staged, Others, Kept
    <2>7. Fresh'
        BY <1>2
        DEF RegistryInv, Registry!Stored, Registry!Taken, Registry!Exists,
            Registry!Go, Registry!Job, Registry!Profile, Registry!NewProvider,
            Registry!store, Fresh
    <2>8. Named'
        BY <1>2
        DEF RegistryInv, Registry!Stored, Registry!Exists, Registry!Go,
            Registry!Job, Registry!Profile, Registry!NewProvider,
            Registry!store, Named, KnownProfile, KnownRecipient
    <2>9. Registry!DeletedStaysDeleted'
        BY DEF RegistryInv, Registry!Stored, Registry!Exists,
               Registry!NewProvider, Registry!store,
               Registry!DeletedStaysDeleted
    <2>10. UpToDate'
        BY DEF RegistryInv, Registry!TypeOK, Registry!Stored, Registry!Exists,
               Registry!Go, Registry!Job, Registry!Profile,
               Registry!NewProvider, Registry!store, UpToDate
    <2>11. Sound'
        BY <1>2, RegistryAssumption
        DEF RegistryInv, Registry!TypeOK, InStage, Staged, Registry!Idle,
            Registry!Stored, Registry!Taken, Registry!Exists, Registry!Go,
            Registry!Job, Registry!Profile, Registry!Creds,
            Registry!NewProvider, Registry!store, Registry!Jobs,
            Registry!ProfileRecord, Registry!RecipientRecord, Registry!Procs,
            Sound, Validated, UpToDate, Fresh, Registry!RecipientsHaveProfiles,
            Registry!Unused, Registry!Dependents
    <2>12. Keyed'
      <3> SUFFICES ASSUME NEW x \in Profiles \ torn'
                   PROVE  KeyedAsNeeded(x)' /\ DeletedAsRead(x)'
        BY DEF Keyed
      <3>1. KeyedAsNeeded(x) /\ DeletedAsRead(x)
        BY <2>3 DEF RegistryInv, Keyed
      <3>2. next # None
        BY <2>1, <2>2, RegistryAssumption DEF Jobs
      <3> QED
        BY <3>1, <3>2, <2>2, <2>3, <2>4
        DEF KeyedAsNeeded, DeletedAsRead, Pending, Owns, Registry!Stored
    <2> QED
        BY <2>5, <2>6, <2>7, <2>8, <2>9, <2>10, <2>11, <2>12 DEF RegistryInv
  <1> QED
    BY <1>1, <1>2 DEF Registry!NewProvider

\* and a command a profile alone.
LEMMA NewProfileKeeps ==
  ASSUME RegistryInv, NEW p \in Registry!Procs, NEW f \in Profiles, NEW cred \in Registry!Creds,
         Registry!NewProfile(p, f, cred)
  PROVE  RegistryInv'
  <1> USE RegistryAssumption DEF RegistryInv, Registry!TypeOK, InStage, Staged, Registry!Idle,
     Registry!Stored, Registry!Taken, Registry!Exists, Registry!Go, Registry!Job,
     Registry!Profile, Registry!Creds, Registry!NewProfile, Registry!store, Registry!Jobs,
     Registry!ProfileRecord, Registry!RecipientRecord, Registry!Procs
  <1>1. Registry!TypeOK'
    BY DEF Registry!Creds
  <1>2. InStage'
    BY DEF Registry!Creds
  <1>3. Fresh'
    BY DEF Fresh, Registry!Stored, Registry!Exists, Named, KnownProfile,
           KnownRecipient
  <1>4. Named'
    BY DEF Named, KnownProfile, KnownRecipient, Registry!Stored,
           Registry!Exists, Registry!Dependents
  <1>5. Registry!DeletedStaysDeleted'
    BY DEF Registry!DeletedStaysDeleted, Fresh, UpToDate, Registry!Stored,
           Registry!Exists
  <1>6. UpToDate'
    BY DEF UpToDate, Registry!Stored, Registry!Exists, Fresh
  <1>7. Sound'
    BY DEF Sound, Validated, UpToDate, Fresh, Registry!RecipientsHaveProfiles,
           Registry!Unused, Registry!Dependents, Registry!Stored,
           Registry!Exists
  <1>8. Keyed'
    BY DEF Keyed, KeyedAsNeeded, DeletedAsRead, Pending, Owns, Fresh
  <1> QED
    BY <1>1, <1>2, <1>3, <1>4, <1>5, <1>6, <1>7, <1>8

\* The window edits a provider, with a new key or without.
LEMMA EditProviderKeeps ==
  ASSUME RegistryInv, NEW f \in Profiles, NEW withKey \in BOOLEAN, Registry!EditProvider(f,
         withKey)
  PROVE  RegistryInv'
  <1> DEFINE cred == IF withKey /\ profiles[f].cred = "none" THEN "own" ELSE profiles[f].cred
  <1> DEFINE next == [Registry!Job("edit", IF withKey /\ cred = "own" THEN "set_key" ELSE "version", f, None)
                     EXCEPT !.copy = [profiles[f] EXCEPT !.cred = cred]]
  <1>1. next \in Jobs
    <2>1. [profiles[f] EXCEPT !.cred = cred] \in Registry!ProfileRecord
      BY DEF RegistryInv, Registry!EditProvider, Registry!Stored,
             Registry!Creds, Registry!TypeOK, Registry!ProfileRecord
    <2> QED
      BY <2>1 DEF Jobs, Registry!Jobs, Registry!Job
  <1>2. /\ next.op = "edit"
        /\ next.at = (IF withKey /\ cred = "own" THEN "set_key" ELSE "version")
        /\ next.f = f
        /\ next.r = None
        /\ next.deps = {}
        /\ next.current = FALSE
        /\ next.copy \in Registry!ProfileRecord
        /\ next.copy.cred = cred
      BY DEF RegistryInv, Registry!EditProvider, Registry!Stored, Registry!Job,
             Registry!Creds, Registry!TypeOK, Registry!ProfileRecord
  <1>3. /\ Registry!Go(Window, next)
        /\ UNCHANGED <<profiles, recipients, keys, gone, crossed, torn>>
      BY DEF Registry!EditProvider, Registry!store
  <1> HIDE DEF next
  <1>4. /\ job' \in [Registry!Procs -> Jobs \cup {None}]
        /\ job'[Window] = next /\ Others(Window)
      BY <1>1, <1>3, Go DEF RegistryInv, Registry!Procs
  <1>5. Registry!TypeOK'
      BY <1>3, <1>4 DEF RegistryInv, Registry!TypeOK, Jobs
  <1>6. InStage'
      BY DEF RegistryInv, Registry!TypeOK, InStage, Staged, Registry!Stored,
             Registry!Go, Registry!Job, Registry!Creds, Registry!EditProvider,
             Registry!ProfileRecord
  <1>7. Fresh'
      BY DEF RegistryInv, Registry!Stored, Registry!Go, Registry!Job,
             Registry!EditProvider, Registry!store, Fresh, Registry!Exists
  <1>8. Named'
      BY DEF RegistryInv, Registry!Stored, Registry!Go, Registry!Job,
             Registry!EditProvider, Registry!store, Named, KnownProfile,
             KnownRecipient, Registry!Exists
  <1>9. Registry!DeletedStaysDeleted'
      BY DEF RegistryInv, Registry!Stored, Registry!EditProvider,
             Registry!store, Registry!DeletedStaysDeleted, Registry!Exists
  <1>10. UpToDate'
      BY DEF RegistryInv, Registry!Stored, Registry!Go, Registry!Job,
             Registry!EditProvider, Registry!store, UpToDate, Registry!Exists
  <1>11. Sound'
      BY RegistryAssumption
      DEF RegistryInv, Registry!TypeOK, InStage, Staged, Registry!Idle,
          Registry!Stored, Registry!Go, Registry!Job, Registry!Profile,
          Registry!Creds, Registry!EditProvider, Registry!store, Registry!Jobs,
          Registry!ProfileRecord, Registry!RecipientRecord, Sound, Validated,
          Registry!RecipientsHaveProfiles, Registry!Unused, Registry!Dependents,
          Registry!Exists
  <1>12. Keyed'
      BY DEF RegistryInv, Registry!Idle, Registry!Stored, Registry!Go,
             Registry!Job, Registry!EditProvider, Registry!store, Keyed,
             KeyedAsNeeded, DeletedAsRead, Pending, Owns
  <1> QED
      BY <1>5, <1>6, <1>7, <1>8, <1>9, <1>10, <1>11, <1>12 DEF RegistryInv

\* A provider is switched on or off.
LEMMA ToggleProviderKeeps ==
  ASSUME RegistryInv, NEW p \in Registry!Procs, NEW f \in Profiles, Registry!ToggleProvider(p, f)
  PROVE  RegistryInv'
  <1> DEFINE next == [Registry!Job("edit", "version", f, None)
                     EXCEPT !.copy = [profiles[f] EXCEPT !.enabled = ~@]]
  <1>1. next \in Jobs
    <2>1. [profiles[f] EXCEPT !.enabled = ~@] \in Registry!ProfileRecord
      BY Toggled
      DEF RegistryInv, Registry!ToggleProvider, Registry!Stored, Registry!TypeOK
    <2> QED
      BY <2>1 DEF Jobs, Registry!Jobs, Registry!Job
  <1>2. /\ next.op = "edit"
        /\ next.at = "version"
        /\ next.f = f
        /\ next.r = None
        /\ next.deps = {}
        /\ next.current = FALSE
        /\ next.copy \in Registry!ProfileRecord
        /\ next.copy.cred = profiles[f].cred
    BY Toggled
    DEF RegistryInv, Registry!TypeOK, Registry!ToggleProvider, Registry!Stored,
        Registry!Job
  <1>3. /\ Registry!Go(p, next)
        /\ UNCHANGED <<profiles, recipients, keys, gone, crossed, torn>>
      BY RegistryAssumption
      DEF Registry!ToggleProvider, Registry!Idle, Registry!Stored, Registry!Job,
          Registry!Creds, Registry!store
  <1> HIDE DEF next
  <1>4. /\ job' \in [Registry!Procs -> Jobs \cup {None}]
        /\ job'[p] = next /\ Others(p)
      BY <1>1, <1>3, Go DEF RegistryInv, Registry!Procs
  <1>5. Registry!TypeOK'
      BY <1>3, <1>4 DEF RegistryInv, Registry!TypeOK, Jobs
  <1>6. InStage'
      BY <1>2, <1>4, RegistryAssumption
      DEF RegistryInv, InStage, Staged, Others, Kept
  <1>7. Fresh'
      BY DEF RegistryInv, Registry!Stored, Registry!Go, Registry!Job,
             Registry!ToggleProvider, Registry!store, Fresh, Registry!Exists
  <1>8. Named'
      BY DEF RegistryInv, Registry!Stored, Registry!Go, Registry!Job,
             Registry!ToggleProvider, Registry!store, Named, KnownProfile,
             KnownRecipient, Registry!Exists
  <1>9. Registry!DeletedStaysDeleted'
      BY DEF RegistryInv, Registry!Stored, Registry!ToggleProvider,
             Registry!store, Registry!DeletedStaysDeleted, Registry!Exists
  <1>10. UpToDate'
      BY DEF RegistryInv, Registry!Stored, Registry!Go, Registry!Job,
             Registry!ToggleProvider, Registry!store, UpToDate, Registry!Exists
  <1>11. Sound'
      BY RegistryAssumption
      DEF RegistryInv, Registry!TypeOK, InStage, Staged, Registry!Idle,
          Registry!Stored, Registry!Go, Registry!Job, Registry!Creds,
          Registry!ToggleProvider, Registry!store, Registry!Jobs,
          Registry!ProfileRecord, Registry!RecipientRecord, Sound, Validated,
          Registry!RecipientsHaveProfiles, Registry!Unused, Registry!Dependents,
          Registry!Exists
  <1>12. Keyed'
      BY DEF RegistryInv, Registry!Idle, Registry!Stored, Registry!Go,
             Registry!Job, Registry!ToggleProvider, Registry!store, Keyed,
             KeyedAsNeeded, DeletedAsRead, Pending, Owns
  <1> QED
      BY <1>5, <1>6, <1>7, <1>8, <1>9, <1>10, <1>11, <1>12 DEF RegistryInv

\* Deleting a provider begins with its recipients, in the window.
LEMMA DeleteProviderKeeps ==
  ASSUME RegistryInv, NEW p \in Registry!Procs, NEW f \in Profiles, Registry!DeleteProvider(p, f)
  PROVE  RegistryInv'
  <1> DEFINE deps == IF p = Window THEN Registry!Dependents(f) ELSE {}
  <1> DEFINE next == [Registry!Job("delete", IF deps = {} THEN "list" ELSE "next", f, None)
                     EXCEPT !.deps = deps, !.copy = profiles[f]]
  <1>1. next \in Jobs
    <2>1. profiles[f] \in Registry!ProfileRecord /\ deps \in SUBSET Recipients
      BY DEF RegistryInv, Registry!DeleteProvider, Registry!Stored,
             Registry!Dependents, Registry!TypeOK
    <2> QED
      BY <2>1 DEF Jobs, Registry!Jobs, Registry!Job
  <1>2. /\ next.op = "delete"
        /\ next.at = (IF deps = {} THEN "list" ELSE "next")
        /\ next.f = f
        /\ next.r = None
        /\ next.copy = profiles[f]
        /\ next.deps = deps
        /\ next.current = FALSE
        /\ next.copy \in Registry!ProfileRecord
      BY DEF RegistryInv, Registry!DeleteProvider, Registry!Stored,
             Registry!Job, Registry!TypeOK
  <1>3. /\ Registry!Go(p, next)
        /\ UNCHANGED <<profiles, recipients, keys, gone, crossed, torn>>
        /\ Registry!Stored(f)
        /\ job[p] = None
      BY DEF Registry!DeleteProvider, Registry!Idle, Registry!store
  <1> HIDE DEF next
  <1>4. /\ job' \in [Registry!Procs -> Jobs \cup {None}]
        /\ job'[p] = next /\ Others(p)
      BY <1>1, <1>3, Go DEF RegistryInv, Registry!Procs
  <1>5. Registry!TypeOK'
      BY <1>3, <1>4 DEF RegistryInv, Registry!TypeOK, Jobs
  <1>6. InStage'
      BY DEF RegistryInv, Registry!TypeOK, InStage, Staged, Registry!Stored,
             Registry!Go, Registry!Job, Registry!DeleteProvider
  <1>7. Fresh'
      BY <1>2, <1>3, <1>4
      DEF RegistryInv, Fresh, Registry!Stored, Registry!Exists, Others, Kept
  <1>8. Named'
      BY RegistryAssumption
      DEF RegistryInv, Registry!TypeOK, InStage, Staged, Registry!Idle,
          Registry!Stored, Registry!Go, Registry!Job, Registry!Dependents,
          Registry!Exists, Registry!DeleteProvider, Registry!store,
          Registry!Jobs, Registry!ProfileRecord, Registry!RecipientRecord,
          Registry!Procs, Named, KnownProfile, KnownRecipient
  <1>9. Registry!DeletedStaysDeleted'
      BY DEF RegistryInv, Registry!Stored, Registry!Exists,
             Registry!DeleteProvider, Registry!store,
             Registry!DeletedStaysDeleted
  <1>10. UpToDate'
      BY DEF RegistryInv, Registry!Stored, Registry!Go, Registry!Job,
             Registry!Exists, Registry!DeleteProvider, Registry!store, UpToDate
  <1>11. Sound'
      BY <1>1, <1>2, <1>3, <1>4, RegistryAssumption
      DEF RegistryInv, Registry!TypeOK, Registry!Jobs, Jobs,
          Registry!ProfileRecord, Registry!RecipientRecord, Registry!Procs,
          Registry!Creds, InStage, Staged, Sound, Validated, UpToDate, Fresh,
          Registry!RecipientsHaveProfiles, Registry!Unused, Registry!Dependents,
          Registry!Stored, Registry!Exists, Others, Kept, Registry!Idle
  <1>12. Keyed'
      BY DEF RegistryInv, Registry!Idle, Registry!Stored, Registry!Go,
             Registry!Job, Registry!DeleteProvider, Registry!store, Keyed,
             KeyedAsNeeded, DeletedAsRead, Pending, Owns
  <1> QED
      BY <1>5, <1>6, <1>7, <1>8, <1>9, <1>10, <1>11, <1>12 DEF RegistryInv

\* A command adds a recipient of a profile,
LEMMA NewRecipientKeeps ==
  ASSUME RegistryInv, NEW p \in Registry!Procs, NEW r \in Recipients, NEW f \in Profiles,
         Registry!NewRecipient(p, r, f)
  PROVE  RegistryInv'
  <1> USE RegistryAssumption DEF RegistryInv, Registry!TypeOK, InStage, Staged, Registry!Idle,
     Registry!Stored, Registry!Taken, Registry!Exists, Registry!Go, Registry!Job,
     Registry!NewRecipient, Registry!store, Registry!Jobs, Registry!ProfileRecord,
     Registry!RecipientRecord, Registry!Procs
  <1>1. Registry!TypeOK'
    BY DEF Registry!Creds
  <1>2. InStage'
    BY DEF Registry!Creds
  <1>3. Fresh'
    BY DEF Fresh, Registry!Stored, Registry!Exists, Named, KnownProfile,
           KnownRecipient
  <1>4. Named'
    BY DEF Named, KnownProfile, KnownRecipient, Registry!Stored,
           Registry!Exists, Registry!Dependents
  <1>5. Registry!DeletedStaysDeleted'
    BY DEF Registry!DeletedStaysDeleted, Fresh, UpToDate, Registry!Stored,
           Registry!Exists
  <1>6. UpToDate'
    BY DEF UpToDate, Registry!Stored, Registry!Exists, Fresh
  <1>7. Sound'
    BY DEF Sound, Validated, UpToDate, Fresh, Registry!RecipientsHaveProfiles,
           Registry!Unused, Registry!Dependents, Registry!Stored,
           Registry!Exists
  <1>8. Keyed'
    BY DEF Keyed, KeyedAsNeeded, DeletedAsRead, Pending, Owns, Fresh, UpToDate,
           Registry!Stored
  <1> QED
    BY <1>1, <1>2, <1>3, <1>4, <1>5, <1>6, <1>7, <1>8

\* or switches one on or off,
LEMMA ToggleRecipientKeeps ==
  ASSUME RegistryInv, NEW p \in Registry!Procs, NEW r \in Recipients, Registry!ToggleRecipient(p,
         r)
  PROVE  RegistryInv'
  <1> DEFINE next == [Registry!Job("toggle", "validate", recipients[r].profile, r)
                     EXCEPT !.copy = [recipients[r] EXCEPT !.enabled = ~@]]
  <1>1. next \in Jobs
    <2>1. [recipients[r] EXCEPT !.enabled = ~@] \in Registry!RecipientRecord /\ recipients[r].profile \in Profiles
      BY ToggledRecipient
      DEF RegistryInv, Registry!ToggleRecipient, Registry!Exists,
          Registry!TypeOK, Registry!RecipientRecord
    <2> QED
      BY <2>1 DEF Jobs, Registry!Jobs, Registry!Job
  <1>2. /\ next.op = "toggle"
        /\ next.at = "validate"
        /\ next.f = recipients[r].profile
        /\ next.r = r
        /\ next.deps = {}
        /\ next.current = FALSE
        /\ next.f \in Profiles
        /\ next.copy \in Registry!RecipientRecord
        /\ next.copy.profile = next.f
    <2>1. recipients[r] \in Registry!RecipientRecord
      BY DEF RegistryInv, Registry!TypeOK, Registry!ToggleRecipient,
             Registry!Exists
    <2>2. recipients[r].profile \in Profiles
      BY <2>1 DEF Registry!RecipientRecord
    <2> QED
      BY <2>1, <2>2, ToggledRecipient DEF Registry!Job
  <1>3. /\ Registry!Go(p, next)
        /\ UNCHANGED <<profiles, recipients, keys, gone, crossed, torn>>
      BY RegistryAssumption
      DEF Registry!ToggleRecipient, Registry!Idle, Registry!Exists,
          Registry!Job, Registry!store
  <1> HIDE DEF next
  <1>4. /\ job' \in [Registry!Procs -> Jobs \cup {None}]
        /\ job'[p] = next /\ Others(p)
      BY <1>1, <1>3, Go DEF RegistryInv, Registry!Procs
  <1>5. Registry!TypeOK'
      BY <1>3, <1>4 DEF RegistryInv, Registry!TypeOK, Jobs
  <1>6. InStage'
      BY <1>2, <1>4, RegistryAssumption
      DEF RegistryInv, InStage, Staged, Others, Kept
  <1>7. Fresh'
      BY DEF RegistryInv, Registry!Exists, Registry!Go, Registry!Job,
             Registry!ToggleRecipient, Registry!store, Fresh, Registry!Stored,
             Named, KnownProfile
  <1>8. Named'
      BY DEF RegistryInv, Registry!Exists, Registry!Go, Registry!Job,
             Registry!ToggleRecipient, Registry!store, Named, KnownProfile,
             KnownRecipient, Registry!Stored
  <1>9. Registry!DeletedStaysDeleted'
      BY DEF RegistryInv, Registry!Exists, Registry!ToggleRecipient,
             Registry!store, Registry!DeletedStaysDeleted, Registry!Stored
  <1>10. UpToDate'
      BY DEF RegistryInv, Registry!Exists, Registry!Go, Registry!Job,
             Registry!ToggleRecipient, Registry!store, UpToDate, Registry!Stored
  <1>11. Sound'
      BY RegistryAssumption
      DEF RegistryInv, Registry!TypeOK, InStage, Staged, Registry!Idle,
          Registry!Exists, Registry!Go, Registry!Job, Registry!ToggleRecipient,
          Registry!store, Registry!Jobs, Registry!ProfileRecord,
          Registry!RecipientRecord, Sound, Validated,
          Registry!RecipientsHaveProfiles, Registry!Unused, Registry!Dependents,
          Registry!Stored
  <1>12. Keyed'
      BY DEF RegistryInv, Registry!Idle, Registry!Go, Registry!Job,
             Registry!ToggleRecipient, Registry!store, Keyed, KeyedAsNeeded,
             DeletedAsRead, Pending, Owns, Registry!Stored
  <1> QED
      BY <1>5, <1>6, <1>7, <1>8, <1>9, <1>10, <1>11, <1>12 DEF RegistryInv

\* or deletes one.
LEMMA DeleteRecipientKeeps ==
  ASSUME RegistryInv, NEW p \in Registry!Procs, NEW r \in Recipients, Registry!DeleteRecipient(p,
         r)
  PROVE  RegistryInv'
  <1> USE RegistryAssumption DEF RegistryInv, Registry!TypeOK, InStage, Staged, Registry!Idle,
     Registry!Exists, Registry!Go, Registry!Job, Registry!DeleteRecipient, Registry!store,
     Registry!Jobs, Registry!ProfileRecord, Registry!RecipientRecord, Registry!Procs
  <1>1. Registry!TypeOK'
    BY DEF Registry!Creds
  <1>2. InStage'
    BY DEF Registry!Creds
  <1>3. Fresh'
    BY DEF Fresh, Registry!Stored, Registry!Exists, Named, KnownProfile,
           KnownRecipient
  <1>4. Named'
    BY DEF Named, KnownProfile, KnownRecipient, Registry!Stored,
           Registry!Exists, Registry!Dependents
  <1>5. Registry!DeletedStaysDeleted'
    BY DEF Registry!DeletedStaysDeleted, Fresh, UpToDate, Registry!Stored,
           Registry!Exists
  <1>6. UpToDate'
    BY DEF UpToDate, Registry!Stored, Registry!Exists, Fresh
  <1>7. Sound'
    BY DEF Sound, Validated, UpToDate, Fresh, Registry!RecipientsHaveProfiles,
           Registry!Unused, Registry!Dependents, Registry!Stored,
           Registry!Exists
  <1>8. Keyed'
    BY DEF Keyed, KeyedAsNeeded, DeletedAsRead, Pending, Owns, Fresh,
           Registry!Stored
  <1> QED
    BY <1>1, <1>2, <1>3, <1>4, <1>5, <1>6, <1>7, <1>8

\* A command stores a key beside the records.
LEMMA KeyCommandKeeps ==
  ASSUME RegistryInv, NEW f \in Profiles, Registry!KeyCommand(f)
  PROVE  RegistryInv'
  <1> USE RegistryAssumption DEF RegistryInv, Registry!TypeOK, InStage, Staged,
     Registry!KeyCommand, Registry!store, Registry!Jobs, Registry!ProfileRecord,
     Registry!RecipientRecord, Registry!Procs
  <1>1. Registry!TypeOK'
    BY DEF Registry!Creds
  <1>2. InStage'
    BY DEF Registry!Creds
  <1>3. Fresh'
    BY DEF Fresh, Registry!Stored, Registry!Exists, Named, KnownProfile,
           KnownRecipient
  <1>4. Named'
    BY DEF Named, KnownProfile, KnownRecipient, Registry!Stored,
           Registry!Exists, Registry!Dependents
  <1>5. Registry!DeletedStaysDeleted'
    BY DEF Registry!DeletedStaysDeleted, Fresh, UpToDate, Registry!Stored,
           Registry!Exists
  <1>6. UpToDate'
    BY DEF UpToDate, Registry!Stored, Registry!Exists, Fresh
  <1>7. Sound'
    BY DEF Sound, Validated, Registry!RecipientsHaveProfiles, Registry!Unused,
           Registry!Dependents, Registry!Stored, Registry!Exists
  <1>8. Keyed'
    BY DEF Keyed, KeyedAsNeeded, DeletedAsRead, Pending, Owns, Fresh,
           Registry!Stored
  <1> QED
    BY <1>3, <1>4, <1>5, <1>6, <1>7, <1>8

\* The key is stored before its record is written.
LEMMA SetKeyKeeps ==
  ASSUME RegistryInv, NEW p \in Registry!Procs, Registry!SetKey(p)
  PROVE  RegistryInv'
  <1> USE RegistryAssumption DEF RegistryInv, Registry!TypeOK, InStage, Staged, Registry!At,
     Registry!Step, Registry!Go, Registry!SetKey, Registry!store, Registry!Jobs,
     Registry!ProfileRecord, Registry!RecipientRecord, Registry!Procs
  <1>1. Registry!TypeOK'
    BY DEF Registry!Creds
  <1>2. InStage'
    BY DEF Registry!Creds
  <1>3. Fresh'
    BY DEF Fresh, Registry!Stored, Registry!Exists, Named, KnownProfile,
           KnownRecipient
  <1>4. Named'
    BY DEF Named, KnownProfile, KnownRecipient, Registry!Stored,
           Registry!Exists, Registry!Dependents
  <1>5. Registry!DeletedStaysDeleted'
    BY DEF Registry!DeletedStaysDeleted, Fresh, UpToDate, Registry!Stored,
           Registry!Exists
  <1>6. UpToDate'
    BY DEF UpToDate, Registry!Stored, Registry!Exists, Fresh
  <1>7. Sound'
    BY DEF Sound, Validated, UpToDate, Fresh, Registry!RecipientsHaveProfiles,
           Registry!Unused, Registry!Dependents, Registry!Stored,
           Registry!Exists
  <1>8. Keyed'
    BY DEF Keyed, KeyedAsNeeded, DeletedAsRead, Pending, Owns, Registry!Stored
  <1> QED
    BY <1>1, <1>2, <1>3, <1>4, <1>5, <1>6, <1>7, <1>8

\* The record of a profile that is new is put in.
LEMMA CreateProfileKeeps ==
  ASSUME RegistryInv, NEW p \in Registry!Procs, Registry!CreateProfile(p)
  PROVE  RegistryInv'
  <1> USE RegistryAssumption DEF RegistryInv, Registry!TypeOK, InStage, Staged, Registry!At,
     Registry!Step, Registry!Go, Registry!CreateProfile, Registry!store, Registry!Jobs,
     Registry!ProfileRecord, Registry!RecipientRecord, Registry!Procs
  <1>1. Registry!TypeOK'
    BY DEF Registry!Creds
  <1>2. InStage'
    BY DEF Registry!Creds
  <1>3. Fresh'
    BY DEF Fresh, Registry!Stored, Registry!Exists, Named, KnownProfile,
           KnownRecipient
  <1>4. Named'
    BY DEF Named, KnownProfile, KnownRecipient, Registry!Stored,
           Registry!Exists, Registry!Dependents
  <1>5. Registry!DeletedStaysDeleted'
    BY DEF Registry!DeletedStaysDeleted, Fresh, UpToDate, Registry!Stored,
           Registry!Exists
  <1>6. UpToDate'
    BY DEF UpToDate, Registry!Stored, Registry!Exists, Fresh
  <1>7. Sound'
    BY DEF Sound, Validated, UpToDate, Fresh, Registry!RecipientsHaveProfiles,
           Registry!Unused, Registry!Dependents, Registry!Stored,
           Registry!Exists
  <1>8. Keyed'
    BY DEF Keyed, KeyedAsNeeded, DeletedAsRead, Pending, Owns, Fresh,
           Registry!Stored
  <1> QED
    BY <1>3, <1>4, <1>5, <1>6, <1>7, <1>8

\* The version that is read is that of the record as it is.
LEMMA ReadVersionKeeps ==
  ASSUME RegistryInv, NEW p \in Registry!Procs, Registry!ReadVersion(p)
  PROVE  RegistryInv'
  <1> DEFINE next == [job[p] EXCEPT !.at = "commit", !.current = TRUE]
  <1>1. next \in Jobs
    <2>1. job[p] \in Jobs
      BY DEF RegistryInv, Registry!ReadVersion, Registry!At, Registry!TypeOK,
             Jobs
    <2> QED
      BY <2>1 DEF Jobs, Registry!Jobs, Registry!Job
  <1>2. /\ job[p] # None
        /\ job[p].at = "version"
        /\ next.op = job[p].op
        /\ next.at = "commit"
        /\ next.f = job[p].f
        /\ next.r = job[p].r
        /\ next.copy = job[p].copy
        /\ next.deps = job[p].deps
      BY DEF Registry!ReadVersion, Registry!At
  <1>3. /\ Registry!Go(p, next)
        /\ UNCHANGED <<profiles, recipients, keys, gone, crossed, torn>>
        /\ IF job[p].r = None THEN Registry!Stored(job[p].f) ELSE Registry!Exists(job[p].r)
      BY RegistryAssumption
      DEF Registry!ReadVersion, Registry!At, Registry!Stored, Registry!Exists,
          Registry!store
  <1> HIDE DEF next
  <1>4. /\ job' \in [Registry!Procs -> Jobs \cup {None}]
        /\ job'[p] = next /\ Others(p)
      BY <1>1, <1>3, Go DEF RegistryInv, Registry!Procs
  <1>5. Registry!TypeOK'
      BY <1>3, <1>4 DEF RegistryInv, Registry!TypeOK, Jobs
  <1>6. InStage'
      BY DEF RegistryInv, InStage, Staged, Registry!At, Registry!Go,
             Registry!ReadVersion
  <1>7. Fresh'
      BY DEF RegistryInv, Registry!At, Registry!Go, Registry!Stored,
             Registry!Exists, Registry!ReadVersion, Registry!store, Fresh
  <1>8. Named'
      BY DEF RegistryInv, Registry!At, Registry!Go, Registry!Stored,
             Registry!Exists, Registry!ReadVersion, Registry!store, Named,
             KnownProfile, KnownRecipient
  <1>9. Registry!DeletedStaysDeleted'
      BY DEF RegistryInv, Registry!Stored, Registry!Exists,
             Registry!ReadVersion, Registry!store, Registry!DeletedStaysDeleted
  <1>10. UpToDate'
      BY DEF RegistryInv, Registry!At, Registry!Go, Registry!Stored,
             Registry!Exists, Registry!ReadVersion, Registry!store, UpToDate
  <1>11. Sound'
      BY RegistryAssumption
      DEF RegistryInv, Registry!TypeOK, InStage, Staged, Registry!At,
          Registry!Go, Registry!Stored, Registry!Exists, Registry!ReadVersion,
          Registry!store, Registry!Jobs, Registry!ProfileRecord,
          Registry!RecipientRecord, Sound, Validated,
          Registry!RecipientsHaveProfiles, Registry!Unused, Registry!Dependents
  <1>12. Keyed'
    <2> SUFFICES ASSUME NEW x \in Profiles \ torn'
                 PROVE  KeyedAsNeeded(x)' /\ DeletedAsRead(x)'
      BY DEF Keyed
    <2>1. x \notin torn /\ profiles'[x] = profiles[x] /\ keys' = keys
      BY <1>3
    <2>2. CASE p # Window
      BY <2>1, <2>2, <1>4, KeyKept DEF Others, Registry!Procs
    <2>3. CASE p = Window
      <3>1. KeyedAsNeeded(x) /\ DeletedAsRead(x)
        BY <2>1 DEF RegistryInv, Keyed
      <3>2. next # None
        BY <1>1, <1>2, RegistryAssumption DEF Jobs
      <3> QED
        BY <3>1, <3>2, <2>1, <2>3, <1>2, <1>4
        DEF KeyedAsNeeded, DeletedAsRead, Pending, Owns, Registry!Stored
    <2> QED
      BY <2>2, <2>3
  <1> QED
      BY <1>5, <1>6, <1>7, <1>8, <1>9, <1>10, <1>11, <1>12 DEF RegistryInv

\* A profile is written where its version still is the one that was read,
LEMMA CommitProfileKeeps ==
  ASSUME RegistryInv, NEW p \in Registry!Procs, Registry!CommitProfile(p)
  PROVE  RegistryInv'
  <1> DEFINE next == None
  <1>1. next \in Jobs \cup {None}
      OBVIOUS
  <1>2. next = None
      OBVIOUS
  <1>3. /\ Registry!Wrote(p, next, job[p].f)
        /\ job[p] # None /\ job[p].at = "commit" /\ job[p].r = None /\ job[p].current
        /\ job[p].op = "edit" /\ job[p].copy \in Registry!ProfileRecord
        /\ job[p].f \in Profiles
        /\ profiles' = [profiles EXCEPT ![job[p].f] = job[p].copy]
        /\ torn' \in {torn, torn \cup {job[p].f}}
        /\ Registry!Overwrites(p) => job[p].f \in torn'
        /\ UNCHANGED <<recipients, keys, gone, crossed>>
    <2>1. /\ job[p] # None /\ job[p].at = "commit" /\ job[p].r = None /\ job[p].current
          /\ Staged(p, job[p])
      BY DEF Registry!CommitProfile, Registry!At, Registry!AtVersion,
             RegistryInv, InStage
    <2>2. job[p].op = "edit" /\ job[p].copy \in Registry!ProfileRecord /\ job[p].f # None
      BY <2>1 DEF Staged
    <2>3. job[p].f \in Profiles
      BY <2>1, <2>2 DEF RegistryInv, Registry!TypeOK, Registry!Jobs
    <2> QED
      BY <2>1, <2>2, <2>3 DEF Registry!CommitProfile, Registry!Overwrites
  <1> HIDE DEF next
  <1>4. /\ job' \in [Registry!Procs -> Jobs \cup {None}]
        /\ job'[p] = next /\ Others(p)
        /\ \A q \in Registry!Procs \ {p} :
               job[q] # None /\ job[p].f \in {job[q].f, job[q].r} => ~job'[q].current
      BY <1>1, <1>3, Wrote DEF RegistryInv, Registry!Procs
  <1>5. Registry!TypeOK'
      BY <1>3, <1>4 DEF RegistryInv, Registry!TypeOK, Jobs
  <1>6. InStage'
      BY <1>2, <1>4 DEF RegistryInv, InStage, Staged, Others, Kept
  <1>7. Fresh'
      BY <1>2, <1>3, <1>4
      DEF RegistryInv, Fresh, Registry!Stored, Registry!Exists, Others, Kept
  <1>8. Named'
      BY <1>1, <1>2, <1>3, <1>4, RegistryAssumption
      DEF RegistryInv, Named, KnownProfile, KnownRecipient, Registry!Stored,
          Registry!Exists, Others, Kept
  <1>9. Registry!DeletedStaysDeleted'
      BY <1>3
      DEF RegistryInv, Registry!DeletedStaysDeleted, UpToDate, Registry!Stored,
          Registry!Exists
  <1>10. UpToDate'
      BY <1>2, <1>3, <1>4
      DEF RegistryInv, UpToDate, Registry!Stored, Registry!Exists, Others, Kept
  <1>11. Sound'
      BY <1>1, <1>2, <1>3, <1>4, RegistryAssumption
      DEF RegistryInv, Registry!TypeOK, Registry!Jobs, Jobs,
          Registry!ProfileRecord, Registry!RecipientRecord, Registry!Procs,
          Registry!Creds, InStage, Staged, Sound, Validated, UpToDate, Fresh,
          Registry!RecipientsHaveProfiles, Registry!Unused, Registry!Dependents,
          Registry!Stored, Registry!Exists, Others, Kept, Registry!Overwrites
  <1>12. Keyed'
    <2> SUFFICES ASSUME NEW x \in Profiles \ torn'
                 PROVE  KeyedAsNeeded(x)' /\ DeletedAsRead(x)'
      BY DEF Keyed
    <2>1. x \notin torn /\ keys' = keys
      BY <1>3
    <2>2. KeyedAsNeeded(x) /\ DeletedAsRead(x)
      BY <2>1 DEF RegistryInv, Keyed
    <2>3. CASE x # job[p].f /\ p # Window
      <3>1. profiles'[x] = profiles[x]
        BY <2>3, <1>3 DEF RegistryInv, Registry!TypeOK
      <3> QED
        BY <3>1, <2>1, <2>3, <1>4, KeyKept DEF Others, Registry!Procs
    <2>4. CASE x = job[p].f /\ p # Window
      <3>1. ~Registry!Overwrites(p) /\ Registry!Stored(x) /\ profiles'[x] = job[p].copy
        BY <2>4, <1>3, RegistryAssumption
        DEF RegistryInv, Registry!TypeOK, UpToDate, Registry!Stored
      <3>2. profiles'[x].cred = profiles[x].cred /\ profiles'[x] # None
        BY <3>1, <2>4, <1>3, RegistryAssumption DEF Registry!Overwrites
      <3> QED
        BY <3>1, <3>2, <2>1, <2>2, <2>4, <1>4
        DEF KeyedAsNeeded, DeletedAsRead, Pending, Owns, Registry!Stored,
            Others, Kept, Registry!Procs
    <2>5. CASE p = Window
      BY <2>2, <2>5, <1>2, <1>3, <1>4, RegistryAssumption
      DEF KeyedAsNeeded, DeletedAsRead, Pending, Owns, Registry!Stored,
          RegistryInv, Registry!TypeOK
    <2> QED
      BY <2>3, <2>4, <2>5
  <1> QED
      BY <1>5, <1>6, <1>7, <1>8, <1>9, <1>10, <1>11, <1>12 DEF RegistryInv

\* and so is a recipient.
LEMMA CommitRecipientKeeps ==
  ASSUME RegistryInv, NEW p \in Registry!Procs, Registry!CommitRecipient(p)
  PROVE  RegistryInv'
  <1> DEFINE next == None
  <1>1. next \in Jobs \cup {None}
      OBVIOUS
  <1>2. next = None
      BY RegistryAssumption
      DEF Registry!CommitRecipient, Registry!At, Registry!AtVersion,
          RegistryInv, InStage, Staged
  <1>3. /\ Registry!Wrote(p, next, job[p].r)
        /\ job[p] # None /\ job[p].at = "commit" /\ job[p].r # None /\ job[p].current
        /\ job[p].op = "toggle" /\ job[p].copy \in Registry!RecipientRecord
        /\ recipients' = [recipients EXCEPT ![job[p].r] = job[p].copy]
        /\ UNCHANGED <<profiles, keys, gone, crossed, torn>>
      BY DEF Registry!CommitRecipient, Registry!At, Registry!AtVersion,
             RegistryInv, InStage, Staged
  <1> HIDE DEF next
  <1>4. /\ job' \in [Registry!Procs -> Jobs \cup {None}]
        /\ job'[p] = next /\ Others(p)
        /\ \A q \in Registry!Procs \ {p} :
               job[q] # None /\ job[p].r \in {job[q].f, job[q].r} => ~job'[q].current
      BY <1>1, <1>3, Wrote DEF RegistryInv, Registry!Procs
  <1>5. Registry!TypeOK'
      BY <1>3, <1>4 DEF RegistryInv, Registry!TypeOK, Registry!Jobs, Jobs
  <1>6. InStage'
      BY <1>2, <1>4 DEF RegistryInv, InStage, Staged, Others, Kept
  <1>7. Fresh'
      BY <1>2, <1>3, <1>4
      DEF RegistryInv, Fresh, Registry!Stored, Registry!Exists, Others, Kept
  <1>8. Named'
      BY <1>1, <1>2, <1>3, <1>4, RegistryAssumption
      DEF RegistryInv, Registry!TypeOK, InStage, Staged, Named, KnownProfile,
          KnownRecipient, Registry!Stored, Registry!Exists, Others, Kept
  <1>9. Registry!DeletedStaysDeleted'
      BY <1>3
      DEF RegistryInv, Registry!DeletedStaysDeleted, UpToDate, Registry!Stored,
          Registry!Exists
  <1>10. UpToDate'
      BY <1>2, <1>3, <1>4
      DEF RegistryInv, InStage, Staged, UpToDate, Registry!Stored,
          Registry!Exists, Others, Kept
  <1>11. Sound'
      BY <1>1, <1>2, <1>3, <1>4, RegistryAssumption
      DEF RegistryInv, Registry!TypeOK, Registry!Jobs, Jobs,
          Registry!ProfileRecord, Registry!RecipientRecord, Registry!Procs,
          Registry!Creds, InStage, Staged, Sound, Validated, UpToDate, Fresh,
          Registry!RecipientsHaveProfiles, Registry!Unused, Registry!Dependents,
          Registry!Stored, Registry!Exists, Others, Kept
  <1>12. Keyed'
      BY <1>2, <1>3, <1>4
      DEF RegistryInv, Registry!Procs, Keyed, KeyedAsNeeded, DeletedAsRead,
          Pending, Owns, Registry!Stored, Others, Kept
  <1> QED
      BY <1>5, <1>6, <1>7, <1>8, <1>9, <1>10, <1>11, <1>12 DEF RegistryInv

\* The profile of a recipient is looked up before it is put in.
LEMMA ValidateKeeps ==
  ASSUME RegistryInv, NEW p \in Registry!Procs, Registry!Validate(p)
  PROVE  RegistryInv'
  <1> USE RegistryAssumption DEF RegistryInv, Registry!TypeOK, InStage, Staged, Registry!At,
     Registry!Stored, Registry!Step, Registry!Go, Registry!Validate, Registry!store,
     Registry!Jobs, Registry!ProfileRecord, Registry!RecipientRecord, Registry!Procs
  <1>1. Registry!TypeOK'
    BY DEF Registry!Creds
  <1>2. InStage'
    BY DEF Registry!Creds
  <1>3. Fresh'
    BY DEF Fresh, Registry!Stored, Registry!Exists, Named, KnownProfile,
           KnownRecipient
  <1>4. Named'
    BY DEF Named, KnownProfile, KnownRecipient, Registry!Stored,
           Registry!Exists, Registry!Dependents
  <1>5. Registry!DeletedStaysDeleted'
    BY DEF Registry!DeletedStaysDeleted, Fresh, UpToDate, Registry!Stored,
           Registry!Exists
  <1>6. UpToDate'
    BY DEF UpToDate, Registry!Stored, Registry!Exists, Fresh
  <1>7. Sound'
    BY DEF Sound, Validated, UpToDate, Fresh, Registry!RecipientsHaveProfiles,
           Registry!Unused, Registry!Dependents, Registry!Stored,
           Registry!Exists
  <1>8. Keyed'
    BY DEF Keyed, KeyedAsNeeded, DeletedAsRead, Pending, Owns
  <1> QED
    BY <1>1, <1>2, <1>3, <1>4, <1>5, <1>6, <1>7, <1>8

\* A recipient is put in, whatever became of its profile.
LEMMA InsertRecipientKeeps ==
  ASSUME RegistryInv, NEW p \in Registry!Procs, Registry!InsertRecipient(p)
  PROVE  RegistryInv'
  <1> DEFINE next == None
  <1>1. next \in Jobs \cup {None}
      OBVIOUS
  <1>2. next = None
      OBVIOUS
  <1>3. /\ Registry!Go(p, next)
        /\ job[p] # None /\ job[p].at = "insert" /\ job[p].op \in {"new", "recipient"}
        /\ job[p].f \in Profiles /\ job[p].r \in Recipients
        /\ recipients' = [recipients EXCEPT ![job[p].r] = Registry!Recipient(job[p].f, TRUE)]
        /\ crossed' = (crossed \/ Registry!Deleting(job[p].f))
        /\ UNCHANGED <<profiles, keys, gone, torn>>
      BY DEF Registry!InsertRecipient, Registry!At, RegistryInv, InStage,
             Staged, Registry!TypeOK, Registry!Jobs
  <1> HIDE DEF next
  <1>4. /\ job' \in [Registry!Procs -> Jobs \cup {None}]
        /\ job'[p] = next /\ Others(p)
      BY <1>1, <1>3, Go DEF RegistryInv, Registry!Procs
  <1>5. Registry!TypeOK'
      BY DEF RegistryInv, Registry!TypeOK, InStage, Staged, Registry!At,
             Registry!Recipient, Registry!Go, Registry!InsertRecipient,
             Registry!Jobs, Registry!RecipientRecord
  <1>6. InStage'
      BY DEF RegistryInv, InStage, Registry!Go, Registry!InsertRecipient
  <1>7. Fresh'
      BY DEF RegistryInv, Registry!TypeOK, Registry!At, Registry!Recipient,
             Registry!Go, Registry!InsertRecipient, Fresh, Registry!Stored,
             Registry!Exists
  <1>8. Named'
      BY <1>1, <1>2, <1>3, <1>4, RegistryAssumption
      DEF RegistryInv, Registry!TypeOK, Registry!Jobs, Jobs,
          Registry!ProfileRecord, Registry!RecipientRecord, Registry!Procs,
          Registry!Creds, InStage, Staged, Fresh, Named, KnownProfile,
          KnownRecipient, Registry!Stored, Registry!Exists, Others, Kept,
          Registry!Recipient, Registry!Deleting
  <1>9. Registry!DeletedStaysDeleted'
      BY DEF RegistryInv, InStage, Staged, Registry!At, Registry!Recipient,
             Registry!InsertRecipient, Registry!DeletedStaysDeleted, Fresh,
             Registry!Stored, Registry!Exists
  <1>10. UpToDate'
      BY RegistryAssumption
      DEF RegistryInv, InStage, Staged, Registry!At, Registry!Deleting,
          Registry!Recipient, Registry!Go, Registry!InsertRecipient,
          Registry!Jobs, Registry!RecipientRecord, UpToDate, Registry!Stored,
          Registry!Exists, Fresh
  <1>11. Sound'
    <2> SUFFICES ASSUME ~crossed'
                 PROVE  Registry!RecipientsHaveProfiles' /\ Validated'
      BY DEF Sound
    <2>1. ~crossed /\ ~Registry!Deleting(job[p].f)
      BY <1>3
    <2>2. Registry!RecipientsHaveProfiles /\ Validated
      BY <2>1 DEF RegistryInv, Sound
    <2>3. Registry!Stored(job[p].f)
      BY <2>2, <1>3 DEF Validated
    <2>4. Registry!RecipientsHaveProfiles'
      BY <2>2, <2>3, <1>3
      DEF Registry!RecipientsHaveProfiles, Registry!Stored, Registry!Exists,
          Registry!Recipient
    <2>5. ASSUME NEW q \in Registry!Procs, job'[q] # None
          PROVE  (job[q].at = "insert" => Registry!Stored(job[q].f))'
      BY <2>2, <2>5, <1>2, <1>3, <1>4
      DEF Validated, Registry!Stored, Others, Kept
    <2>6. ASSUME NEW q \in Registry!Procs, job'[q] # None, job'[q].at \in {"get", "delete"}
          PROVE  Registry!Unused(job[q].f)'
      <3>1. /\ q # p /\ job[q] # None /\ job'[q].f = job[q].f
            /\ job[q].at \in {"get", "delete"}
        BY <2>6, <1>2, <1>4 DEF Others, Kept
      <3>2. Registry!Unused(job[q].f) /\ job[q].f # job[p].f
        BY <3>1, <2>1, <2>2 DEF Validated, Registry!Deleting
      <3> QED
        BY <3>1, <3>2, <1>3
        DEF Registry!Unused, Registry!Dependents, Registry!Exists,
            Registry!Recipient
    <2> QED
      BY <2>4, <2>5, <2>6 DEF Validated
  <1>12. Keyed'
      BY DEF RegistryInv, Registry!At, Registry!Go, Registry!InsertRecipient,
             Keyed, KeyedAsNeeded, DeletedAsRead, Pending, Owns, Registry!Stored
  <1> QED
      BY <1>5, <1>6, <1>7, <1>8, <1>9, <1>10, <1>11, <1>12 DEF RegistryInv

\* The window takes the next recipient of the profile it deletes,
LEMMA NextDependentKeeps ==
  ASSUME RegistryInv, NEW p \in Registry!Procs, NEW r \in Recipients, Registry!NextDependent(p, r)
  PROVE  RegistryInv'
  <1> DEFINE next == [job[p] EXCEPT !.at = "delete_recipient", !.r = r]
  <1>1. next \in Jobs
    <2>1. job[p] \in Jobs
      BY DEF RegistryInv, Registry!NextDependent, Registry!At, Registry!TypeOK,
             Jobs
    <2> QED
      BY <2>1 DEF Jobs, Registry!Jobs, Registry!Job
  <1>2. /\ job[p] # None
        /\ job[p].at = "next"
        /\ job[p].op = "delete"
        /\ r \in job[p].deps
        /\ next.op = job[p].op
        /\ next.at = "delete_recipient"
        /\ next.f = job[p].f
        /\ next.r = r
        /\ next.copy = job[p].copy
        /\ next.deps = job[p].deps
        /\ next.current = job[p].current
      BY DEF RegistryInv, Registry!NextDependent, Registry!At, InStage, Staged
  <1>3. /\ Registry!Go(p, next)
        /\ UNCHANGED <<profiles, recipients, keys, gone, crossed, torn>>
      BY RegistryAssumption
      DEF Registry!NextDependent, Registry!At, InStage, Staged, Registry!store
  <1> HIDE DEF next
  <1>4. /\ job' \in [Registry!Procs -> Jobs \cup {None}]
        /\ job'[p] = next /\ Others(p)
      BY <1>1, <1>3, Go DEF RegistryInv, Registry!Procs
  <1>5. Registry!TypeOK'
      BY <1>3, <1>4 DEF RegistryInv, Registry!TypeOK, Jobs
  <1>6. InStage'
      BY RegistryAssumption
      DEF RegistryInv, InStage, Staged, Registry!At, Registry!Go,
          Registry!NextDependent
  <1>7. Fresh'
      BY DEF RegistryInv, InStage, Staged, Registry!At, Registry!Go,
             Registry!NextDependent, Registry!store, Fresh, Registry!Stored,
             Registry!Exists, Named, KnownRecipient
  <1>8. Named'
      BY DEF RegistryInv, Registry!At, Registry!Go, Registry!NextDependent,
             Registry!store, Named, KnownProfile, KnownRecipient,
             Registry!Stored, Registry!Exists
  <1>9. Registry!DeletedStaysDeleted'
      BY DEF RegistryInv, Registry!NextDependent, Registry!store,
             Registry!DeletedStaysDeleted, Registry!Stored, Registry!Exists
  <1>10. UpToDate'
      BY DEF RegistryInv, InStage, Staged, Registry!At, Registry!Go,
             Registry!NextDependent, Registry!store, UpToDate, Registry!Stored,
             Registry!Exists
  <1>11. Sound'
      BY RegistryAssumption
      DEF RegistryInv, Registry!TypeOK, InStage, Staged, Registry!At,
          Registry!Go, Registry!NextDependent, Registry!store, Registry!Jobs,
          Registry!ProfileRecord, Registry!RecipientRecord, Registry!Procs,
          Sound, Validated, UpToDate, Fresh, Registry!RecipientsHaveProfiles,
          Registry!Unused, Registry!Dependents, Registry!Stored, Registry!Exists
  <1>12. Keyed'
      BY DEF RegistryInv, Registry!At, Registry!Go, Registry!NextDependent,
             Registry!store, Keyed, KeyedAsNeeded, DeletedAsRead, Pending, Owns,
             Registry!Stored
  <1> QED
      BY <1>5, <1>6, <1>7, <1>8, <1>9, <1>10, <1>11, <1>12 DEF RegistryInv

\* and deletes it.
LEMMA RemoveRecipientKeeps ==
  ASSUME RegistryInv, NEW p \in Registry!Procs, Registry!RemoveRecipient(p)
  PROVE  RegistryInv'
  <1> DEFINE left == job[p].deps \ {job[p].r}
  <1>1. CASE job[p].op = "drop"
    <2> DEFINE next == None
    <2>1. next \in Jobs \cup {None}
        OBVIOUS
    <2>2. next = None
        OBVIOUS
    <2>3. /\ Registry!Wrote(p, next, job[p].r)
          /\ recipients' = [recipients EXCEPT ![job[p].r] = None]
          /\ gone' = gone \cup {job[p].r}
          /\ UNCHANGED <<profiles, keys, crossed, torn>>
          /\ job[p] # None /\ job[p].at = "delete_recipient" /\ job[p].r \in Recipients
        BY <1>1
        DEF Registry!RemoveRecipient, Registry!At, Registry!Exists, RegistryInv,
            Registry!TypeOK, Registry!Jobs
    <2> HIDE DEF next
    <2>4. /\ job' \in [Registry!Procs -> Jobs \cup {None}]
          /\ job'[p] = next /\ Others(p)
          /\ \A q \in Registry!Procs \ {p} :
                 job[q] # None /\ job[p].r \in {job[q].f, job[q].r} => ~job'[q].current
        BY <2>1, <2>3, Wrote DEF RegistryInv, Registry!Procs
    <2>5. Registry!TypeOK'
        BY <2>3, <2>4 DEF RegistryInv, Registry!TypeOK, Jobs
    <2>6. InStage'
        BY <2>2, <2>4 DEF RegistryInv, InStage, Staged, Others, Kept
    <2>7. Fresh'
        BY <1>1, <2>1, <2>2, <2>3, <2>4, RegistryAssumption
        DEF RegistryInv, Registry!TypeOK, Registry!Jobs, Jobs,
            Registry!ProfileRecord, Registry!RecipientRecord, InStage, Staged,
            Fresh, Registry!Stored, Registry!Exists, Others, Kept
    <2>8. Named'
        BY <2>2, <2>3, <2>4
        DEF RegistryInv, Named, KnownProfile, KnownRecipient, Registry!Stored,
            Registry!Exists, Others, Kept
    <2>9. Registry!DeletedStaysDeleted'
        BY <2>3, RegistryAssumption
        DEF RegistryInv, Registry!TypeOK, Registry!DeletedStaysDeleted,
            Registry!Stored, Registry!Exists
    <2>10. UpToDate'
        BY <2>2, <2>3, <2>4
        DEF RegistryInv, UpToDate, Registry!Stored, Registry!Exists, Others,
            Kept
    <2>11. Sound'
        BY <1>1, <2>1, <2>2, <2>3, <2>4, RegistryAssumption
        DEF RegistryInv, Registry!TypeOK, Registry!Jobs, Jobs,
            Registry!ProfileRecord, Registry!RecipientRecord, Registry!Procs,
            Registry!Creds, InStage, Staged, Sound, Validated, UpToDate, Fresh,
            Registry!RecipientsHaveProfiles, Registry!Unused,
            Registry!Dependents, Registry!Stored, Registry!Exists, Others, Kept
    <2>12. Keyed'
        BY <1>1, <2>1, <2>2, <2>3, <2>4
        DEF RegistryInv, Registry!Procs, Keyed, KeyedAsNeeded, DeletedAsRead,
            Pending, Owns, Registry!Stored, Others, Kept
    <2> QED
        BY <2>5, <2>6, <2>7, <2>8, <2>9, <2>10, <2>11, <2>12 DEF RegistryInv
  <1>2. CASE job[p].op # "drop"
    <2> DEFINE next == [job[p] EXCEPT !.deps = left, !.r = None,
                                       !.at = IF left = {} THEN "list" ELSE "next"]
    <2>1. next \in Jobs
      <3>1. job[p] \in Jobs /\ left \in SUBSET Recipients
        BY <1>2
        DEF RegistryInv, Registry!RemoveRecipient, Registry!At, Registry!TypeOK,
            Registry!Jobs, Jobs
      <3> QED
        BY <3>1 DEF Jobs, Registry!Jobs, Registry!Job
    <2>2. /\ job[p] # None
          /\ job[p].op = "delete"
          /\ next.op = job[p].op
          /\ next.at = (IF left = {} THEN "list" ELSE "next")
          /\ next.f = job[p].f
          /\ next.r = None
          /\ next.copy = job[p].copy
          /\ next.deps = left
          /\ next.current = job[p].current
        BY <1>2
        DEF RegistryInv, Registry!RemoveRecipient, Registry!At, InStage, Staged
    <2>3. /\ Registry!Wrote(p, next, job[p].r)
          /\ recipients' = [recipients EXCEPT ![job[p].r] = None]
          /\ gone' = gone \cup {job[p].r}
          /\ UNCHANGED <<profiles, keys, crossed, torn>>
          /\ job[p] # None /\ job[p].at = "delete_recipient" /\ job[p].r \in Recipients
        BY <1>2
        DEF Registry!RemoveRecipient, Registry!At, Registry!Exists, RegistryInv,
            Registry!TypeOK, Registry!Jobs
    <2> HIDE DEF next
    <2>4. /\ job' \in [Registry!Procs -> Jobs \cup {None}]
          /\ job'[p] = next /\ Others(p)
          /\ \A q \in Registry!Procs \ {p} :
                 job[q] # None /\ job[p].r \in {job[q].f, job[q].r} => ~job'[q].current
        BY <2>1, <2>3, Wrote DEF RegistryInv, Registry!Procs
    <2>5. Registry!TypeOK'
        BY <2>3, <2>4 DEF RegistryInv, Registry!TypeOK, Jobs
    <2>6. InStage'
        BY <2>1, <2>2, <2>4 DEF RegistryInv, InStage, Staged, Others, Kept
    <2>7. Fresh'
        BY <1>2, <2>1, <2>2, <2>3, <2>4, RegistryAssumption
        DEF RegistryInv, Registry!TypeOK, Registry!Jobs, Jobs,
            Registry!ProfileRecord, Registry!RecipientRecord, Registry!Creds,
            Fresh, Registry!Stored, Registry!Exists, Others, Kept
    <2>8. Named'
        BY <1>2, <2>1, <2>2, <2>3, <2>4, RegistryAssumption
        DEF RegistryInv, Registry!TypeOK, Registry!Jobs, Jobs,
            Registry!ProfileRecord, Registry!RecipientRecord, Registry!Procs,
            Registry!Creds, InStage, Staged, Fresh, Named, KnownProfile,
            KnownRecipient, Registry!Stored, Registry!Exists, Others, Kept
    <2>9. Registry!DeletedStaysDeleted'
        BY <2>3, RegistryAssumption
        DEF RegistryInv, Registry!TypeOK, Registry!DeletedStaysDeleted,
            Registry!Stored, Registry!Exists
    <2>10. UpToDate'
        BY <2>2, <2>3, <2>4
        DEF RegistryInv, UpToDate, Registry!Stored, Registry!Exists, Others,
            Kept
    <2>11. Sound'
        BY <1>2, <2>1, <2>2, <2>3, <2>4, RegistryAssumption
        DEF RegistryInv, Registry!TypeOK, Registry!Jobs, Jobs,
            Registry!ProfileRecord, Registry!RecipientRecord, Registry!Procs,
            Registry!Creds, InStage, Staged, Sound, Validated, UpToDate, Fresh,
            Registry!RecipientsHaveProfiles, Registry!Unused,
            Registry!Dependents, Registry!Stored, Registry!Exists, Others, Kept
    <2>12. Keyed'
        BY <1>2, <2>1, <2>2, <2>3, <2>4, RegistryAssumption
        DEF RegistryInv, Registry!TypeOK, Registry!Jobs, Jobs,
            Registry!ProfileRecord, Registry!RecipientRecord, Registry!Procs,
            Registry!Creds, InStage, Staged, Keyed, KeyedAsNeeded,
            DeletedAsRead, Pending, Owns, Fresh, UpToDate, Registry!Stored,
            Others, Kept
    <2> QED
        BY <2>5, <2>6, <2>7, <2>8, <2>9, <2>10, <2>11, <2>12 DEF RegistryInv
  <1> QED
    BY <1>1, <1>2 DEF Registry!RemoveRecipient, Registry!At, Registry!Exists

\* A profile with recipients is not deleted.
LEMMA ListRecipientsKeeps ==
  ASSUME RegistryInv, NEW p \in Registry!Procs, Registry!ListRecipients(p)
  PROVE  RegistryInv'
  <1> USE RegistryAssumption DEF RegistryInv, Registry!TypeOK, InStage, Staged, Registry!At,
     Registry!Unused, Registry!Dependents, Registry!Exists, Registry!Step, Registry!Go,
     Registry!ListRecipients, Registry!store, Registry!Jobs, Registry!ProfileRecord,
     Registry!RecipientRecord, Registry!Procs
  <1>1. Registry!TypeOK'
    BY DEF Registry!Creds
  <1>2. InStage'
    BY DEF Registry!Creds
  <1>3. Fresh'
    BY DEF Fresh, Registry!Stored, Registry!Exists, Named, KnownProfile,
           KnownRecipient
  <1>4. Named'
    BY DEF Named, KnownProfile, KnownRecipient, Registry!Stored,
           Registry!Exists, Registry!Dependents
  <1>5. Registry!DeletedStaysDeleted'
    BY DEF Registry!DeletedStaysDeleted, Fresh, UpToDate, Registry!Stored,
           Registry!Exists
  <1>6. UpToDate'
    BY DEF UpToDate, Registry!Stored, Registry!Exists, Fresh
  <1>7. Sound'
    BY DEF Sound, Validated, UpToDate, Fresh, Registry!RecipientsHaveProfiles,
           Registry!Unused, Registry!Dependents, Registry!Stored,
           Registry!Exists
  <1>8. Keyed'
    BY DEF Keyed, KeyedAsNeeded, DeletedAsRead, Pending, Owns, Fresh,
           Registry!Stored
  <1> QED
    BY <1>1, <1>2, <1>3, <1>4, <1>5, <1>6, <1>7, <1>8

\* The profile that is deleted is read once more,
LEMMA GetProfileKeeps ==
  ASSUME RegistryInv, NEW p \in Registry!Procs, Registry!GetProfile(p)
  PROVE  RegistryInv'
  <1> USE RegistryAssumption DEF RegistryInv, Registry!TypeOK, InStage, Staged, Registry!At,
     Registry!Stored, Registry!Step, Registry!Go, Registry!GetProfile, Registry!store,
     Registry!Jobs, Registry!ProfileRecord, Registry!RecipientRecord, Registry!Procs
  <1>1. Registry!TypeOK'
    BY DEF Registry!Creds
  <1>2. InStage'
    BY DEF Registry!Creds
  <1>3. Fresh'
    BY DEF Fresh, Registry!Stored, Registry!Exists, Named, KnownProfile,
           KnownRecipient
  <1>4. Named'
    BY DEF Named, KnownProfile, KnownRecipient, Registry!Stored,
           Registry!Exists, Registry!Dependents
  <1>5. Registry!DeletedStaysDeleted'
    BY DEF Registry!DeletedStaysDeleted, Fresh, UpToDate, Registry!Stored,
           Registry!Exists
  <1>6. UpToDate'
    BY DEF UpToDate, Registry!Stored, Registry!Exists, Fresh
  <1>7. Sound'
    BY DEF Sound, Validated, UpToDate, Fresh, Registry!RecipientsHaveProfiles,
           Registry!Unused, Registry!Dependents, Registry!Stored,
           Registry!Exists
  <1>8. Keyed'
    BY DEF Keyed, KeyedAsNeeded, DeletedAsRead, Pending, Owns
  <1> QED
    BY <1>1, <1>2, <1>3, <1>4, <1>5, <1>6, <1>7, <1>8

\* then it is deleted,
LEMMA RemoveProfileKeeps ==
  ASSUME RegistryInv, NEW p \in Registry!Procs, Registry!RemoveProfile(p)
  PROVE  RegistryInv'
  <1>1. CASE p = Window
    <2> DEFINE next == [job[p] EXCEPT !.at = "delete_key"]
    <2>1. next \in Jobs
      <3>1. job[p] \in Jobs
        BY DEF RegistryInv, Registry!RemoveProfile, Registry!At,
               Registry!TypeOK, Jobs
      <3> QED
        BY <3>1 DEF Jobs, Registry!Jobs, Registry!Job
    <2>2. /\ job[p] # None
          /\ p = Window
          /\ next.op = job[p].op
          /\ next.at = "delete_key"
          /\ next.f = job[p].f
          /\ next.r = job[p].r
          /\ next.copy = job[p].copy
          /\ next.deps = job[p].deps
          /\ next.current = job[p].current
        BY <1>1 DEF Registry!RemoveProfile, Registry!At
    <2>3. /\ Registry!Wrote(p, next, job[p].f)
          /\ profiles' = [profiles EXCEPT ![job[p].f] = None]
          /\ gone' = gone \cup {job[p].f}
          /\ crossed' = (crossed \/ Registry!Inserting(job[p].f))
          /\ UNCHANGED <<recipients, keys>>
          /\ job[p] # None /\ job[p].at = "delete" /\ job[p].op = "delete" /\ job[p].f \in Profiles
          /\ UNCHANGED torn
        BY <1>1
        DEF Registry!RemoveProfile, Registry!At, RegistryInv, InStage, Staged,
            Registry!TypeOK, Registry!Jobs
    <2> HIDE DEF next
    <2>4. /\ job' \in [Registry!Procs -> Jobs \cup {None}]
          /\ job'[p] = next /\ Others(p)
          /\ \A q \in Registry!Procs \ {p} :
                 job[q] # None /\ job[p].f \in {job[q].f, job[q].r} => ~job'[q].current
        BY <2>1, <2>3, Wrote DEF RegistryInv, Registry!Procs
    <2>5. Registry!TypeOK'
        BY <2>3, <2>4 DEF RegistryInv, Registry!TypeOK, Jobs
    <2>6. InStage'
        BY <1>1, <2>1, <2>2, <2>3, <2>4, RegistryAssumption
        DEF RegistryInv, Registry!TypeOK, Registry!Jobs, Jobs,
            Registry!RecipientRecord, InStage, Staged, Others, Kept
    <2>7. Fresh'
        BY <2>2, <2>3, <2>4, RegistryAssumption
        DEF RegistryInv, Registry!TypeOK, Registry!Jobs, Fresh, Registry!Stored,
            Registry!Exists, Others, Kept
    <2>8. Named'
        BY <1>1, <2>1, <2>2, <2>3, <2>4, RegistryAssumption
        DEF RegistryInv, Registry!TypeOK, Registry!Jobs, Jobs,
            Registry!ProfileRecord, Registry!RecipientRecord, Registry!Procs,
            Registry!Creds, InStage, Staged, Fresh, Named, KnownProfile,
            KnownRecipient, Registry!Stored, Registry!Exists, Others, Kept,
            Registry!Inserting
    <2>9. Registry!DeletedStaysDeleted'
        BY <2>3, RegistryAssumption
        DEF RegistryInv, Registry!TypeOK, Registry!DeletedStaysDeleted,
            Registry!Stored, Registry!Exists
    <2>10. UpToDate'
        BY <2>2, <2>3, <2>4
        DEF RegistryInv, UpToDate, Registry!Stored, Registry!Exists, Others,
            Kept
    <2>11. Sound'
      <3> SUFFICES ASSUME ~crossed'
                   PROVE  Registry!RecipientsHaveProfiles' /\ Validated'
        BY DEF Sound
      <3>1. ~crossed /\ ~Registry!Inserting(job[p].f)
        BY <2>3
      <3>2. Registry!RecipientsHaveProfiles /\ Validated
        BY <3>1 DEF RegistryInv, Sound
      <3>3. Registry!Unused(job[p].f)
        BY <3>2, <2>3 DEF Validated
      <3>4. Registry!RecipientsHaveProfiles'
        BY <3>2, <3>3, <2>3
        DEF Registry!RecipientsHaveProfiles, Registry!Stored, Registry!Exists,
            Registry!Unused, Registry!Dependents
      <3>5. ASSUME NEW q \in Registry!Procs, job'[q] # None, job'[q].at = "insert"
            PROVE  Registry!Stored(job[q].f)'
        <4>1. q # p /\ job[q] # None /\ job'[q].f = job[q].f /\ job[q].at = "insert"
          BY <3>5, <2>2, <2>4 DEF Others, Kept
        <4>2. Registry!Stored(job[q].f) /\ job[q].f # job[p].f
          BY <4>1, <3>1, <3>2 DEF Validated, Registry!Inserting
        <4> QED
          BY <4>1, <4>2, <2>3 DEF Registry!Stored, RegistryInv, Registry!TypeOK
      <3>6. ASSUME NEW q \in Registry!Procs, job'[q] # None, job'[q].at \in {"get", "delete"}
            PROVE  Registry!Unused(job[q].f)'
        BY <3>2, <3>6, <2>2, <2>3, <2>4
        DEF Validated, Others, Kept, Registry!Unused, Registry!Dependents,
            Registry!Exists
      <3> QED
        BY <3>4, <3>5, <3>6 DEF Validated
    <2>12. Keyed'
      <3> SUFFICES ASSUME NEW x \in Profiles \ torn'
                   PROVE  KeyedAsNeeded(x)' /\ DeletedAsRead(x)'
        BY DEF Keyed
      <3>1. x \notin torn /\ keys' = keys
        BY <2>3
      <3>2. KeyedAsNeeded(x) /\ DeletedAsRead(x)
        BY <3>1 DEF RegistryInv, Keyed
      <3>3. next # None
        BY <2>1, <2>2, RegistryAssumption DEF Jobs
      <3> QED
        BY <3>2, <3>3, <2>2, <2>3, <2>4
        DEF KeyedAsNeeded, DeletedAsRead, Pending, Owns, Registry!Stored,
            RegistryInv, Registry!TypeOK
    <2> QED
        BY <2>5, <2>6, <2>7, <2>8, <2>9, <2>10, <2>11, <2>12 DEF RegistryInv
  <1>2. CASE p # Window
    <2> DEFINE next == None
    <2>1. next \in Jobs \cup {None}
        OBVIOUS
    <2>2. next = None
        OBVIOUS
    <2>3. /\ Registry!Wrote(p, next, job[p].f)
          /\ profiles' = [profiles EXCEPT ![job[p].f] = None]
          /\ gone' = gone \cup {job[p].f}
          /\ crossed' = (crossed \/ Registry!Inserting(job[p].f))
          /\ UNCHANGED <<recipients, keys>>
          /\ job[p] # None /\ job[p].at = "delete" /\ job[p].op = "delete" /\ job[p].f \in Profiles
          /\ torn' = torn \cup {job[p].f}
          /\ p # Window
        BY <1>2
        DEF Registry!RemoveProfile, Registry!At, RegistryInv, InStage, Staged,
            Registry!TypeOK, Registry!Jobs
    <2> HIDE DEF next
    <2>4. /\ job' \in [Registry!Procs -> Jobs \cup {None}]
          /\ job'[p] = next /\ Others(p)
          /\ \A q \in Registry!Procs \ {p} :
                 job[q] # None /\ job[p].f \in {job[q].f, job[q].r} => ~job'[q].current
        BY <2>1, <2>3, Wrote DEF RegistryInv, Registry!Procs
    <2>5. Registry!TypeOK'
        BY <2>3, <2>4 DEF RegistryInv, Registry!TypeOK, Jobs
    <2>6. InStage'
        BY <1>2, <2>1, <2>2, <2>4 DEF RegistryInv, InStage, Staged, Others, Kept
    <2>7. Fresh'
        BY <2>2, <2>3, <2>4, RegistryAssumption
        DEF RegistryInv, Registry!Jobs, Jobs, Fresh, Registry!Stored,
            Registry!Exists, Others, Kept
    <2>8. Named'
        BY <1>2, <2>1, <2>2, <2>3, <2>4, RegistryAssumption
        DEF RegistryInv, Registry!TypeOK, Registry!Jobs, Jobs,
            Registry!ProfileRecord, Registry!RecipientRecord, Registry!Procs,
            Registry!Creds, InStage, Staged, Fresh, Named, KnownProfile,
            KnownRecipient, Registry!Stored, Registry!Exists, Others, Kept,
            Registry!Inserting
    <2>9. Registry!DeletedStaysDeleted'
        BY <2>3, RegistryAssumption
        DEF RegistryInv, Registry!TypeOK, Registry!DeletedStaysDeleted,
            Registry!Stored, Registry!Exists
    <2>10. UpToDate'
        BY <2>2, <2>3, <2>4
        DEF RegistryInv, UpToDate, Registry!Stored, Registry!Exists, Others,
            Kept
    <2>11. Sound'
      <3> SUFFICES ASSUME ~crossed'
                   PROVE  Registry!RecipientsHaveProfiles' /\ Validated'
        BY DEF Sound
      <3>1. ~crossed /\ ~Registry!Inserting(job[p].f)
        BY <2>3
      <3>2. Registry!RecipientsHaveProfiles /\ Validated
        BY <3>1 DEF RegistryInv, Sound
      <3>3. Registry!Unused(job[p].f)
        BY <3>2, <2>3 DEF Validated
      <3>4. Registry!RecipientsHaveProfiles'
        BY <3>2, <3>3, <2>3
        DEF Registry!RecipientsHaveProfiles, Registry!Stored, Registry!Exists,
            Registry!Unused, Registry!Dependents
      <3>5. ASSUME NEW q \in Registry!Procs, job'[q] # None, job'[q].at = "insert"
            PROVE  Registry!Stored(job[q].f)'
        <4>1. q # p /\ job[q] # None /\ job'[q].f = job[q].f /\ job[q].at = "insert"
          BY <3>5, <2>2, <2>4 DEF Others, Kept
        <4>2. Registry!Stored(job[q].f) /\ job[q].f # job[p].f
          BY <4>1, <3>1, <3>2 DEF Validated, Registry!Inserting
        <4> QED
          BY <4>1, <4>2, <2>3 DEF Registry!Stored, RegistryInv, Registry!TypeOK
      <3>6. ASSUME NEW q \in Registry!Procs, job'[q] # None, job'[q].at \in {"get", "delete"}
            PROVE  Registry!Unused(job[q].f)'
        BY <3>2, <3>6, <2>2, <2>3, <2>4
        DEF Validated, Others, Kept, Registry!Unused, Registry!Dependents,
            Registry!Exists
      <3> QED
        BY <3>4, <3>5, <3>6 DEF Validated
    <2>12. Keyed'
        BY <1>2, <2>1, <2>2, <2>3, <2>4, RegistryAssumption
        DEF RegistryInv, Registry!TypeOK, Registry!Jobs, Jobs,
            Registry!ProfileRecord, Registry!RecipientRecord, Registry!Procs,
            Registry!Creds, Keyed, KeyedAsNeeded, DeletedAsRead, Pending, Owns,
            Registry!Stored, Others, Kept
    <2> QED
        BY <2>5, <2>6, <2>7, <2>8, <2>9, <2>10, <2>11, <2>12 DEF RegistryInv
  <1> QED
    BY <1>1, <1>2 DEF Registry!RemoveProfile, Registry!At, Registry!Inserting

\* and then its key.
LEMMA DeleteKeyKeeps ==
  ASSUME RegistryInv, NEW p \in Registry!Procs, Registry!DeleteKey(p)
  PROVE  RegistryInv'
  <1> USE RegistryAssumption DEF RegistryInv, Registry!TypeOK, InStage, Staged, Registry!At,
     Registry!Go, Registry!DeleteKey, Registry!store, Registry!Jobs, Registry!ProfileRecord,
     Registry!RecipientRecord, Registry!Procs
  <1>1. Registry!TypeOK'
    BY DEF Registry!Creds
  <1>2. InStage'
    BY DEF Registry!Creds
  <1>3. Fresh'
    BY DEF Fresh, Registry!Stored, Registry!Exists, Named, KnownProfile,
           KnownRecipient
  <1>4. Named'
    BY DEF Named, KnownProfile, KnownRecipient, Registry!Stored,
           Registry!Exists, Registry!Dependents
  <1>5. Registry!DeletedStaysDeleted'
    BY DEF Registry!DeletedStaysDeleted, Fresh, UpToDate, Registry!Stored,
           Registry!Exists
  <1>6. UpToDate'
    BY DEF UpToDate, Registry!Stored, Registry!Exists, Fresh
  <1>7. Sound'
    BY DEF Sound, Validated, UpToDate, Fresh, Registry!RecipientsHaveProfiles,
           Registry!Unused, Registry!Dependents, Registry!Stored,
           Registry!Exists
  <1>8. Keyed'
    BY DEF Keyed, KeyedAsNeeded, DeletedAsRead, Pending, Owns, Fresh,
           Registry!Stored
  <1> QED
    BY <1>1, <1>2, <1>3, <1>4, <1>5, <1>6, <1>7, <1>8

\* An operation that is refused at one of its calls ends there,
LEMMA RefuseKeeps ==
  ASSUME RegistryInv, NEW p \in Registry!Procs, Registry!Refuse(p)
  PROVE  RegistryInv'
  <1> USE RegistryAssumption DEF RegistryInv, Registry!TypeOK, InStage, Staged, Registry!Undone,
     Registry!Half, Registry!Go, Registry!Refuse, Registry!store, Registry!Jobs,
     Registry!ProfileRecord, Registry!RecipientRecord, Registry!Procs
  <1>1. Registry!TypeOK'
    BY DEF Registry!Creds
  <1>2. InStage'
    BY DEF Registry!Creds
  <1>3. Fresh'
    BY DEF Fresh, Registry!Stored, Registry!Exists, Named, KnownProfile,
           KnownRecipient
  <1>4. Named'
    BY DEF Named, KnownProfile, KnownRecipient, Registry!Stored,
           Registry!Exists, Registry!Dependents
  <1>5. Registry!DeletedStaysDeleted'
    BY DEF Registry!DeletedStaysDeleted, Fresh, UpToDate, Registry!Stored,
           Registry!Exists
  <1>6. UpToDate'
    BY DEF UpToDate, Registry!Stored, Registry!Exists, Fresh
  <1>7. Sound'
    BY DEF Sound, Validated, UpToDate, Fresh, Registry!RecipientsHaveProfiles,
           Registry!Unused, Registry!Dependents, Registry!Stored,
           Registry!Exists
  <1>8. Keyed'
    BY DEF Keyed, KeyedAsNeeded, DeletedAsRead, Pending, Owns, Fresh, UpToDate,
           Registry!Stored
  <1> QED
    BY <1>1, <1>2, <1>3, <1>4, <1>5, <1>6, <1>7, <1>8

\* and so does one whose process stops.
LEMMA CrashKeeps ==
  ASSUME RegistryInv, NEW p \in Registry!Procs, Registry!Crash(p)
  PROVE  RegistryInv'
  <1> USE RegistryAssumption DEF RegistryInv, Registry!TypeOK, InStage, Staged, Registry!Half,
     Registry!Go, Registry!Crash, Registry!store, Registry!Jobs, Registry!ProfileRecord,
     Registry!RecipientRecord, Registry!Procs
  <1>1. Registry!TypeOK'
    BY DEF Registry!Creds
  <1>2. InStage'
    BY DEF Registry!Creds
  <1>3. Fresh'
    BY DEF Fresh, Registry!Stored, Registry!Exists, Named, KnownProfile,
           KnownRecipient
  <1>4. Named'
    BY DEF Named, KnownProfile, KnownRecipient, Registry!Stored,
           Registry!Exists, Registry!Dependents
  <1>5. Registry!DeletedStaysDeleted'
    BY DEF Registry!DeletedStaysDeleted, Fresh, UpToDate, Registry!Stored,
           Registry!Exists
  <1>6. UpToDate'
    BY DEF UpToDate, Registry!Stored, Registry!Exists, Fresh
  <1>7. Sound'
    BY DEF Sound, Validated, UpToDate, Fresh, Registry!RecipientsHaveProfiles,
           Registry!Unused, Registry!Dependents, Registry!Stored,
           Registry!Exists
  <1>8. Keyed'
    BY DEF Keyed, KeyedAsNeeded, DeletedAsRead, Pending, Owns, Fresh, UpToDate,
           Registry!Stored
  <1> QED
    BY <1>1, <1>2, <1>3, <1>4, <1>5, <1>6, <1>7, <1>8

-----------------------------------------------------------------------------
(* ProviderRegistry: the theorem *)

\* There is no record at first.
LEMMA RegistryInit ==
  ASSUME Registry!Init
  PROVE  RegistryInv
  BY RegistryAssumption
  DEF Registry!Init, RegistryInv, Registry!TypeOK, InStage, Staged, Fresh, Named, KnownProfile,
     KnownRecipient, Registry!DeletedStaysDeleted, UpToDate, Sound, Validated,
     Registry!RecipientsHaveProfiles, Registry!Unused, Registry!Dependents, Keyed, KeyedAsNeeded,
     DeletedAsRead, Pending, Owns, Registry!Stored, Registry!Exists, Registry!Procs

\* Every call keeps the invariant.
LEMMA RegistryStep ==
  ASSUME RegistryInv, Registry!Next \/ UNCHANGED registryVars
  PROVE  RegistryInv'
  <1>1. ASSUME NEW f \in Profiles, NEW r \in Recipients, Registry!NewProvider(f, r)
        PROVE  RegistryInv'
    BY <1>1, NewProviderKeeps
  <1>2. ASSUME NEW p \in Registry!Procs, NEW f \in Profiles, NEW cred \in Registry!Creds, Registry!NewProfile(p, f, cred)
        PROVE  RegistryInv'
    BY <1>2, NewProfileKeeps
  <1>3. ASSUME NEW f \in Profiles, NEW withKey \in BOOLEAN, Registry!EditProvider(f, withKey)
        PROVE  RegistryInv'
    BY <1>3, EditProviderKeeps
  <1>4. ASSUME NEW p \in Registry!Procs, NEW f \in Profiles, Registry!ToggleProvider(p, f)
        PROVE  RegistryInv'
    BY <1>4, ToggleProviderKeeps
  <1>5. ASSUME NEW p \in Registry!Procs, NEW f \in Profiles, Registry!DeleteProvider(p, f)
        PROVE  RegistryInv'
    BY <1>5, DeleteProviderKeeps
  <1>6. ASSUME NEW p \in Registry!Procs, NEW r \in Recipients, NEW f \in Profiles, Registry!NewRecipient(p, r, f)
        PROVE  RegistryInv'
    BY <1>6, NewRecipientKeeps
  <1>7. ASSUME NEW p \in Registry!Procs, NEW r \in Recipients, Registry!ToggleRecipient(p, r)
        PROVE  RegistryInv'
    BY <1>7, ToggleRecipientKeeps
  <1>8. ASSUME NEW p \in Registry!Procs, NEW r \in Recipients, Registry!DeleteRecipient(p, r)
        PROVE  RegistryInv'
    BY <1>8, DeleteRecipientKeeps
  <1>9. ASSUME NEW f \in Profiles, Registry!KeyCommand(f) PROVE RegistryInv'
    BY <1>9, KeyCommandKeeps
  <1>10. ASSUME NEW p \in Registry!Procs, Registry!SetKey(p) PROVE RegistryInv'
    BY <1>10, SetKeyKeeps
  <1>11. ASSUME NEW p \in Registry!Procs, Registry!CreateProfile(p) PROVE RegistryInv'
    BY <1>11, CreateProfileKeeps
  <1>12. ASSUME NEW p \in Registry!Procs, Registry!ReadVersion(p) PROVE RegistryInv'
    BY <1>12, ReadVersionKeeps
  <1>13. ASSUME NEW p \in Registry!Procs, Registry!CommitProfile(p) PROVE RegistryInv'
    BY <1>13, CommitProfileKeeps
  <1>14. ASSUME NEW p \in Registry!Procs, Registry!CommitRecipient(p) PROVE RegistryInv'
    BY <1>14, CommitRecipientKeeps
  <1>15. ASSUME NEW p \in Registry!Procs, Registry!Validate(p) PROVE RegistryInv'
    BY <1>15, ValidateKeeps
  <1>16. ASSUME NEW p \in Registry!Procs, Registry!InsertRecipient(p) PROVE RegistryInv'
    BY <1>16, InsertRecipientKeeps
  <1>17. ASSUME NEW p \in Registry!Procs, NEW r \in Recipients, Registry!NextDependent(p, r)
         PROVE  RegistryInv'
    BY <1>17, NextDependentKeeps
  <1>18. ASSUME NEW p \in Registry!Procs, Registry!RemoveRecipient(p) PROVE RegistryInv'
    BY <1>18, RemoveRecipientKeeps
  <1>19. ASSUME NEW p \in Registry!Procs, Registry!ListRecipients(p) PROVE RegistryInv'
    BY <1>19, ListRecipientsKeeps
  <1>20. ASSUME NEW p \in Registry!Procs, Registry!GetProfile(p) PROVE RegistryInv'
    BY <1>20, GetProfileKeeps
  <1>21. ASSUME NEW p \in Registry!Procs, Registry!RemoveProfile(p) PROVE RegistryInv'
    BY <1>21, RemoveProfileKeeps
  <1>22. ASSUME NEW p \in Registry!Procs, Registry!DeleteKey(p) PROVE RegistryInv'
    BY <1>22, DeleteKeyKeeps
  <1>23. ASSUME NEW p \in Registry!Procs, Registry!Refuse(p) PROVE RegistryInv'
    BY <1>23, RefuseKeeps
  <1>24. ASSUME NEW p \in Registry!Procs, Registry!Crash(p) PROVE RegistryInv'
    BY <1>24, CrashKeeps
  <1>25. CASE UNCHANGED registryVars
    BY <1>25 DEF registryVars, RegistryInv, Registry!TypeOK, InStage, Staged, Fresh, Named,
       KnownProfile, KnownRecipient, Registry!DeletedStaysDeleted, UpToDate, Sound, Validated,
       Registry!RecipientsHaveProfiles, Registry!Unused, Registry!Dependents, Keyed,
       KeyedAsNeeded, DeletedAsRead, Pending, Owns, Registry!Stored, Registry!Exists
  <1> QED
    BY Zenon, <1>1, <1>2, <1>3, <1>4, <1>5, <1>6, <1>7, <1>8, <1>9, <1>10, <1>11, <1>12, <1>13,
       <1>14, <1>15, <1>16, <1>17, <1>18, <1>19, <1>20, <1>21, <1>22, <1>23, <1>24,
       <1>25 DEF Registry!Next, Registry!Procs

\* The invariant gives what the registry agrees on.
LEMMA RegistryImplies ==
  ASSUME RegistryInv
  PROVE  /\ Registry!TypeOK /\ Registry!ProfilesGoUnusedUnlessRaced
         /\ Registry!DeletedStaysDeleted /\ Registry!KeysFollowProfiles
  <1>1. Registry!ProfilesGoUnusedUnlessRaced
    BY DEF RegistryInv, Sound, Registry!ProfilesGoUnusedUnlessRaced
  <1>2. Registry!KeysFollowProfiles
    BY DEF RegistryInv, Keyed, KeyedAsNeeded, Pending, Owns, Registry!KeysFollowProfiles
  <1> QED
    BY <1>1, <1>2 DEF RegistryInv

\* The profile of every recipient is stored, no late update brings a deleted record
\* back, and the Keychain has the keys of the profiles that say so, each unless one of
\* the races and failures ProviderRegistry names.
THEOREM RegistryHolds == LibrarySpec => []RegistryAgrees
  <1> DEFINE Inv == part = "registry" => RegistryInv
  <1>1. Start => Inv
    BY RegistryInit DEF Start
  <1>2. Inv /\ [Step]_library => Inv'
    BY RegistryStep DEF Step, library, registryVars
  <1>3. Inv => RegistryAgrees
    BY RegistryImplies DEF RegistryAgrees
  <1> QED
    BY <1>1, <1>2, <1>3, PTL DEF LibrarySpec

-----------------------------------------------------------------------------
(* Attention *)

\* Attention counts as FiniteSets does.
LEMMA SameCardinality == \A S : Ask!Cardinality(S) = Cardinality(S)
  BY Zenon DEF Ask!Cardinality, Cardinality, Ask!IsFiniteSet, IsFiniteSet

\* The greatest of some numbers.
LEMMA MaxIs ==
  ASSUME NEW S \in SUBSET Nat, NEW m \in S, \A j \in S : j <= m
  PROVE  Ask!Max(S) = m
  <1>1. m \in S /\ \A y \in S : m >= y
    OBVIOUS
  <1>2. \A x \in S : (\A y \in S : x >= y) => x = m
    OBVIOUS
  <1> QED
    BY <1>1, <1>2 DEF Ask!Max

\* Where the context is not cut, it has all.
LEMMA NewestIsAll ==
  ASSUME NEW S \in SUBSET Nat, IsFiniteSet(S), ~(Cardinality(S) > Limit)
  PROVE  Ask!Newest(S) = S
  <1>1. ASSUME NEW i \in S PROVE Cardinality({j \in S : j > i}) < Limit
    <2> DEFINE T == {j \in S : j > i}
    <2>1. IsFiniteSet(S \ {i}) /\ Cardinality(S \ {i}) = Cardinality(S) - 1
      BY FS_RemoveElement
    <2>2. T \in SUBSET (S \ {i})
      BY SMT
    <2>3. IsFiniteSet(T) /\ Cardinality(T) <= Cardinality(S \ {i})
      BY <2>1, <2>2, FS_Subset
    <2>4. Cardinality(S) \in Nat /\ Cardinality(T) \in Nat
      BY <2>3, FS_CardinalityType
    <2> QED
      BY <2>1, <2>3, <2>4, AttentionAssumption
  <1>2. \A i \in S : Ask!Cardinality({j \in S : j > i}) < Limit
    BY <1>1, SameCardinality
  <1> QED
    BY <1>2 DEF Ask!Newest

\* What the entries of the log have come to.
Statuses == {"proposed", "approved", "rejected", "done", "started", "stale", "completed",
             "failed", "cancelled", "manual"}
\* Entries: what they are, and of what.
Facts == [kind: Ask!Kinds, of: Asked \cup Nat]

\* The exchanges with r; the last of them is there, if there is one.
ExchangesWith(r) == {i \in Ask!Of("exchange") : log[i].of = r}
HasLast(S) == S # {} => \E m \in S : \A j \in S : j <= m

AskInv ==
    /\ log \in Seq(Facts) /\ status \in Seq(Statuses) /\ Ask!TypeOK
    /\ \A i \in Ask!Of("exchange") : log[i].of \in Asked
    /\ \A r \in Asked : HasLast(ExchangesWith(r))

\* Records stay what they are.
Extends == Len(log) <= Len(log') /\ \A i \in Ask!Ids : log'[i] = log[i]

\* The log is empty at first.
LEMMA AskInit ==
  ASSUME Ask!Init
  PROVE  AskInv
  <1>1. log \in Seq(Facts) /\ status \in Seq(Statuses) /\ Len(log) = 0 /\ Len(status) = 0
    BY DEF Ask!Init
  <1>2. Ask!Ids = {}
    BY <1>1 DEF Ask!Ids
  <1> QED
    BY <1>1, <1>2, AttentionAssumption
    DEF AskInv, Ask!TypeOK, Ask!Init, Ask!Of, ExchangesWith, HasLast

\* A step that writes nothing leaves every entry.
LEMMA AskSame ==
  ASSUME AskInv, UNCHANGED log, status' \in Seq(Statuses), Len(status') = Len(status),
         open' \in BOOLEAN, healthy' \in BOOLEAN
  PROVE  AskInv' /\ Extends
  BY DEF AskInv, Ask!TypeOK, Ask!Ids, Ask!Of, ExchangesWith, HasLast, Extends

\* An entry that is appended points back to one that is there.
LEMMA AskAppend ==
  ASSUME AskInv, NEW kind \in Ask!Kinds, NEW of \in Asked \cup 0..Len(log),
         kind = "exchange" => of \in Asked,
         Len(log) < MaxLog, log' = Append(log, [kind |-> kind, of |-> of]),
         NEW before \in Seq(Statuses), Len(before) = Len(status), NEW s \in Statuses,
         status' = Append(before, s), UNCHANGED <<open, healthy>>
  PROVE  AskInv' /\ Extends
  <1> DEFINE n == Len(log)
             fact == [kind |-> kind, of |-> of]
  <1>1. log \in Seq(Facts) /\ n \in Nat /\ fact \in Facts /\ fact.kind = kind /\ fact.of = of
    BY DEF AskInv, Facts
  <1> HIDE DEF fact
  <1>2. /\ log' \in Seq(Facts) /\ Len(log') = n + 1 /\ log'[n + 1] = fact
        /\ \A i \in 1..n : log'[i] = log[i]
    BY <1>1, AppendProperties DEF fact
  <1>3. status' \in Seq(Statuses) /\ Len(status') = n + 1
    BY <1>1, AppendProperties DEF AskInv, Ask!TypeOK
  <1>4. Extends
    BY <1>1, <1>2 DEF Extends, Ask!Ids
  <1>5. Ask!Ids = 1..n /\ Ask!Ids' = 1..n + 1
    BY <1>2 DEF Ask!Ids
  <1>6. Ask!TypeOK'
    <2>1. ASSUME NEW i \in 1..n + 1
          PROVE  log'[i].kind \in Ask!Kinds /\ log'[i].of \in Asked \cup 0..i - 1
      <3>1. CASE i \in 1..n
        BY <3>1, <1>2, <1>5 DEF AskInv, Ask!TypeOK
      <3>2. CASE i = n + 1
        BY <3>2, <1>1, <1>2
      <3> QED
        BY <3>1, <3>2, <1>1
    <2> QED
      BY <2>1, <1>1, <1>2, <1>3, <1>5, AttentionAssumption DEF AskInv, Ask!TypeOK
  <1>7. /\ \A i \in 1..n : i \in Ask!Of("exchange")' <=> i \in Ask!Of("exchange")
        /\ n + 1 \in Ask!Of("exchange")' <=> kind = "exchange"
        /\ Ask!Of("exchange")' \subseteq 1..n + 1 /\ Ask!Of("exchange") \subseteq 1..n
    BY <1>1, <1>2, <1>5 DEF Ask!Of
  <1>8. \A i \in Ask!Of("exchange")' : log'[i].of \in Asked
    BY <1>1, <1>2, <1>7 DEF AskInv
  <1>9. ASSUME NEW r \in Asked PROVE HasLast(ExchangesWith(r))'
    <2>1. CASE kind = "exchange" /\ of = r
      <3>1. n + 1 \in ExchangesWith(r)'
        BY <2>1, <1>1, <1>2, <1>7 DEF ExchangesWith
      <3>2. \A j \in ExchangesWith(r)' : j <= n + 1
        BY <1>1, <1>7 DEF ExchangesWith
      <3> QED
        BY <3>1, <3>2 DEF HasLast
    <2>2. CASE ~(kind = "exchange" /\ of = r)
      <3>1. ExchangesWith(r)' = ExchangesWith(r)
        BY <2>2, <1>1, <1>2, <1>7 DEF ExchangesWith
      <3> QED
        BY <3>1 DEF AskInv, HasLast
    <2> QED
      BY <2>1, <2>2
  <1> QED
    BY <1>2, <1>3, <1>4, <1>6, <1>8, <1>9 DEF AskInv

\* So does one with its status.
LEMMA AskAdd ==
  ASSUME AskInv, NEW kind \in Ask!Kinds, NEW of \in Asked \cup 0..Len(log),
         kind = "exchange" => of \in Asked, NEW s \in Statuses, Ask!Add(kind, of, s)
  PROVE  AskInv' /\ Extends
  BY AskAppend DEF AskInv, Ask!Add

\* A status that changes leaves every entry.
LEMMA AskBecomes ==
  ASSUME AskInv, NEW i \in Ask!Ids, NEW s \in Statuses, Ask!Becomes(i, s)
  PROVE  AskInv' /\ Extends
  <1>1. status' \in Seq(Statuses) /\ Len(status') = Len(status)
    BY ExceptSeq DEF AskInv, Ask!TypeOK, Ask!Ids, Ask!Becomes
  <1> QED
    BY <1>1, AskSame DEF AskInv, Ask!TypeOK, Ask!Becomes

\* Every step keeps the invariant and every entry.
LEMMA AskStep ==
  ASSUME AskInv, Ask!Next \/ UNCHANGED askVars
  PROVE  AskInv' /\ Extends
  <1> USE DEF Ask!Kinds, Statuses
  <1>1. Len(log) \in Nat /\ Ask!Ids = 1..Len(log)
    BY DEF AskInv, Ask!Ids
  <1>2. CASE Ask!Propose \/ Ask!AssignNone
    BY <1>1, <1>2, AskAdd DEF Ask!Propose, Ask!AssignNone
  <1>3. CASE Ask!SetOpen \/ Ask!Health \/ UNCHANGED askVars
    <2>1. status' \in Seq(Statuses) /\ Len(status') = Len(status) /\ UNCHANGED log
      BY <1>3 DEF AskInv, Ask!SetOpen, Ask!Health, askVars
    <2>2. open' \in BOOLEAN /\ healthy' \in BOOLEAN
      BY <1>3 DEF AskInv, Ask!TypeOK, Ask!SetOpen, Ask!Health, askVars
    <2> QED
      BY <2>1, <2>2, AskSame
  <1>4. ASSUME NEW i \in Ask!Ids, NEW s \in {"approved", "rejected", "proposed"},
               Ask!Review(i, s)
        PROVE  AskInv' /\ Extends
    <2>1. [status EXCEPT ![i] = s] \in Seq(Statuses) /\ Len([status EXCEPT ![i] = s]) = Len(status)
      BY <1>1, ExceptSeq DEF AskInv, Ask!TypeOK
    <2>2. /\ Len(log) < MaxLog /\ log' = Append(log, [kind |-> "review", of |-> i])
          /\ status' = Append([status EXCEPT ![i] = s], "done") /\ UNCHANGED <<open, healthy>>
      BY <1>4 DEF Ask!Review
    <2>3. i \in Asked \cup 0..Len(log) /\ "review" \in Ask!Kinds /\ "done" \in Statuses
      BY <1>1
    <2> HIDE DEF Ask!Kinds, Statuses
    <2> QED
      BY <2>1, <2>2, <2>3, AskAppend
  <1>5. ASSUME NEW i \in Ask!Ids, NEW s \in {"completed", "failed", "cancelled"},
               Ask!Finish(i, s)
        PROVE  AskInv' /\ Extends
    BY <1>5, AskBecomes DEF Ask!Finish
  <1>6. ASSUME NEW i \in Ask!Ids,
               Ask!Assign(i) \/ Ask!Start(i) \/ Ask!ReviewExecution(i)
        PROVE  AskInv' /\ Extends
    BY <1>1, <1>6, AskAdd DEF Ask!Assign, Ask!Start, Ask!ReviewExecution
  <1>7. ASSUME NEW i \in Ask!Ids, Ask!GoStale(i) \/ Ask!Heartbeat(i)
        PROVE  AskInv' /\ Extends
    BY <1>7, AskBecomes DEF Ask!GoStale, Ask!Heartbeat
  <1>8. ASSUME NEW r \in Asked, NEW s \in {"completed", "failed", "manual"},
               Ask!Exchange(r, s)
        PROVE  AskInv' /\ Extends
    BY <1>1, <1>8, AskAdd DEF Ask!Exchange
  <1> QED
    BY <1>2, <1>3, <1>4, <1>5, <1>6, <1>7, <1>8 DEF Ask!Next

\* The entries of a kind are finitely many.
LEMMA OfIsFinite ==
  ASSUME AskInv, NEW kind
  PROVE  Ask!Of(kind) \in SUBSET Nat /\ IsFiniteSet(Ask!Of(kind))
  <1>1. Len(log) \in Nat /\ Ask!Ids = 1..Len(log) /\ Ask!Of(kind) \in SUBSET Ask!Ids
    BY DEF AskInv, Ask!Ids, Ask!Of
  <1>2. IsFiniteSet(Ask!Ids)
    BY <1>1, FS_Interval
  <1> QED
    BY <1>1, <1>2, FS_Subset

\* The context has all records there are.
LEMMA ContextHasAll ==
  ASSUME AskInv, ~Ask!Truncates
  PROVE  /\ Ask!Proposals = Ask!Of("proposal") /\ Ask!Assignments = Ask!Of("assignment")
         /\ Ask!Executions = Ask!Of("execution")
         /\ Ask!ExecutionReviews = Ask!Of("execution_review")
         /\ Ask!Reviews = {i \in Ask!Of("review") : log[i].of \in Ask!Of("proposal")}
  <1>1. ASSUME NEW kind \in Ask!Kinds \ {"exchange"}
        PROVE  ~(Cardinality(Ask!Of(kind)) > Limit)
    BY <1>1, SameCardinality DEF Ask!Truncates
  <1>2. ASSUME NEW kind \in Ask!Kinds \ {"exchange"}
        PROVE  Ask!Newest(Ask!Of(kind)) = Ask!Of(kind)
    BY <1>1, <1>2, OfIsFinite, NewestIsAll
  <1>3. /\ Ask!Proposals = Ask!Of("proposal") /\ Ask!Assignments = Ask!Of("assignment")
        /\ Ask!Executions = Ask!Of("execution")
        /\ Ask!ExecutionReviews = Ask!Of("execution_review")
    BY <1>2 DEF Ask!Kinds, Ask!Proposals, Ask!Assignments, Ask!Executions, Ask!ExecutionReviews
  <1>4. Ask!Reviews = {i \in Ask!Of("review") : log[i].of \in Ask!Of("proposal")}
    <2> DEFINE R == {i \in Ask!Of("review") : log[i].of \in Ask!Of("proposal")}
    <2>1. R \in SUBSET Ask!Of("review")
      OBVIOUS
    <2>2. R \in SUBSET Nat /\ IsFiniteSet(R) /\ Cardinality(R) <= Cardinality(Ask!Of("review"))
      BY <2>1, OfIsFinite, FS_Subset
    <2>3. Cardinality(R) \in Nat /\ Cardinality(Ask!Of("review")) \in Nat
      BY <2>2, OfIsFinite, FS_CardinalityType
    <2>4. ~(Cardinality(R) > Limit)
      BY <1>1, <2>2, <2>3, AttentionAssumption DEF Ask!Kinds
    <2> HIDE DEF R
    <2>5. Ask!Newest(R) = R
      BY <2>2, <2>4, NewestIsAll
    <2> QED
      BY <2>5, <1>3 DEF R, Ask!Reviews
  <1> QED
    BY <1>3, <1>4

\* The last exchange with a recipient.
LEMMA LastExchange ==
  ASSUME AskInv, NEW r \in Asked, NEW m \in ExchangesWith(r)
  PROVE  /\ Ask!Last(r) \in ExchangesWith(r)
         /\ \A j \in ExchangesWith(r) : j <= Ask!Last(r)
         /\ (\A j \in ExchangesWith(r) : j <= m) => Ask!Last(r) = m
  <1>1. ExchangesWith(r) \in SUBSET Nat
    BY OfIsFinite DEF ExchangesWith
  <1>2. Ask!Last(r) = Ask!Max(ExchangesWith(r))
    BY DEF Ask!Last, ExchangesWith
  <1>3. PICK n \in ExchangesWith(r) : \A j \in ExchangesWith(r) : j <= n
    BY DEF AskInv, HasLast
  <1>4. Ask!Max(ExchangesWith(r)) = n
    BY <1>1, <1>3, MaxIs
  <1> QED
    BY <1>1, <1>2, <1>3, <1>4, MaxIs

\* The exchanges that are latest are those with nothing after them.
LEMMA LatestIs ==
  ASSUME AskInv
  PROVE  Ask!Latest = {i \in Ask!Of("exchange") :
                           \A j \in Ask!Of("exchange") : log[j].of = log[i].of => j <= i}
  <1>1. ASSUME NEW i \in Ask!Latest
        PROVE  /\ i \in Ask!Of("exchange")
               /\ \A j \in Ask!Of("exchange") : log[j].of = log[i].of => j <= i
    <2>1. PICK k \in Ask!Of("exchange") : i = Ask!Last(log[k].of)
      BY DEF Ask!Latest
    <2>2. log[k].of \in Asked /\ k \in ExchangesWith(log[k].of)
      BY DEF AskInv, ExchangesWith
    <2>3. i \in ExchangesWith(log[k].of) /\ \A j \in ExchangesWith(log[k].of) : j <= i
      BY <2>1, <2>2, LastExchange
    <2> QED
      BY <2>3 DEF ExchangesWith
  <1>2. ASSUME NEW i \in Ask!Of("exchange"),
               \A j \in Ask!Of("exchange") : log[j].of = log[i].of => j <= i
        PROVE  i \in Ask!Latest
    <2>1. log[i].of \in Asked /\ i \in ExchangesWith(log[i].of)
      BY DEF AskInv, ExchangesWith
    <2>2. \A j \in ExchangesWith(log[i].of) : j <= i
      BY <1>2 DEF ExchangesWith
    <2>3. Ask!Last(log[i].of) = i
      BY <2>1, <2>2, LastExchange
    <2> QED
      BY <2>3 DEF Ask!Latest
  <1> QED
    BY <1>1, <1>2

\* The invariant gives that what is asked is true.
LEMMA AskImplies ==
  ASSUME AskInv
  PROVE  Ask!TypeOK /\ Ask!CompletionIsTrue /\ Ask!RetriesResolve
  <1>1. ASSUME NEW item \in Ask!Items, item.kind = "complete_work", ~Ask!Truncates,
               NEW i \in Ask!Of("execution")
        PROVE  status[i] = "completed" /\ \E j \in Ask!Of("execution_review") : log[j].of = i
    <2>1. Ask!ToDo = {} /\ Ask!Completable
      <3>1. \A x \in Ask!ToDo : x.kind # "complete_work"
        BY DEF Ask!ToDo, Ask!ResolveFailure, Ask!ReviewResult, Ask!ReviewProposal,
               Ask!AssignWork, Ask!ReviewWork, Ask!RebuildGraph, Ask!Item
      <3> QED
        BY <1>1, <3>1 DEF Ask!Items
    <2>2. i \in Ask!Executions
      BY <1>1, ContextHasAll
    <2>3. status[i] = "completed"
      BY <2>1, <2>2 DEF Ask!Completable
    <2>4. Ask!Reviewed(i)
      <3>1. Ask!ReviewWork = {}
        BY <2>1 DEF Ask!ToDo
      <3> QED
        BY <2>2, <2>3, <3>1 DEF Ask!ReviewWork, Ask!Item
    <2> QED
      BY <1>1, <2>3, <2>4, ContextHasAll DEF Ask!Reviewed
  <1>2. ASSUME NEW item \in Ask!Items, item.kind = "resolve_failure",
               log[item.of].kind = "exchange", NEW j \in Ask!Of("exchange"),
               log[j].of = log[item.of].of
        PROVE  j <= item.of
    <2>1. item \in Ask!ResolveFailure
      BY <1>2 DEF Ask!Items, Ask!ToDo, Ask!ReviewResult, Ask!ReviewProposal,
               Ask!AssignWork, Ask!ReviewWork, Ask!RebuildGraph, Ask!Item
    <2>2. item.of \in Ask!Latest \/ item.of \in Ask!Executions
      BY <2>1 DEF Ask!ResolveFailure, Ask!Item, Ask!Failed
    <2>3. item.of \notin Ask!Executions
      BY <1>2 DEF Ask!Executions, Ask!Newest, Ask!Of
    <2> QED
      BY <1>2, <2>2, <2>3, LatestIs
  <1> QED
    BY <1>1, <1>2 DEF AskInv, Ask!CompletionIsTrue, Ask!RetriesResolve

\* A Work is called done only when all of it is done and reviewed, and a failure that
\* was answered is not shown.
THEOREM AttentionHolds == LibrarySpec => []AttentionIsTrue
  <1> DEFINE Inv == part = "attention" => AskInv
  <1>1. Start => Inv
    BY AskInit DEF Start
  <1>2. Inv /\ [Step]_library => Inv'
    BY AskStep DEF Step, library, askVars
  <1>3. Inv => AttentionIsTrue
    BY AskImplies DEF AttentionIsTrue
  <1> QED
    BY <1>1, <1>2, <1>3, PTL DEF LibrarySpec

\* What was answered is not asked again: the same of the state a step ends in.
ContextIsWhole ==
    /\ Ask!Proposals = Ask!Of("proposal") /\ Ask!Assignments = Ask!Of("assignment")
    /\ Ask!Executions = Ask!Of("execution")
    /\ Ask!ExecutionReviews = Ask!Of("execution_review")
    /\ Ask!Reviews = {i \in Ask!Of("review") : log[i].of \in Ask!Of("proposal")}
\* The latest exchange with a recipient is after the others.
LatestAreLast ==
    Ask!Latest = {i \in Ask!Of("exchange") :
                      \A j \in Ask!Of("exchange") : log[j].of = log[i].of => j <= i}

\* What is known of a state is known of the next.
LEMMA Afterwards ==
  /\ (AskInv /\ ~Ask!Truncates => ContextIsWhole)'
  /\ (AskInv => LatestAreLast)'
  /\ (AskInv => \A kind : Ask!Of(kind) \in SUBSET Nat /\ IsFiniteSet(Ask!Of(kind)))'
  <1>1. AskInv /\ ~Ask!Truncates => ContextIsWhole
    BY ContextHasAll DEF ContextIsWhole
  <1>2. AskInv => LatestAreLast
    BY LatestIs DEF LatestAreLast
  <1>3. AskInv => \A kind : Ask!Of(kind) \in SUBSET Nat /\ IsFiniteSet(Ask!Of(kind))
    BY OfIsFinite
  <1> QED
    BY <1>1, <1>2, <1>3, PTL

\* A step adds to what was there; if no record is cut off, none was.
LEMMA ContextGrows ==
  ASSUME AskInv, AskInv', Extends, ~Ask!Truncates'
  PROVE  /\ ~Ask!Truncates
         /\ \A kind : Ask!Of(kind) \subseteq Ask!Of(kind)'
         /\ \A kind : \A i \in Ask!Of(kind)' : i \in Ask!Ids => i \in Ask!Of(kind)
  <1>1. \A kind : /\ Ask!Of(kind) \subseteq Ask!Of(kind)'
                  /\ \A i \in Ask!Of(kind)' : i \in Ask!Ids => i \in Ask!Of(kind)
    BY DEF Extends, Ask!Of, Ask!Ids, AskInv
  <1>2. ASSUME NEW kind \in Ask!Kinds \ {"exchange"}
        PROVE  ~(Ask!Cardinality(Ask!Of(kind)) > Limit)
    <2> DEFINE A == Ask!Of(kind)
               B == Ask!Of(kind)'
    <2>1. IsFiniteSet(A) /\ IsFiniteSet(B) /\ A \in SUBSET B
      BY <1>1, OfIsFinite, Afterwards
    <2>2. Cardinality(A) <= Cardinality(B) /\ Cardinality(A) \in Nat /\ Cardinality(B) \in Nat
      BY <2>1, FS_Subset, FS_CardinalityType
    <2>3. ~(Ask!Cardinality(Ask!Of(kind)') > Limit)
      BY <1>2 DEF Ask!Truncates
    <2>4. Ask!Cardinality(A) = Cardinality(A) /\ Ask!Cardinality(B) = Cardinality(B)
      BY SameCardinality
    <2> QED
      BY <2>2, <2>3, <2>4, AttentionAssumption
  <1> QED
    BY <1>1, <1>2 DEF Ask!Truncates

\* Nothing is asked that the step did not touch.
LEMMA NothingNewIsAsked ==
  ASSUME AskInv, AskInv', Extends, open' = open, ~Ask!Truncates',
         NEW item \in Ask!Items', item \notin Ask!Items
  PROVE  item.of = 0 \/ Ask!Touched(item.of)
  <1> DEFINE i == item.of
  <1> SUFFICES ASSUME i # 0, i \in Ask!Ids, status'[i] = status[i] PROVE FALSE
    BY DEF Ask!Touched
  <1>1. ContextIsWhole /\ LatestAreLast
    BY ContextGrows, ContextHasAll, LatestIs DEF ContextIsWhole, LatestAreLast
  <1>2. ContextIsWhole' /\ LatestAreLast'
    BY Afterwards
  <1>3. open /\ open' /\ item \notin Ask!ToDo
    BY DEF Ask!Items
  <1>4. item \in Ask!ToDo'
    BY DEF Ask!Items, Ask!Item
  <1>5. \A kind : /\ Ask!Of(kind) \subseteq Ask!Of(kind)'
                  /\ i \in Ask!Of(kind)' => i \in Ask!Of(kind)
    BY ContextGrows
  <1>6. \A kind : \A j \in Ask!Of(kind) : log'[j] = log[j]
    BY DEF Extends, Ask!Of
  <1>7. i \in Ask!Latest' => i \in Ask!Latest
    BY <1>1, <1>2, <1>5, <1>6 DEF LatestAreLast
  <1>8. CASE item \in Ask!ResolveFailure'
    <2>1. item.kind = "resolve_failure" /\ item = [kind |-> item.kind, of |-> i]
      BY <1>8 DEF Ask!ResolveFailure, Ask!Item
    <2>2. (i \in Ask!Latest' /\ status'[i] = "failed") \/ i \in Ask!Failed'
      BY <1>8 DEF Ask!ResolveFailure, Ask!Item
    <2>3. (i \in Ask!Latest /\ status[i] = "failed") \/ i \in Ask!Failed
      BY <2>2, <1>1, <1>2, <1>5, <1>7 DEF ContextIsWhole, Ask!Failed
    <2> QED
      BY <2>1, <2>3, <1>3 DEF Ask!ToDo, Ask!ResolveFailure, Ask!Item
  <1>9. CASE item \in Ask!ReviewResult'
    <2>1. /\ item = [kind |-> "review_result", of |-> i]
          /\ i \in Ask!Latest' /\ status'[i] = "completed"
          /\ ~\E j \in Ask!Proposals' \cup Ask!Reviews' \cup Ask!ExecutionReviews' : j > i
      BY <1>9 DEF Ask!ReviewResult, Ask!Item, Ask!Later
    <2>2. /\ Ask!Proposals \subseteq Ask!Proposals' /\ Ask!Reviews \subseteq Ask!Reviews'
          /\ Ask!ExecutionReviews \subseteq Ask!ExecutionReviews'
      BY <1>1, <1>2, <1>5, <1>6 DEF ContextIsWhole
    <2>3. ~Ask!Later(Ask!Proposals \cup Ask!Reviews \cup Ask!ExecutionReviews, i)
      BY <2>1, <2>2 DEF Ask!Later
    <2> QED
      BY <2>1, <2>3, <1>3, <1>7 DEF Ask!ToDo, Ask!ReviewResult, Ask!Item
  <1>10. CASE item \in Ask!ReviewProposal'
    <2>1. item = [kind |-> "review_proposal", of |-> i] /\ i \in Ask!Proposals'
          /\ status'[i] = "proposed"
      BY <1>10 DEF Ask!ReviewProposal, Ask!Item
    <2>2. i \in Ask!Proposals
      BY <2>1, <1>1, <1>2, <1>5 DEF ContextIsWhole
    <2> QED
      BY <2>1, <2>2, <1>3 DEF Ask!ToDo, Ask!ReviewProposal, Ask!Item
  <1>11. CASE item \in Ask!AssignWork'
    <2>1. /\ item = [kind |-> "assign_work", of |-> i] /\ i \in Ask!Proposals'
          /\ status'[i] = "approved" /\ ~\E j \in Ask!Assignments' : log'[j].of = i
      BY <1>11 DEF Ask!AssignWork, Ask!Item, Ask!Assigned
    <2>2. i \in Ask!Proposals /\ ~Ask!Assigned(i)
      BY <2>1, <1>1, <1>2, <1>5, <1>6 DEF ContextIsWhole, Ask!Assigned
    <2> QED
      BY <2>1, <2>2, <1>3 DEF Ask!ToDo, Ask!AssignWork, Ask!Item
  <1>12. CASE item \in Ask!ReviewWork'
    <2>1. /\ item = [kind |-> "review_execution", of |-> i] /\ i \in Ask!Executions'
          /\ status'[i] = "completed" /\ ~\E j \in Ask!ExecutionReviews' : log'[j].of = i
      BY <1>12 DEF Ask!ReviewWork, Ask!Item, Ask!Reviewed
    <2>2. i \in Ask!Executions /\ ~Ask!Reviewed(i)
      BY <2>1, <1>1, <1>2, <1>5, <1>6 DEF ContextIsWhole, Ask!Reviewed
    <2> QED
      BY <2>1, <2>2, <1>3 DEF Ask!ToDo, Ask!ReviewWork, Ask!Item
  <1>13. CASE item \in Ask!RebuildGraph'
    BY <1>13 DEF Ask!RebuildGraph, Ask!Item
  <1> QED
    BY <1>4, <1>8, <1>9, <1>10, <1>11, <1>12, <1>13 DEF Ask!ToDo

\* A step makes items only for the record it makes or changes.
THEOREM AnsweredHolds == LibrarySpec => AnsweredStaysAnswered
  <1> DEFINE Inv == part = "attention" => AskInv
  <1>1. Start => Inv
    BY AskInit DEF Start
  <1>2. Inv /\ [Step]_library => Inv'
    BY AskStep DEF Step, library, askVars
  <1>3. ASSUME Inv, [Step]_library
        PROVE  [open' = open /\ ~Ask!Truncates' =>
                   \A item \in Ask!Items' \ Ask!Items :
                       item.of = 0 \/ Ask!Touched(item.of)]_(Ask!vars)
    <2>1. UNCHANGED Ask!vars \/ (AskInv /\ AskInv' /\ Extends)
      BY <1>3, AskStep DEF Step, library, askVars, Ask!vars
    <2> QED
      BY <2>1, NothingNewIsAsked
  <1> QED
    BY <1>1, <1>2, <1>3, PTL DEF LibrarySpec, AnsweredStaysAnswered, Ask!AnsweredStaysAnswered

-----------------------------------------------------------------------------
(* ContextGraph *)

\* A graph has no edge to a node it has not.
Closed(graph) == Graph!Ends(graph.edges) = DOMAIN graph.owner

\* What a writer is to save is the graph of the records, unless another wrote
\* since it built it.
Saves(q) ==
    /\ writer[q] \in [step: {"idle", "build", "save"}, built: {writer[q].built}, clean: BOOLEAN]
    /\ writer[q].step = "save" =>
         /\ Closed(writer[q].built)
         /\ writer[q].clean => writer[q].built = Graph!Current

GraphInv ==
    /\ Graph!TypeOK /\ Graph!HealthyUnlessRaced
    /\ DOMAIN writer = Writers /\ \A q \in Writers : Saves(q)

\* The graph of the records has the ends of its edges.
LEMMA CurrentIsClosed == Closed(Graph!Current)
  BY DEF Closed, Graph!Current, Graph!Graph

\* ContextGraph counts as FiniteSets does.
LEMMA SameCount == \A S : Graph!Cardinality(S) = Cardinality(S)
  BY Zenon DEF Graph!Cardinality, Cardinality, Graph!IsFiniteSet, IsFiniteSet

\* list_works with its i-th Work first is a list of the same Works.
LEMMA MovedIsListed ==
  ASSUME NEW s \in Graph!SetToSeqs(Works), NEW i \in 2..Len(s)
  PROVE  <<s[i]>> \o Graph!RemoveAt(s, i) \in Graph!SetToSeqs(Works)
  <1> DEFINE n == Cardinality(Works)
             r == Graph!RemoveAt(s, i)
             t == <<s[i]>> \o r
  <1>1. n \in Nat /\ s \in [1..n -> Works] /\ \A j, k \in 1..n : j # k => s[j] # s[k]
    BY GraphAssumption, FS_CardinalityType, SameCount DEF Graph!SetToSeqs
  <1>2. s \in Seq(Works) /\ Len(s) = n
    BY <1>1
  <1> HIDE DEF n
  <1>3. /\ SubSeq(s, 1, i - 1) \in Seq(Works) /\ Len(SubSeq(s, 1, i - 1)) = i - 1
        /\ \A j \in 1..i - 1 : SubSeq(s, 1, i - 1)[j] = s[j]
    BY <1>2
  <1>4. /\ SubSeq(s, i + 1, n) \in Seq(Works) /\ Len(SubSeq(s, i + 1, n)) = n - i
        /\ \A j \in 1..n - i : SubSeq(s, i + 1, n)[j] = s[i + j]
    BY <1>2
  <1>5. /\ r \in Seq(Works) /\ Len(r) = n - 1
        /\ \A j \in 1..n - 1 : r[j] = IF j < i THEN s[j] ELSE s[j + 1]
    BY <1>1, <1>2, <1>3, <1>4, Z3 DEF Graph!RemoveAt
  <1> HIDE DEF r
  <1>6. /\ t \in Seq(Works) /\ Len(t) = n
        /\ \A j \in 1..n : t[j] = IF j = 1 THEN s[i] ELSE r[j - 1]
    BY <1>1, <1>2, <1>5
  <1> HIDE DEF t
  <1>7. t \in [1..n -> Works]
    BY <1>6
  <1> DEFINE from(j) == IF j = 1 THEN i ELSE IF j <= i THEN j - 1 ELSE j
  <1>8. ASSUME NEW j \in 1..n PROVE from(j) \in 1..n /\ t[j] = s[from(j)]
    <2>1. CASE j = 1
      BY <1>2, <1>6, <2>1
    <2>2. CASE j # 1
      <3>1. j - 1 \in 1..n - 1 /\ t[j] = r[j - 1]
        BY <1>1, <1>6, <2>2
      <3>2. r[j - 1] = IF j - 1 < i THEN s[j - 1] ELSE s[j - 1 + 1]
        BY <1>5, <3>1
      <3> QED
        BY <1>1, <2>2, <3>1, <3>2
    <2> QED
      BY <2>1, <2>2
  <1>9. \A j, k \in 1..n : j # k => from(j) # from(k)
    BY <1>1, <1>2
  <1> HIDE DEF from
  <1>10. \A j, k \in 1..n : j # k => t[j] # t[k]
    BY <1>1, <1>8, <1>9
  <1> QED
    BY <1>7, <1>10, SameCount DEF Graph!SetToSeqs, n, t, r

\* The records of a run that begins busy are ones that refresh the graph.
LEMMA BusyIsRecorded == Graph!Busy \subseteq Graph!Refreshed
  <1>1. \A c \in Conversations : Graph!Topic[c] \in Works
    BY GraphAssumption DEF Graph!Topic
  <1>2. (CHOOSE w \in Works : TRUE) \in Works
    BY GraphAssumption
  <1>3. \A c \in Conversations : Graph!Said(c) \subseteq Graph!Refreshed
    BY <1>1 DEF Graph!Said, Graph!Refreshed
  <1>4. {Graph!Artifact("file", w) : w \in Works} \subseteq Graph!Refreshed
    BY DEF Graph!Refreshed
  <1>5. \A w \in Works : Graph!Change(w) \in Graph!Refreshed
    BY DEF Graph!Refreshed
  <1>6. Graph!Change(CHOOSE w \in Works : TRUE) \in Graph!Refreshed
    BY <1>2, <1>5, Zenon
  <1> QED
    BY <1>3, <1>4, <1>6 DEF Graph!Busy

\* A writer that rests has nothing to save.
LEMMA IdleHas ==
  ASSUME NEW step \in {"idle", "build"}, NEW next, next = [Graph!Idle EXCEPT !.step = step]
  PROVE  next \in [step: {"idle", "build"}, built: {None}, clean: {TRUE}] /\ next.step = step
  <1>1. Graph!Idle \in [step: {"idle", "build"}, built: {None}, clean: {TRUE}]
    BY DEF Graph!Idle
  <1> QED
    BY <1>1

\* Nothing is stored at first.
LEMMA GraphInit ==
  ASSUME Graph!Init
  PROVE  GraphInv
  BY BusyIsRecorded
  DEF GraphInv, Saves, Graph!Init, Graph!TypeOK, Graph!HealthyUnlessRaced, Graph!Settled,
     Graph!Idle

\* A write leaves a saver of old graphs that knows it.
LEMMA WrittenKeeps ==
  ASSUME GraphInv, NEW p, NEW next \in [step: {"idle", "build"}, built: {None}, clean: {TRUE}],
         Graph!Written(p, next)
  PROVE  /\ DOMAIN writer' = Writers /\ \A q \in Writers : Saves(q)'
         /\ \A q \in Writers : writer'[q].step \in {"idle", "build", "save"}
         /\ p \in Writers => writer'[p].step = next.step
         /\ \A q \in Writers \ {p} : writer'[q].step = writer[q].step
  <1>1. writer' = [q \in Writers |-> IF q = p THEN next ELSE [writer[q] EXCEPT !.clean = FALSE]]
    BY DEF Graph!Written
  <1>2. ASSUME NEW q \in Writers
        PROVE  /\ Saves(q)' /\ writer'[q].step \in {"idle", "build", "save"}
               /\ q = p => writer'[q].step = next.step
               /\ q # p => writer'[q].step = writer[q].step
    <2>1. CASE q = p
      BY <1>1, <2>1 DEF Saves
    <2>2. CASE q # p
      <3>1. /\ writer'[q] \in [step: {"idle", "build", "save"}, built: {writer[q].built}, clean: {FALSE}]
            /\ writer'[q].step = writer[q].step
        BY <1>1, <2>2 DEF GraphInv, Saves
      <3> QED
        BY <3>1, <2>2 DEF GraphInv, Saves, Graph!TypeOK, Closed
    <2> QED
      BY <2>1, <2>2
  <1> QED
    BY <1>1, <1>2

\* Every step keeps the invariant.
LEMMA GraphStep ==
  ASSUME GraphInv, Graph!Next
  PROVE  GraphInv'
  <1> USE DEF GraphInv, Graph!TypeOK
  <1>1. ASSUME NEW p \in Writers, NEW r \in Graph!Refreshed, Graph!Write(p, r)
        PROVE  GraphInv'
    <2>1. /\ Graph!Refresh \in [step: {"idle", "build"}, built: {None}, clean: {TRUE}]
          /\ stored # None => Graph!Refresh.step = "build"
      BY IdleHas DEF Graph!Refresh
    <2>2. Graph!Written(p, Graph!Refresh)
      BY <1>1 DEF Graph!Write
    <2> QED
      BY <1>1, <2>1, <2>2, WrittenKeeps DEF Graph!Write, Graph!HealthyUnlessRaced, Graph!Settled
  <1>2. ASSUME NEW p \in Writers, NEW i \in 2..Len(order), Graph!Touch(p, i)
        PROVE  GraphInv'
    <2>1. /\ Graph!Refresh \in [step: {"idle", "build"}, built: {None}, clean: {TRUE}]
          /\ stored # None => Graph!Refresh.step = "build"
      BY IdleHas DEF Graph!Refresh
    <2>2. Graph!Written(p, Graph!Refresh)
      BY <1>2 DEF Graph!Touch
    <2>3. order' \in Graph!SetToSeqs(Works)
      BY <1>2, MovedIsListed DEF Graph!Touch
    <2> QED
      BY <1>2, <2>1, <2>2, <2>3, WrittenKeeps
      DEF Graph!Touch, Graph!HealthyUnlessRaced, Graph!Settled
  <1>3. ASSUME NEW p \in Writers, Graph!Rebuild(p)
        PROVE  GraphInv'
    <2> DEFINE next == [Graph!Idle EXCEPT !.step = "build"]
    <2>1. next \in [step: {"idle", "build"}, built: {None}, clean: {TRUE}] /\ next.step = "build"
      BY IdleHas
    <2>4. writer' = [writer EXCEPT ![p] = next]
      BY <1>3 DEF Graph!Rebuild
    <2> HIDE DEF next
    <2>2. UNCHANGED <<order, records, present, stored, raced, silent>>
      BY <1>3 DEF Graph!Rebuild
    <2>3. Graph!Current' = Graph!Current
      BY <2>2 DEF Graph!Current
    <2> QED
      BY <2>1, <2>2, <2>3, <2>4 DEF Saves, Closed, Graph!HealthyUnlessRaced, Graph!Settled
  <1>4. ASSUME NEW p \in Writers, Graph!Build(p)
        PROVE  GraphInv'
    <2>1. UNCHANGED <<order, records, present, stored, raced, silent>>
      BY <1>4 DEF Graph!Build
    <2>2. Graph!Current' = Graph!Current
      BY <2>1 DEF Graph!Current
    <2>3. writer' = [writer EXCEPT ![p] = [step |-> "save", built |-> Graph!Current, clean |-> TRUE]]
      BY <1>4 DEF Graph!Build
    <2> QED
      BY <2>1, <2>2, <2>3, CurrentIsClosed DEF Saves, Closed, Graph!HealthyUnlessRaced,
         Graph!Settled
  <1>5. ASSUME NEW p \in Writers, Graph!Save(p)
        PROVE  GraphInv'
    <2>1. UNCHANGED <<order, records, present>>
      BY <1>5 DEF Graph!Save
    <2>2. Graph!Current' = Graph!Current
      BY <2>1 DEF Graph!Current
    <2>3. writer' = [writer EXCEPT ![p] = [step |-> "idle", built |-> None, clean |-> TRUE]]
      BY <1>5 DEF Graph!Save, Graph!Idle
    <2>4. stored' = writer[p].built /\ raced' = ~writer[p].clean /\ silent' = FALSE
      BY <1>5 DEF Graph!Save
    <2>5. Closed(writer[p].built) /\ (writer[p].clean => writer[p].built = Graph!Current)
      BY <1>5 DEF Graph!Save, Saves
    <2>6. \A q \in Writers : Saves(q)' /\ writer'[q].step \in {"idle", "build", "save"}
      BY <2>2, <2>3 DEF Saves, Closed
    <2>7. Graph!TypeOK'
      BY <2>1, <2>4, <2>5, <2>6 DEF Closed
    <2>8. Graph!HealthyUnlessRaced'
      BY <2>2, <2>4, <2>5 DEF Graph!HealthyUnlessRaced
    <2> QED
      BY <2>3, <2>6, <2>7, <2>8
  <1>6. ASSUME NEW p \in Writers, Graph!Fail(p)
        PROVE  GraphInv'
    <2>1. UNCHANGED <<order, records, present, stored, raced>> /\ silent' = (stored # None)
      BY <1>6 DEF Graph!Fail
    <2>2. Graph!Current' = Graph!Current
      BY <2>1 DEF Graph!Current
    <2>3. writer' = [writer EXCEPT ![p] = [step |-> "idle", built |-> None, clean |-> TRUE]]
      BY <1>6 DEF Graph!Fail, Graph!Idle
    <2> QED
      BY <2>1, <2>2, <2>3 DEF Saves, Closed, Graph!HealthyUnlessRaced, Graph!Settled
  <1>7. ASSUME Graph!Written(None, Graph!Idle), silent' = (stored # None), UNCHANGED <<order, stored, raced>>,
               records' \subseteq Graph!Refreshed, present' \in BOOLEAN
        PROVE  GraphInv'
    <2>1. Graph!Idle \in [step: {"idle", "build"}, built: {None}, clean: {TRUE}]
      BY DEF Graph!Idle
    <2> QED
      BY <1>7, <2>1, WrittenKeeps DEF Graph!HealthyUnlessRaced, Graph!Settled
  <1>8. ASSUME NEW r \in Graph!Unrefreshed, Graph!WriteSilently(r)
        PROVE  GraphInv'
    <2>1. r \in Graph!Refreshed
      BY DEF Graph!Unrefreshed, Graph!Refreshed
    <2> QED
      BY <1>7, <1>8, <2>1 DEF Graph!WriteSilently
  <1>9. CASE Graph!ChangeDisk
    BY <1>7, <1>9 DEF Graph!ChangeDisk
  <1> QED
    BY <1>1, <1>2, <1>3, <1>4, <1>5, <1>6, <1>8, <1>9 DEF Graph!Next

\* Steps of the other parts leave the graph alone.
LEMMA GraphStutters ==
  ASSUME GraphInv, UNCHANGED graphVars
  PROVE  GraphInv'
  BY DEF GraphInv, graphVars, Graph!TypeOK, Graph!HealthyUnlessRaced, Graph!Settled,
     Graph!Current,
         Saves, Closed

\* GraphFollowsRecords: the context graph that is stored is the one of the records
\* as they are, once the refresh of every writer is done, unless the last was built
\* before another's write or a write was not followed by a refresh.
THEOREM GraphHolds == LibrarySpec => []GraphFollowsRecords
  <1>1. Start => GraphInv
    BY GraphInit DEF Start
  <1>2. GraphInv /\ [Step]_library => GraphInv'
    BY GraphStep, GraphStutters DEF Step, library, graphVars
  <1>3. GraphInv => GraphFollowsRecords
    BY DEF GraphInv, GraphFollowsRecords
  <1> QED
    BY <1>1, <1>2, <1>3, PTL DEF LibrarySpec

-----------------------------------------------------------------------------
(* Induction.  The theorems about well-founded relations give a least number  *)
(* of every set of them, and from it induction and recursion, each said of a  *)
(* set or a function rather than of a formula.                                *)

\* A nonempty set of numbers has a least one,
LEMMA LeastNumber ==
  ASSUME NEW T \in SUBSET Nat, T # {}
  PROVE  \E m \in T : \A k \in T : m <= k
<1> DEFINE R == OpToRel(<, Nat)
<1>1. IsWellFoundedOn(R, Nat)
  BY NatLessThanWellFounded
<1>2. PICK m \in T : \A k \in T : <<k, m>> \notin R
  <2> HIDE DEF R
  <2> QED BY <1>1, WFMin
<1>3. \A k, n \in Nat : <<k, n>> \in R <=> k < n
  BY DEF OpToRel
<1> HIDE DEF R
<1>4. \A k \in T : ~ (k < m)
  BY <1>2, <1>3
<1>5. \A k \in T : m <= k
  BY <1>4
<1> QED
  BY <1>5

\* so that a set has all numbers up to N that has 0 and the next of each that it has:
\* this is induction, said of a set.
LEMMA UpTo ==
  ASSUME NEW N \in Nat, NEW T, 0 \in T, \A n \in 1..N : n - 1 \in T => n \in T
  PROVE  \A n \in 0..N : n \in T
<1> SUFFICES ASSUME NEW k \in 0..N, k \notin T
             PROVE  FALSE
  OBVIOUS
<1> DEFINE B == (0..N) \ T
<1>1. B \in SUBSET Nat /\ B # {}
  OBVIOUS
<1>2. PICK m \in B : \A n \in B : m <= n
  <2> HIDE DEF B
  <2> QED BY <1>1, LeastNumber
<1>3. m \in 0..N /\ m # 0 /\ m \notin T
  OBVIOUS
<1>4. m - 1 \in T
  BY <1>2, <1>3
<1> QED
  BY <1>3, <1>4

\* Recursion on the numbers up to N has a solution.
Steps(N, V) == [1..N -> [V -> V]]
Recursive(N, V, base, step) ==
    \E f \in [0..N -> V] : f[0] = base /\ \A n \in 1..N : f[n] = step[n][f[n - 1]]
LEMMA Recursion ==
  ASSUME NEW N \in Nat, NEW V, NEW base \in V, NEW step \in Steps(N, V)
  PROVE  Recursive(N, V, base, step)
<1> USE DEF Steps, Recursive
<1> DEFINE Good(m, f) == f[0] = base /\ \A n \in 1..m : f[n] = step[n][f[n - 1]]
           T == {m \in 0..N : \E f \in [0..m -> V] : Good(m, f)}
<1>1. 0 \in T
  <2>1. [i \in 0..0 |-> base] \in [0..0 -> V] /\ Good(0, [i \in 0..0 |-> base])
    OBVIOUS
  <2>2. \E f \in [0..0 -> V] : Good(0, f)
    BY <2>1
  <2> QED
    BY <2>2
<1>2. ASSUME NEW m \in 1..N, m - 1 \in T
      PROVE  m \in T
  <2>1. PICK f \in [0..(m-1) -> V] : Good(m - 1, f)
    BY <1>2
  <2> DEFINE g == [i \in 0..m |-> IF i = m THEN step[m][f[m - 1]] ELSE f[i]]
  <2>2. g \in [0..m -> V]
    OBVIOUS
  <2>3. g[0] = base
    BY <2>1
  <2>4. ASSUME NEW n \in 1..m
        PROVE  g[n] = step[n][g[n - 1]]
    <3>1. g[n - 1] = f[n - 1]
      OBVIOUS
    <3>2. CASE n = m
      BY <3>1, <3>2
    <3>3. CASE n # m
      <4>1. n \in 1..(m-1) /\ g[n] = f[n]
        BY <3>3
      <4> QED
        BY <2>1, <3>1, <4>1
    <3> QED
      BY <3>2, <3>3
  <2>5. \E h \in [0..m -> V] : Good(m, h)
    BY <2>2, <2>3, <2>4
  <2> QED
    BY <2>5
<1>3. N \in T
  <2>1. \A m \in 1..N : m - 1 \in T => m \in T
    BY <1>2
  <2> HIDE DEF T
  <2>2. \A m \in 0..N : m \in T
    BY <1>1, <2>1, UpTo
  <2> QED
    BY <2>2
<1> QED
  BY <1>3

\* A property of the empty set that a set has when it has it without any of its elements
\* is one of every subset of a finite set.
LEMMA SubsetInduction ==
  ASSUME NEW S, IsFiniteSet(S), NEW T, {} \in T,
         \A E \in SUBSET S : E # {} /\ (\A x \in E : E \ {x} \in T) => E \in T
  PROVE  \A E \in SUBSET S : E \in T
<1> SUFFICES ASSUME NEW F \in SUBSET S, F \notin T
             PROVE  FALSE
  OBVIOUS
<1> DEFINE B == (SUBSET S) \ T
           R == StrictSubsetOrdering(S)
<1>1. \A E \in SUBSET S : IsFiniteSet(E)
  BY FS_Subset
<1>2. B \subseteq FiniteSubsetsOf(S) /\ B # {}
  BY <1>1 DEF FiniteSubsetsOf
<1>3. IsWellFoundedOn(R, FiniteSubsetsOf(S))
  BY FS_StrictSubsetOrderingWellFounded
<1>4. PICK E \in B : \A D \in B : <<D, E>> \notin R
  <2> HIDE DEF B, R
  <2> QED BY <1>2, <1>3, WFMin
<1>5. \A D \in SUBSET S : D \subseteq E /\ D # E => <<D, E>> \in R
  BY DEF StrictSubsetOrdering
<1> HIDE DEF R
<1>6. ASSUME NEW x \in E
      PROVE  E \ {x} \in T
  <2>1. E \ {x} \in SUBSET S /\ E \ {x} \subseteq E /\ E \ {x} # E
    OBVIOUS
  <2>2. <<E \ {x}, E>> \in R
    BY <1>5, <2>1
  <2> QED
    BY <1>4, <2>1, <2>2
<1>7. E # {}
  OBVIOUS
<1> QED
  BY <1>6, <1>7

\* Recursion on the subsets of a finite set, from each to the one without an element
\* that is picked, has a solution.
Picks(S) == {pick \in [(SUBSET S) \ {{}} -> S] : \A E \in (SUBSET S) \ {{}} : pick[E] \in E}
SetSteps(S, V) == [S -> [V -> V]]
SetRecursive(S, V, base, pick, step) ==
    \E f \in [SUBSET S -> V] :
        /\ f[{}] = base
        /\ \A E \in (SUBSET S) \ {{}} : f[E] = step[pick[E]][f[E \ {pick[E]}]]
LEMMA SetRecursion ==
  ASSUME NEW S, IsFiniteSet(S), NEW V, NEW base \in V, NEW pick \in Picks(S),
         NEW step \in SetSteps(S, V)
  PROVE  SetRecursive(S, V, base, pick, step)
<1> DEFINE Small(n) == {E \in SUBSET S : Cardinality(E) <= n}
           Good(n, f) == /\ f[{}] = base
                         /\ \A E \in Small(n) \ {{}} : f[E] = step[pick[E]][f[E \ {pick[E]}]]
           T == {n \in 0..Cardinality(S) : \E f \in [Small(n) -> V] : Good(n, f)}
<1>1. /\ Cardinality(S) \in Nat
      /\ \A E \in SUBSET S : IsFiniteSet(E) /\ Cardinality(E) \in Nat /\ Cardinality(E) <= Cardinality(S)
  BY FS_CardinalityType, FS_Subset
<1>2. \A E \in SUBSET S : Cardinality(E) <= 0 => E = {}
  BY <1>1, FS_EmptySet
<1>3. ASSUME NEW E \in (SUBSET S) \ {{}}
      PROVE  /\ pick[E] \in E /\ E \ {pick[E]} \in SUBSET S
             /\ Cardinality(E \ {pick[E]}) = Cardinality(E) - 1
             /\ \A v \in V : step[pick[E]][v] \in V
  <2>1. pick[E] \in E /\ pick[E] \in S
    BY DEF Picks
  <2>2. Cardinality(E \ {pick[E]}) = Cardinality(E) - 1
    BY <1>1, <2>1, FS_RemoveElement
  <2>3. \A v \in V : step[pick[E]][v] \in V
    BY <2>1 DEF SetSteps
  <2> QED
    BY <2>1, <2>2, <2>3
<1>4. 0 \in T
  <2> DEFINE f == [E \in Small(0) |-> base]
  <2>1. Small(0) = {{}}
    BY <1>2, FS_EmptySet
  <2>2. f \in [Small(0) -> V] /\ f[{}] = base /\ Small(0) \ {{}} = {}
    BY <2>1
  <2>3. \E g \in [Small(0) -> V] : Good(0, g)
    BY <2>2
  <2>4. 0 \in 0..Cardinality(S)
    BY <1>1
  <2> HIDE DEF Good, Small, f
  <2> QED
    BY <2>3, <2>4
<1>5. ASSUME NEW n \in 1..Cardinality(S), n - 1 \in T
      PROVE  n \in T
  <2>1. PICK f \in [Small(n - 1) -> V] : Good(n - 1, f)
    BY <1>5
  <2> DEFINE g == [E \in Small(n) |-> IF E \in Small(n - 1) THEN f[E]
                                      ELSE step[pick[E]][f[E \ {pick[E]}]]]
  <2>2. n \in Nat /\ n >= 1 /\ n \in 0..Cardinality(S)
    BY <1>1
  <2>3. ASSUME NEW E \in Small(n) \ {{}}
        PROVE  /\ E \ {pick[E]} \in Small(n - 1) /\ E \ {pick[E]} \in Small(n)
               /\ g[E \ {pick[E]}] = f[E \ {pick[E]}]
               /\ g[E] = step[pick[E]][g[E \ {pick[E]}]] /\ g[E] \in V
    <3>1. E \in (SUBSET S) \ {{}} /\ Cardinality(E) <= n /\ Cardinality(E) \in Nat
      BY <1>1
    <3>2. E \ {pick[E]} \in SUBSET S /\ Cardinality(E \ {pick[E]}) = Cardinality(E) - 1
      BY <1>3, <3>1
    <3>3. Cardinality(E \ {pick[E]}) <= n - 1 /\ Cardinality(E \ {pick[E]}) <= n
      BY <2>2, <3>1, <3>2
    <3>4. E \ {pick[E]} \in Small(n - 1) /\ E \ {pick[E]} \in Small(n)
      BY <3>2, <3>3
    <3>5. g[E \ {pick[E]}] = f[E \ {pick[E]}] /\ f[E \ {pick[E]}] \in V
      BY <3>4
    <3>6. g[E] = step[pick[E]][f[E \ {pick[E]}]]
      <4>1. CASE E \in Small(n - 1)
        <5>1. g[E] = f[E]
          BY <4>1
        <5> QED
          BY <2>1, <4>1, <5>1
      <4>2. CASE E \notin Small(n - 1)
        BY <4>2
      <4> QED
        BY <4>1, <4>2
    <3> QED
      BY <1>3, <3>1, <3>4, <3>5, <3>6
  <2>4. {} \in Small(n) /\ {} \in Small(n - 1) /\ g[{}] = base
    <3>1. Cardinality({}) = 0
      BY FS_EmptySet
    <3>2. {} \in Small(n) /\ {} \in Small(n - 1)
      BY <2>2, <3>1
    <3> QED
      BY <2>1, <3>2
  <2>5. g \in [Small(n) -> V]
    <3>1. \A E \in Small(n) : g[E] \in V
      BY <2>3, <2>4
    <3> HIDE DEF Small
    <3> QED
      BY <3>1
  <2>6. \E h \in [Small(n) -> V] : Good(n, h)
    <3> HIDE DEF g, Small
    <3> QED
      BY <2>3, <2>4, <2>5
  <2> HIDE DEF Good, Small, g
  <2> QED
    BY <2>2, <2>6
<1>6. \A n \in 1..Cardinality(S) : n - 1 \in T => n \in T
  BY <1>5
<1>7. Cardinality(S) \in T
  <2> HIDE DEF T
  <2>1. \A n \in 0..Cardinality(S) : n \in T
    BY <1>1, <1>4, <1>6, UpTo
  <2> QED
    BY <1>1, <2>1
<1>8. Small(Cardinality(S)) = SUBSET S
  BY <1>1
<1>9. PICK f \in [Small(Cardinality(S)) -> V] : Good(Cardinality(S), f)
  BY <1>7
<1> QED
  BY <1>8, <1>9 DEF SetRecursive

-----------------------------------------------------------------------------
(* ContextAssembly: the package is what the recursions of its bounds make of  *)
(* the candidates in their order.                                             *)

\* A sum adds up its numbers one by one,
LEMMA SumIs ==
  ASSUME NEW N \in Nat, NEW s \in [1..N -> Nat]
  PROVE  \E t \in [0..N -> Nat] :
            t[0] = 0 /\ (\A n \in 1..N : t[n] = t[n - 1] + s[n]) /\ Sum(s) = t[N]
<1> DEFINE step == [n \in 1..N |-> [x \in Nat |-> x + s[n]]]
           total == CHOOSE f : f = [n \in 0..N |-> IF n = 0 THEN 0 ELSE f[n - 1] + s[n]]
<1>1. step \in Steps(N, Nat)
  BY DEF Steps
<1>2. PICK t \in [0..N -> Nat] : t[0] = 0 /\ \A n \in 1..N : t[n] = step[n][t[n - 1]]
  <2> HIDE DEF step
  <2>1. Recursive(N, Nat, 0, step)
    BY <1>1, Recursion
  <2> QED
    BY <2>1 DEF Recursive
<1>3. \A n \in 1..N : t[n] = t[n - 1] + s[n]
  <2> TAKE n \in 1..N
  <2>1. t[n - 1] \in Nat
    OBVIOUS
  <2>2. step[n][t[n - 1]] = t[n - 1] + s[n]
    BY <2>1
  <2> QED
    BY <1>2, <2>2
<1> HIDE DEF step
<1>4. t = [n \in 0..N |-> IF n = 0 THEN 0 ELSE t[n - 1] + s[n]]
  BY <1>2, <1>3
<1>5. total = [n \in 0..N |-> IF n = 0 THEN 0 ELSE total[n - 1] + s[n]]
  BY <1>4
<1>6. Len(s) = N
  BY LenProperties, s \in Seq(Nat)
<1>7. Sum(s) = total[N]
  BY <1>6 DEF Sum
<1> HIDE DEF total
<1>8. \A n \in 0..N : n \in {m \in 0..N : total[m] = t[m]}
  <2> DEFINE T == {m \in 0..N : total[m] = t[m]}
  <2>1. 0 \in T
    BY <1>2, <1>5
  <2>2. \A n \in 1..N : n - 1 \in T => n \in T
    BY <1>3, <1>5
  <2> QED
    <3>1. \A n \in 0..N : n \in T
      <4> HIDE DEF T
      <4> QED BY <2>1, <2>2, UpTo
    <3> QED
      BY <3>1
<1> QED
  BY <1>2, <1>3, <1>7, <1>8

\* so the steps it takes are known by what they are,
LEMMA SumFollows ==
  ASSUME NEW N \in Nat, NEW s \in [1..N -> Nat], NEW t, t[0] = 0,
         \A n \in 1..N : t[n] = t[n - 1] + s[n]
  PROVE  Sum(s) = t[N]
<1>1. PICK u \in [0..N -> Nat] :
         u[0] = 0 /\ (\A n \in 1..N : u[n] = u[n - 1] + s[n]) /\ Sum(s) = u[N]
  BY SumIs
<1>2. \A n \in 0..N : n \in {m \in 0..N : t[m] = u[m]}
  <2> DEFINE T == {m \in 0..N : t[m] = u[m]}
  <2>1. 0 \in T
    BY <1>1
  <2>2. \A n \in 1..N : n - 1 \in T => n \in T
    BY <1>1
  <2> QED
    <3>1. \A n \in 0..N : n \in T
      <4> HIDE DEF T
      <4> QED BY <2>1, <2>2, UpTo
    <3> QED
      BY <3>1
<1> QED
  BY <1>1, <1>2

\* the sum of a longer sequence has one number more,
LEMMA SumGrows ==
  ASSUME NEW N \in Nat, NEW s \in [1..N -> Nat], NEW r \in [1..N + 1 -> Nat],
         \A n \in 1..N : r[n] = s[n]
  PROVE  Sum(s) \in Nat /\ Sum(r) = Sum(s) + r[N + 1]
<1>1. PICK t \in [0..N -> Nat] :
         t[0] = 0 /\ (\A n \in 1..N : t[n] = t[n - 1] + s[n]) /\ Sum(s) = t[N]
  BY SumIs
<1> DEFINE u == [n \in 0..N + 1 |-> IF n = N + 1 THEN t[N] + r[N + 1] ELSE t[n]]
<1>2. u[0] = 0
  BY <1>1
<1>3. ASSUME NEW n \in 1..N + 1
      PROVE  u[n] = u[n - 1] + r[n]
  <2>1. u[n - 1] = t[n - 1]
    OBVIOUS
  <2>2. CASE n = N + 1
    BY <2>1, <2>2
  <2>3. CASE n # N + 1
    <3>1. n \in 1..N /\ u[n] = t[n]
      BY <2>3
    <3> QED
      BY <1>1, <2>1, <3>1
  <2> QED
    BY <2>2, <2>3
<1>4. u[N + 1] = t[N] + r[N + 1] /\ N + 1 \in Nat
  OBVIOUS
<1> HIDE DEF u
<1>5. Sum(r) = u[N + 1]
  BY <1>2, <1>3, <1>4, SumFollows
<1> QED
  BY <1>1, <1>4, <1>5

\* that of none is nothing,
LEMMA SumOfNone ==
  ASSUME NEW s \in [1..0 -> Nat]
  PROVE  Sum(s) = 0
  BY SumIs

\* and that of the first ones is no more than that of all.
LEMMA SumOfFirst ==
  ASSUME NEW N \in Nat, NEW s \in [1..N -> Nat], NEW n \in 0..N, NEW r \in [1..n -> Nat],
         \A i \in 1..n : r[i] = s[i]
  PROVE  Sum(r) <= Sum(s)
<1>1. PICK t \in [0..N -> Nat] :
         t[0] = 0 /\ (\A i \in 1..N : t[i] = t[i - 1] + s[i]) /\ Sum(s) = t[N]
  BY SumIs
<1>2. Sum(r) = t[n]
  <2>1. \A i \in 1..n : t[i] = t[i - 1] + r[i]
    BY <1>1
  <2>2. n \in Nat
    OBVIOUS
  <2> QED
    BY <1>1, <2>1, <2>2, SumFollows
<1>3. \A i \in 0..N : i \in {j \in 0..N : j >= n => t[n] <= t[j]}
  <2> DEFINE T == {j \in 0..N : j >= n => t[n] <= t[j]}
  <2>1. 0 \in T
    BY <1>1
  <2>2. ASSUME NEW i \in 1..N, i - 1 \in T
        PROVE  i \in T
    <3>1. t[i] = t[i - 1] + s[i] /\ t[i] \in Nat /\ t[i - 1] \in Nat /\ s[i] \in Nat /\ t[n] \in Nat
      BY <1>1
    <3>2. CASE i > n
      <4>1. t[n] <= t[i - 1]
        BY <2>2, <3>2
      <4> QED
        BY <3>1, <4>1
    <3>3. CASE i <= n
      BY <3>1, <3>3
    <3> QED
      BY <3>2, <3>3
  <2>3. \A i \in 1..N : i - 1 \in T => i \in T
    BY <2>2
  <2> QED
    <3>1. \A i \in 0..N : i \in T
      <4> HIDE DEF T
      <4> QED BY <2>1, <2>3, UpTo
    <3> QED
      BY <3>1
<1> QED
  BY <1>1, <1>2, <1>3

\* What a package is made of.
ItemStatuses == {"reference", "excluded", "unavailable", "included"}
Sources == {"graph", "worktree", "hint"}
Items ==
    [kind : {"work", "worktree", "file"}, path : Nat, from : Sources,
     status : ItemStatuses \cup {"none"}, size : Nat \ {0}]

\* An item adds its size,
LEMMA SizeGrows ==
  ASSUME NEW items \in Seq(Items), NEW i \in Items
  PROVE  Size(items) \in Nat /\ Size(Append(items, i)) = Size(items) + i.size
<1> DEFINE s == [k \in 1..Len(items) |-> items[k].size]
           r == [k \in 1..Len(items) + 1 |-> Append(items, i)[k].size]
<1>1. Len(items) \in Nat /\ \A k \in 1..Len(items) : items[k] \in Items
  OBVIOUS
<1>2. /\ Len(Append(items, i)) = Len(items) + 1 /\ Append(items, i)[Len(items) + 1] = i
      /\ \A k \in 1..Len(items) : Append(items, i)[k] = items[k]
  OBVIOUS
<1>3. s \in [1..Len(items) -> Nat]
  BY <1>1 DEF Items
<1>4. r \in [1..Len(items) + 1 -> Nat]
  <2>1. \A k \in 1..Len(items) + 1 : Append(items, i)[k] \in Items
    BY <1>1, <1>2
  <2> QED
    BY <2>1 DEF Items
<1>5. \A k \in 1..Len(items) : r[k] = s[k]
  BY <1>2
<1>6. r[Len(items) + 1] = i.size
  BY <1>1, <1>2
<1>7. Size(items) = Sum(s) /\ Size(Append(items, i)) = Sum(r)
  BY <1>2 DEF Size
<1> HIDE DEF s, r
<1> QED
  BY <1>1, <1>3, <1>4, <1>5, <1>6, <1>7, SumGrows

\* an included file its content,
Weight(i) == IF i.status = "included" THEN i.size - 1 ELSE 0
LEMMA ContentGrows ==
  ASSUME NEW items \in Seq(Items), NEW i \in Items
  PROVE  /\ ContentSize(items) \in Nat
         /\ ContentSize(Append(items, i)) = ContentSize(items) + Weight(i)
<1> DEFINE s == [k \in 1..Len(items) |-> Weight(items[k])]
           r == [k \in 1..Len(items) + 1 |-> Weight(Append(items, i)[k])]
<1>1. Len(items) \in Nat /\ \A k \in 1..Len(items) : items[k] \in Items
  OBVIOUS
<1>2. /\ Len(Append(items, i)) = Len(items) + 1 /\ Append(items, i)[Len(items) + 1] = i
      /\ \A k \in 1..Len(items) : Append(items, i)[k] = items[k]
  OBVIOUS
<1>w. \A k \in Items : Weight(k) \in Nat
  BY DEF Weight, Items
<1>3. s \in [1..Len(items) -> Nat]
  BY <1>1, <1>w
<1>4. r \in [1..Len(items) + 1 -> Nat]
  <2>1. \A k \in 1..Len(items) + 1 : Append(items, i)[k] \in Items
    BY <1>1, <1>2
  <2> QED
    BY <2>1, <1>w
<1>5. \A k \in 1..Len(items) : r[k] = s[k]
  BY <1>2
<1>6. r[Len(items) + 1] = Weight(i)
  BY <1>1, <1>2
<1>7. ContentSize(items) = Sum(s) /\ ContentSize(Append(items, i)) = Sum(r)
  BY <1>2 DEF ContentSize, Weight
<1> HIDE DEF s, r
<1> QED
  BY <1>1, <1>3, <1>4, <1>5, <1>6, <1>7, SumGrows

\* and the first of the items are no longer than all.
LEMMA FirstAreShorter ==
  ASSUME NEW items \in Seq(Items), NEW n \in 0..Len(items)
  PROVE  /\ SubSeq(items, 1, n) \in Seq(Items) /\ Len(SubSeq(items, 1, n)) = n
         /\ \A k \in 1..n : SubSeq(items, 1, n)[k] = items[k]
         /\ Size(SubSeq(items, 1, n)) \in Nat
         /\ ContentSize(SubSeq(items, 1, n)) <= ContentSize(items)
<1> DEFINE first == SubSeq(items, 1, n)
           s == [k \in 1..Len(items) |-> Weight(items[k])]
           r == [k \in 1..n |-> Weight(first[k])]
<1>1. first \in Seq(Items) /\ Len(first) = n /\ \A k \in 1..n : first[k] = items[k]
  OBVIOUS
<1>2. Len(items) \in Nat /\ n \in Nat /\ \A k \in 1..Len(items) : items[k] \in Items
  OBVIOUS
<1>3. \A k \in Items : Weight(k) \in Nat
  BY DEF Weight, Items
<1>4. s \in [1..Len(items) -> Nat] /\ r \in [1..n -> Nat]
  BY <1>1, <1>2, <1>3
<1>5. \A k \in 1..n : r[k] = s[k]
  BY <1>1, <1>2
<1>6. ContentSize(items) = Sum(s) /\ ContentSize(first) = Sum(r)
  BY <1>1 DEF ContentSize, Weight
<1>7. Size(first) \in Nat
  <2>1. PICK i : i \in Items
    <3>1. [kind |-> "file", path |-> 0, from |-> "graph", status |-> "none", size |-> 1] \in Items
      BY DEF Items, Sources
    <3> QED
      BY <3>1
  <2> HIDE DEF first
  <2> QED
    BY <1>1, <2>1, SizeGrows
<1> HIDE DEF s, r
<1>8. ContentSize(first) <= ContentSize(items)
  BY <1>2, <1>4, <1>5, <1>6, SumOfFirst
<1> QED
  BY <1>1, <1>7, <1>8

\* No items are nothing.
LEMMA NoItems == Size(<<>>) = 0 /\ ContentSize(<<>>) = 0
<1>1. [k \in 1..0 |-> <<>>[k].size] \in [1..0 -> Nat]
  OBVIOUS
<1>2. [k \in 1..0 |-> IF <<>>[k].status = "included" THEN <<>>[k].size - 1 ELSE 0] \in [1..0 -> Nat]
  OBVIOUS
<1> QED
  BY <1>1, <1>2, SumOfNone DEF Size, ContentSize

\* The files a package is made from.
ShownPaths == Paths \cup {0}
Cands == [path : ShownPaths, from : Sources, relevance : Nat]

LEMMA FileSizes == \A f \in Files : FileSize[f] \in Nat
  BY RequestAssumption DEF Files, FileSize

\* What becomes of the n-th file, and of the content used so far.
StatusOf(c, n, used) ==
    IF n + 2 > MaxReferences THEN "reference"
    ELSE IF c.path \in Sensitive \cup {0} THEN "excluded"
    ELSE IF disk[c.path] = "gone" THEN "unavailable"
    ELSE IF ~Fits(FileSize[disk[c.path]], used) THEN "reference"
    ELSE IF disk[c.path] = "secret" THEN "excluded"
    ELSE "included"
SizeOf(c, s) == IF s = "included" THEN FileSize[disk[c.path]] ELSE 0
ItemOf(c, s) == [kind |-> "file", path |-> c.path, from |-> c.from, status |-> s, size |-> 1 + SizeOf(c, s)]
Added(c, n, out) ==
    [items |-> Append(out.items, ItemOf(c, StatusOf(c, n, out.used))),
     used  |-> out.used + SizeOf(c, StatusOf(c, n, out.used))]
Contents == [items : Seq(Items), used : 0..MaxContent]

\* A file that is added is an item, and does not pass the bound of the content.
LEMMA FileIsAdded ==
  ASSUME disk \in [Paths -> Files], NEW c \in Cands, NEW n \in Nat, NEW out \in Contents
  PROVE  LET s == StatusOf(c, n, out.used)
         IN /\ Added(c, n, out) \in Contents /\ ItemOf(c, s) \in Items
            /\ s \in ItemStatuses /\ Weight(ItemOf(c, s)) = SizeOf(c, s)
<1> DEFINE s == StatusOf(c, n, out.used)
<1>0. out.used \in Nat /\ out.used <= MaxContent /\ out.items \in Seq(Items) /\ MaxContent \in Nat
  BY RequestAssumption DEF Contents
<1>1. s \in ItemStatuses
  BY DEF StatusOf, ItemStatuses
<1>2. s = "included" => c.path \in Paths /\ Fits(FileSize[disk[c.path]], out.used)
  BY DEF StatusOf, Cands, ShownPaths
<1>3. SizeOf(c, s) \in Nat /\ out.used + SizeOf(c, s) \in 0..MaxContent
  <2>1. CASE s = "included"
    <3>1. disk[c.path] \in Files
      BY <1>2, <2>1
    <3>2. FileSize[disk[c.path]] \in Nat
      BY <3>1, FileSizes
    <3>3. out.used + FileSize[disk[c.path]] <= MaxContent
      BY <1>2, <2>1 DEF Fits
    <3> QED
      BY <1>0, <2>1, <3>2, <3>3 DEF SizeOf
  <2>2. CASE s # "included"
    BY <1>0, <2>2 DEF SizeOf
  <2> QED
    BY <2>1, <2>2
<1>4. ItemOf(c, s) \in Items
  <2>1. c.path \in Nat /\ c.from \in Sources
    <3>1. c.path \in Paths \cup {0} /\ c.from \in Sources
      BY DEF Cands, ShownPaths
    <3>2. Paths \cup {0} \subseteq Nat
      BY RequestAssumption
    <3> QED
      BY <3>1, <3>2
  <2>2. 1 + SizeOf(c, s) \in Nat \ {0}
    BY <1>3
  <2> HIDE DEF s
  <2> QED
    BY <1>1, <2>1, <2>2 DEF ItemOf, Items
<1>5. Weight(ItemOf(c, s)) = SizeOf(c, s)
  <2> HIDE DEF s
  <2>1. CASE s = "included"
    BY <1>3, <2>1 DEF Weight, ItemOf
  <2>2. CASE s # "included"
    BY <2>2 DEF Weight, ItemOf, SizeOf
  <2> QED
    BY <2>1, <2>2
<1>6. Added(c, n, out) \in Contents
  <2> HIDE DEF s
  <2>1. Append(out.items, ItemOf(c, s)) \in Seq(Items)
    BY <1>0, <1>4
  <2>2. Added(c, n, out) = [items |-> Append(out.items, ItemOf(c, s)), used |-> out.used + SizeOf(c, s)]
    BY DEF Added, s
  <2> QED
    BY <1>3, <2>1, <2>2 DEF Contents
<1> QED
  BY <1>1, <1>4, <1>5, <1>6

\* The recursion of Content has a solution,
LEMMA ContentSteps ==
  ASSUME disk \in [Paths -> Files], NEW cands \in Seq(Cands)
  PROVE  \E done \in [0..Len(cands) -> Contents] :
            /\ done[0] = [items |-> <<>>, used |-> 0]
            /\ \A n \in 1..Len(cands) : done[n] = Added(cands[n], n, done[n - 1])
            /\ Content(cands) = done[Len(cands)].items
<1> DEFINE N == Len(cands)
           base == [items |-> <<>>, used |-> 0]
           step == [n \in 1..N |-> [out \in Contents |-> Added(cands[n], n, out)]]
           done == CHOOSE f : f = [n \in 0..N |-> IF n = 0 THEN base ELSE Added(cands[n], n, f[n - 1])]
<1>1. N \in Nat /\ \A n \in 1..N : n \in Nat /\ cands[n] \in Cands
  OBVIOUS
<1>2. base \in Contents
  BY RequestAssumption DEF Contents
<1>3. step \in Steps(N, Contents)
  BY <1>1, FileIsAdded DEF Steps
<1>4. PICK t \in [0..N -> Contents] : t[0] = base /\ \A n \in 1..N : t[n] = step[n][t[n - 1]]
  <2> HIDE DEF step, base, N
  <2>1. Recursive(N, Contents, base, step)
    BY <1>1, <1>2, <1>3, Recursion
  <2> QED
    BY <2>1 DEF Recursive
<1>5. \A n \in 1..N : t[n] = Added(cands[n], n, t[n - 1])
  <2> TAKE n \in 1..N
  <2>1. t[n - 1] \in Contents
    BY <1>1
  <2>2. step[n][t[n - 1]] = Added(cands[n], n, t[n - 1])
    BY <2>1
  <2> QED
    BY <1>4, <2>2
<1> HIDE DEF step, base
<1>6. t = [n \in 0..N |-> IF n = 0 THEN base ELSE Added(cands[n], n, t[n - 1])]
  BY <1>4, <1>5
<1>7. done = [n \in 0..N |-> IF n = 0 THEN base ELSE Added(cands[n], n, done[n - 1])]
  BY <1>6
<1>8. Content(cands) = done[N].items
  BY DEF Content, Added, base, StatusOf, SizeOf, ItemOf
<1> HIDE DEF done, N
<1>9. \A n \in 0..N : n \in {m \in 0..N : done[m] = t[m]}
  <2> DEFINE T == {m \in 0..N : done[m] = t[m]}
  <2>1. 0 \in T
    BY <1>1, <1>4, <1>7
  <2>2. ASSUME NEW n \in 1..N, n - 1 \in T
        PROVE  n \in T
    <3>1. n \in 0..N /\ n # 0 /\ done[n - 1] = t[n - 1]
      BY <1>1, <2>2
    <3>2. done[n] = Added(cands[n], n, done[n - 1])
      BY <1>7, <3>1
    <3> QED
      BY <1>5, <3>1, <3>2
  <2>3. \A n \in 1..N : n - 1 \in T => n \in T
    BY <2>2
  <2> QED
    <3>1. \A n \in 0..N : n \in T
      <4> HIDE DEF T
      <4> QED BY <1>1, <2>1, <2>3, UpTo
    <3> QED
      BY <3>1
<1>10. done[N] = t[N]
  BY <1>1, <1>9
<1> QED
  BY <1>4, <1>5, <1>8, <1>10 DEF N, base

\* which has the files in order, and no more content than the bound.
LEMMA ContentIs ==
  ASSUME disk \in [Paths -> Files], NEW cands \in Seq(Cands)
  PROVE  /\ Content(cands) \in Seq(Items) /\ Len(Content(cands)) = Len(cands)
         /\ \A k \in 1..Len(cands) :
               /\ Content(cands)[k].kind = "file" /\ Content(cands)[k].path = cands[k].path
               /\ Content(cands)[k].status \in ItemStatuses
         /\ ContentSize(Content(cands)) <= MaxContent
<1> DEFINE N == Len(cands)
<1>1. PICK done \in [0..N -> Contents] :
         /\ done[0] = [items |-> <<>>, used |-> 0]
         /\ \A n \in 1..N : done[n] = Added(cands[n], n, done[n - 1])
         /\ Content(cands) = done[N].items
  BY ContentSteps
<1>2. N \in Nat /\ \A n \in 1..N : n \in Nat /\ cands[n] \in Cands
  OBVIOUS
<1> DEFINE Good(n) ==
             /\ Len(done[n].items) = n /\ ContentSize(done[n].items) = done[n].used
             /\ \A k \in 1..n : /\ done[n].items[k].kind = "file"
                                /\ done[n].items[k].path = cands[k].path
                                /\ done[n].items[k].status \in ItemStatuses
           T == {n \in 0..N : Good(n)}
<1> HIDE DEF N
<1>3. 0 \in T
  BY <1>1, <1>2, NoItems
<1>4. ASSUME NEW n \in 1..N, n - 1 \in T
      PROVE  n \in T
  <2> DEFINE out == done[n - 1]
             s == StatusOf(cands[n], n, out.used)
             i == ItemOf(cands[n], s)
  <2>1. out \in Contents /\ Good(n - 1) /\ cands[n] \in Cands /\ n \in Nat /\ n \in 0..N
    BY <1>2, <1>4
  <2>2. i \in Items /\ s \in ItemStatuses /\ Weight(i) = SizeOf(cands[n], s)
    BY <2>1, FileIsAdded
  <2>3. i.kind = "file" /\ i.path = cands[n].path /\ i.status = s
    BY DEF ItemOf
  <2>4. done[n] = [items |-> Append(out.items, i), used |-> out.used + SizeOf(cands[n], s)]
    BY <1>1 DEF Added
  <2> HIDE DEF i, s
  <2>5. out.items \in Seq(Items) /\ Len(out.items) = n - 1
    BY <2>1 DEF Contents
  <2>6. Len(done[n].items) = n
    BY <2>1, <2>2, <2>4, <2>5
  <2>7. ContentSize(done[n].items) = done[n].used
    BY <2>1, <2>2, <2>4, <2>5, ContentGrows
  <2>8. ASSUME NEW k \in 1..n
        PROVE  /\ done[n].items[k].kind = "file" /\ done[n].items[k].path = cands[k].path
               /\ done[n].items[k].status \in ItemStatuses
    <3>1. CASE k = n
      <4>1. done[n].items[k] = i
        BY <2>1, <2>2, <2>4, <2>5, <3>1
      <4> QED
        BY <2>2, <2>3, <3>1, <4>1
    <3>2. CASE k # n
      <4>1. k \in 1..(n - 1) /\ done[n].items[k] = out.items[k]
        BY <2>1, <2>2, <2>4, <2>5, <3>2
      <4> QED
        BY <2>1, <4>1
    <3> QED
      BY <3>1, <3>2
  <2> QED
    BY <2>1, <2>6, <2>7, <2>8
<1>5. \A n \in 1..N : n - 1 \in T => n \in T
  BY <1>4
<1>6. \A n \in 0..N : n \in T
  <2> HIDE DEF T
  <2> QED BY <1>2, <1>3, <1>5, UpTo
<1>7. Good(N) /\ done[N] \in Contents
  BY <1>2, <1>6
<1> QED
  <2>1. done[N].used <= MaxContent
    BY <1>7, RequestAssumption DEF Contents
  <2> QED
    BY <1>1, <1>7, <2>1 DEF N, Contents

\* Whether an item is taken after those in out.
Taken(out, i) == Len(out) < MaxItems /\ Size(out) + i.size <= MaxBytes
CutStep(out, i) == IF Taken(out, i) THEN Append(out, i) ELSE out

\* The recursion of Cut has a solution,
LEMMA CutSteps ==
  ASSUME NEW items \in Seq(Items)
  PROVE  \E cut \in [0..Len(items) -> Seq(Items)] :
            /\ cut[0] = <<>> /\ \A n \in 1..Len(items) : cut[n] = CutStep(cut[n - 1], items[n])
            /\ Cut(items) = cut[Len(items)]
<1> DEFINE N == Len(items)
           V == Seq(Items)
           step == [n \in 1..N |-> [out \in V |-> CutStep(out, items[n])]]
           cut == CHOOSE f : f = [n \in 0..N |-> IF n = 0 THEN <<>> ELSE CutStep(f[n - 1], items[n])]
<1>1. N \in Nat /\ \A n \in 1..N : items[n] \in Items
  OBVIOUS
<1>2. <<>> \in V
  OBVIOUS
<1>3. step \in Steps(N, V)
  <2>1. \A n \in 1..N : \A out \in V : CutStep(out, items[n]) \in V
    BY <1>1 DEF CutStep
  <2> QED
    BY <2>1 DEF Steps
<1>4. PICK t \in [0..N -> V] : t[0] = <<>> /\ \A n \in 1..N : t[n] = step[n][t[n - 1]]
  <2> HIDE DEF step, N, V
  <2>1. Recursive(N, V, <<>>, step)
    BY <1>1, <1>2, <1>3, Recursion
  <2> QED
    BY <2>1 DEF Recursive
<1>5. \A n \in 1..N : t[n] = CutStep(t[n - 1], items[n])
  <2> TAKE n \in 1..N
  <2>1. t[n - 1] \in V
    BY <1>1
  <2>2. step[n][t[n - 1]] = CutStep(t[n - 1], items[n])
    BY <2>1
  <2> QED
    BY <1>4, <2>2
<1> HIDE DEF step, V
<1>6. t = [n \in 0..N |-> IF n = 0 THEN <<>> ELSE CutStep(t[n - 1], items[n])]
  BY <1>4, <1>5
<1>7. cut = [n \in 0..N |-> IF n = 0 THEN <<>> ELSE CutStep(cut[n - 1], items[n])]
  BY <1>6
<1>8. Cut(items) = cut[N]
  BY DEF Cut, CutStep, Taken
<1> HIDE DEF cut, N
<1>9. \A n \in 0..N : n \in {m \in 0..N : cut[m] = t[m]}
  <2> DEFINE T == {m \in 0..N : cut[m] = t[m]}
  <2>1. 0 \in T
    BY <1>1, <1>4, <1>7
  <2>2. ASSUME NEW n \in 1..N, n - 1 \in T
        PROVE  n \in T
    <3>1. n \in 0..N /\ n # 0 /\ cut[n - 1] = t[n - 1]
      BY <1>1, <2>2
    <3>2. cut[n] = CutStep(cut[n - 1], items[n])
      BY <1>7, <3>1
    <3> QED
      BY <1>5, <3>1, <3>2
  <2>3. \A n \in 1..N : n - 1 \in T => n \in T
    BY <2>2
  <2> QED
    <3>1. \A n \in 0..N : n \in T
      <4> HIDE DEF T
      <4> QED BY <1>1, <2>1, <2>3, UpTo
    <3> QED
      BY <3>1
<1>10. cut[N] = t[N]
  BY <1>1, <1>9
<1> QED
  BY <1>4, <1>5, <1>8, <1>10 DEF N, V

\* out has some of the first n items, in their order.
Among(out, items, n) ==
    \E e \in [1..Len(out) -> 1..n] :
        /\ \A i \in 1..Len(out) : out[i] = items[e[i]]
        /\ \A i, j \in 1..Len(out) : i < j => e[i] < e[j]

\* An item that is taken comes last, one that is not is passed over.
LEMMA AmongGrows ==
  ASSUME NEW items \in Seq(Items), NEW n \in 1..Len(items), NEW out \in Seq(Items),
         Among(out, items, n - 1)
  PROVE  Among(CutStep(out, items[n]), items, n)
<1>1. PICK e \in [1..Len(out) -> 1..(n - 1)] :
         /\ \A i \in 1..Len(out) : out[i] = items[e[i]]
         /\ \A i, j \in 1..Len(out) : i < j => e[i] < e[j]
  BY DEF Among
<1>2. Len(out) \in Nat /\ n \in Nat /\ items[n] \in Items
  OBVIOUS
<1>3. CASE Taken(out, items[n])
  <2> DEFINE L == Len(out)
             next == Append(out, items[n])
             d == [i \in 1..L + 1 |-> IF i = L + 1 THEN n ELSE e[i]]
  <2>1. CutStep(out, items[n]) = next
    BY <1>3 DEF CutStep
  <2>2. Len(next) = L + 1 /\ next[L + 1] = items[n] /\ \A i \in 1..L : next[i] = out[i]
    BY <1>2
  <2>3. d \in [1..L + 1 -> 1..n]
    BY <1>2
  <2>4. \A i \in 1..L + 1 : next[i] = items[d[i]]
    BY <1>1, <1>2, <2>2
  <2>5. ASSUME NEW i \in 1..L + 1, NEW j \in 1..L + 1, i < j
        PROVE  d[i] < d[j]
    <3>1. i \in 1..L /\ d[i] = e[i] /\ e[i] \in 1..(n - 1)
      BY <1>2, <2>5
    <3>2. CASE j = L + 1
      BY <1>2, <3>1, <3>2
    <3>3. CASE j # L + 1
      <4>1. j \in 1..L /\ d[j] = e[j]
        BY <1>2, <3>3
      <4> QED
        BY <1>1, <2>5, <3>1, <4>1
    <3> QED
      BY <3>2, <3>3
  <2> HIDE DEF d, next
  <2> QED
    BY <2>1, <2>2, <2>3, <2>4, <2>5 DEF Among
<1>4. CASE ~Taken(out, items[n])
  <2>1. CutStep(out, items[n]) = out
    BY <1>4 DEF CutStep
  <2>2. e \in [1..Len(out) -> 1..n]
    BY <1>2
  <2> QED
    BY <1>1, <2>1, <2>2 DEF Among
<1> QED
  BY <1>3, <1>4

\* Its result: items in their order, no more than the bound, all or fewer; the first
\* two when they fit, only the first when that has all the room.
LEMMA CutIs ==
  ASSUME NEW items \in Seq(Items), Len(items) >= 2
  PROVE  /\ Cut(items) \in Seq(Items) /\ Len(Cut(items)) <= MaxItems
         /\ Among(Cut(items), items, Len(items))
         /\ ContentSize(Cut(items)) <= ContentSize(items)
         /\ Len(Cut(items)) <= Len(items)
         /\ Len(Cut(items)) = Len(items) => \A k \in 1..Len(items) : Cut(items)[k] = items[k]
         /\ items[1].size + items[2].size <= MaxBytes =>
               Len(Cut(items)) >= 2 /\ Cut(items)[1] = items[1] /\ Cut(items)[2] = items[2]
         /\ items[1].size = MaxBytes => Len(Cut(items)) = 1 /\ Size(Cut(items)) = MaxBytes
<1> DEFINE N == Len(items)
           s == [k \in 1..N |-> Weight(items[k])]
<1>1. PICK c \in [0..N -> Seq(Items)] :
         /\ c[0] = <<>> /\ \A n \in 1..N : c[n] = CutStep(c[n - 1], items[n])
         /\ Cut(items) = c[N]
  BY CutSteps
<1>2. N \in Nat /\ N >= 2 /\ \A n \in 1..N : items[n] \in Items
  OBVIOUS
<1>3. s \in [1..N -> Nat] /\ ContentSize(items) = Sum(s)
  <2>1. \A k \in Items : Weight(k) \in Nat
    BY DEF Weight, Items
  <2> QED
    BY <1>2, <2>1 DEF ContentSize, Weight
<1>4. PICK t \in [0..N -> Nat] :
         t[0] = 0 /\ (\A n \in 1..N : t[n] = t[n - 1] + s[n]) /\ Sum(s) = t[N]
  <2> HIDE DEF s, N
  <2> QED BY <1>2, <1>3, SumIs
<1>5. \A n \in 1..N : t[n] = t[n - 1] + Weight(items[n])
  BY <1>4
<1> HIDE DEF s, N
<1> DEFINE Fit2 == items[1].size + items[2].size <= MaxBytes
           Good(n) == /\ Len(c[n]) <= MaxItems /\ Len(c[n]) <= n
                      /\ Among(c[n], items, n)
                      /\ ContentSize(c[n]) <= t[n]
                      /\ Len(c[n]) = n => \A k \in 1..n : c[n][k] = items[k]
                      /\ Fit2 /\ n = 1 => Len(c[n]) = 1 /\ c[n][1] = items[1] /\ Size(c[n]) = items[1].size
                      /\ Fit2 /\ n >= 2 => Len(c[n]) >= 2 /\ c[n][1] = items[1] /\ c[n][2] = items[2]
                      /\ items[1].size = MaxBytes /\ n >= 1 => Len(c[n]) = 1 /\ Size(c[n]) = MaxBytes
           T == {n \in 0..N : Good(n)}
<1>a. MaxItems \in Nat /\ MaxItems >= 2 /\ MaxBytes \in Nat
  BY RequestAssumption
<1>6. 0 \in T
  <2>1. Len(c[0]) = 0 /\ ContentSize(c[0]) = 0
    BY <1>1, NoItems
  <2>2. Among(c[0], items, 0)
    <3>1. [i \in 1..Len(c[0]) |-> 0] \in [1..Len(c[0]) -> 1..0]
      BY <2>1
    <3>2. \A i \in 1..Len(c[0]) : FALSE
      BY <2>1
    <3> QED
      BY <3>1, <3>2 DEF Among
  <2> QED
    BY <1>2, <1>4, <1>a, <2>1, <2>2
<1>7. ASSUME NEW n \in 1..N, n - 1 \in T
      PROVE  n \in T
  <2> DEFINE out == c[n - 1]
             i == items[n]
  <2>0. n - 1 \in 0..N /\ n \in 0..N /\ n \in Nat
    BY <1>2
  <2>1. out \in Seq(Items) /\ Len(out) \in Nat /\ i \in Items /\ Good(n - 1) /\ n \in 0..N /\ n \in Nat
    <3>1. out \in Seq(Items)
      BY <2>0
    <3>2. Len(out) \in Nat
      BY <3>1
    <3>3. Good(n - 1)
      BY <1>7
    <3> QED
      BY <1>2, <2>0, <3>1, <3>2, <3>3
  <2>2. c[n] = CutStep(out, i)
    BY <1>1
  <2>3. Size(out) \in Nat /\ Size(Append(out, i)) = Size(out) + i.size /\ ContentSize(out) \in Nat
        /\ ContentSize(Append(out, i)) = ContentSize(out) + Weight(i)
    <3> HIDE DEF i, out
    <3> QED
      BY <2>1, SizeGrows, ContentGrows
  <2>4. i.size \in Nat \ {0} /\ Weight(i) \in Nat
    <3>1. i.size \in Nat \ {0}
      BY <2>1 DEF Items
    <3> HIDE DEF i
    <3> QED
      BY <3>1 DEF Weight
  <2>5. Among(c[n], items, n)
    <3> HIDE DEF i, out
    <3> QED
      BY <2>1, <2>2, AmongGrows, n \in 1..Len(items) DEF out, i, N
  <2>6. t[n] = t[n - 1] + Weight(i) /\ t[n] \in Nat /\ t[n - 1] \in Nat
    BY <1>5, <2>0
  <2>7. CASE Taken(out, i)
    <3>1. c[n] = Append(out, i)
      BY <2>2, <2>7 DEF CutStep
    <3>2. Len(c[n]) = Len(out) + 1 /\ c[n][Len(out) + 1] = i /\ \A k \in 1..Len(out) : c[n][k] = out[k]
      BY <2>1, <3>1
    <3>3. Size(c[n]) = Size(out) + i.size /\ ContentSize(c[n]) = ContentSize(out) + Weight(i)
      BY <2>3, <3>1
    <3>4. Len(c[n]) <= MaxItems /\ Len(c[n]) <= n
      <4>1. Len(out) < MaxItems
        BY <2>7 DEF Taken
      <4>2. Len(out) \in Nat /\ Len(out) <= n - 1 /\ n \in Nat
        BY <2>1
      <4> HIDE DEF i, out
      <4> QED
        BY <1>a, <3>2, <4>1, <4>2
    <3>5. ContentSize(c[n]) <= t[n]
      BY <2>1, <2>3, <2>4, <2>6, <3>3
    <3>6. Len(c[n]) = n => \A k \in 1..n : c[n][k] = items[k]
      BY <2>1, <3>2
    <3>7. Fit2 /\ n = 1 => Len(c[n]) = 1 /\ c[n][1] = items[1] /\ Size(c[n]) = items[1].size
      <4>1. n = 1 => Len(out) = 0 /\ Size(out) = 0
        BY <1>1, NoItems
      <4> QED
        BY <2>4, <3>2, <3>3, <4>1
    <3>8. Fit2 /\ n >= 2 => Len(c[n]) >= 2 /\ c[n][1] = items[1] /\ c[n][2] = items[2]
      <4>1. CASE n = 2
        BY <2>1, <3>2, <4>1
      <4>2. CASE n > 2
        BY <2>1, <3>2, <4>2
      <4> QED
        BY <2>1, <4>1, <4>2
    <3>9. items[1].size = MaxBytes /\ n >= 1 => Len(c[n]) = 1 /\ Size(c[n]) = MaxBytes
      <4>1. CASE n = 1
        <5>1. Len(out) = 0 /\ Size(out) = 0
          BY <1>1, <4>1, NoItems
        <5> QED
          BY <2>4, <3>2, <3>3, <4>1, <5>1
      <4>2. CASE n > 1
        <5>1. Size(out) + i.size <= MaxBytes
          BY <2>7 DEF Taken
        <5>2. items[1].size = MaxBytes => Size(out) = MaxBytes
          BY <2>1, <4>2
        <5>3. items[1].size # MaxBytes
          <6> HIDE DEF i, out
          <6> QED
            BY <1>a, <2>4, <5>1, <5>2
        <5> QED
          BY <5>3
      <4> QED
        BY <2>1, <4>1, <4>2
    <3> QED
      BY <2>1, <2>5, <3>4, <3>5, <3>6, <3>7, <3>8, <3>9
  <2>8. CASE ~Taken(out, i)
    <3>1. c[n] = out
      BY <2>2, <2>8 DEF CutStep
    <3>2. Len(c[n]) <= MaxItems /\ Len(c[n]) < n
      BY <2>1, <3>1
    <3>3. ContentSize(c[n]) <= t[n]
      BY <2>1, <2>3, <2>4, <2>6, <3>1
    <3>4. ~(Fit2 /\ n <= 2)
      <4>1. SUFFICES ASSUME Fit2, n <= 2
                     PROVE  Taken(out, i)
        BY <2>8
      <4>2. items[1].size \in Nat /\ items[2].size \in Nat
        <5>1. items[1] \in Items /\ items[2] \in Items
          BY <1>2
        <5> QED
          BY <5>1 DEF Items
      <4>3. CASE n = 1
        <5>1. Len(out) = 0 /\ Size(out) = 0
          BY <1>1, <4>3, NoItems
        <5> QED
          BY <1>a, <4>1, <4>2, <4>3, <5>1 DEF Taken
      <4>4. CASE n = 2
        <5>1. Len(out) = 1 /\ Size(out) = items[1].size
          BY <2>1, <4>1, <4>4
        <5> QED
          BY <1>a, <4>1, <4>2, <4>4, <5>1 DEF Taken
      <4> QED
        BY <2>1, <4>1, <4>3, <4>4
    <3>5. Fit2 /\ n >= 2 => Len(c[n]) >= 2 /\ c[n][1] = items[1] /\ c[n][2] = items[2]
      BY <2>1, <3>1, <3>4
    <3>6. items[1].size = MaxBytes => n # 1
      <4>1. SUFFICES ASSUME items[1].size = MaxBytes, n = 1
                     PROVE  Taken(out, i)
        BY <2>8
      <4>2. Len(out) = 0 /\ Size(out) = 0
        BY <1>1, <4>1, NoItems
      <4> QED
        BY <1>a, <4>1, <4>2 DEF Taken
    <3>7. items[1].size = MaxBytes /\ n >= 1 => Len(c[n]) = 1 /\ Size(c[n]) = MaxBytes
      BY <2>1, <3>1, <3>6
    <3> QED
      BY <2>1, <2>5, <3>2, <3>3, <3>4, <3>5, <3>7
  <2> QED
    BY <2>7, <2>8
<1>8. \A n \in 1..N : n - 1 \in T => n \in T
  BY <1>7
<1>9. \A n \in 0..N : n \in T
  <2> HIDE DEF T
  <2> QED BY <1>2, <1>6, <1>8, UpTo
<1>10. Good(N) /\ c[N] \in Seq(Items)
  BY <1>2, <1>9
<1> QED
  BY <1>1, <1>2, <1>3, <1>4, <1>10 DEF N

\* What is sent is the first of the items, as many as fit, the first two if there are two.
LEMMA TrimmedIs ==
  ASSUME NEW items \in Seq(Items), NEW truncated \in BOOLEAN, Trimmed(items, truncated) # None
  PROVE  \E n \in 0..Len(items) :
            /\ Trimmed(items, truncated) =
                  [items |-> SubSeq(items, 1, n), truncated |-> truncated \/ n < Len(items)]
            /\ Size(SubSeq(items, 1, n)) + 1 <= MaxBytes
            /\ Len(items) >= 2 => n >= 2
            /\ Len(items) = 1 => n = 1 /\ Size(items) + 1 <= MaxBytes
<1> DEFINE fits(n) == Size(SubSeq(items, 1, n)) + 1 <= MaxBytes
           least == IF Len(items) < 2 THEN Len(items) ELSE 2
           B == {n \in least..Len(items) : n = Len(items) \/ ~fits(n + 1)}
           n == CHOOSE n \in least..Len(items) : fits(n) /\ (n = Len(items) \/ ~fits(n + 1))
<1>1. /\ fits(least)
      /\ Trimmed(items, truncated) =
            [items |-> SubSeq(items, 1, n), truncated |-> truncated \/ n < Len(items)]
  BY DEF Trimmed
<1>2. Len(items) \in Nat /\ least \in Nat /\ least <= Len(items)
  OBVIOUS
<1> HIDE DEF fits
<1>3. B \in SUBSET Nat /\ Len(items) \in B
  BY <1>2
<1>4. PICK m \in B : \A k \in B : m <= k
  <2> HIDE DEF B
  <2> QED BY <1>3, LeastNumber
<1>5. fits(m)
  <2>1. CASE m = least
    BY <1>1, <2>1
  <2>2. CASE m # least
    <3>0. m \in least..Len(items) /\ m \in Int /\ least \in Int /\ Len(items) \in Int
      BY <1>2
    <3>a. m - 1 \in least..Len(items) /\ (m - 1) + 1 = m /\ ~(m <= m - 1)
      BY <2>2, <3>0
    <3>1. m - 1 \in least..Len(items) /\ m - 1 \notin B /\ (m - 1) + 1 = m
      BY <1>4, <3>a
    <3> QED
      BY <1>4, <3>1
  <2> QED
    BY <2>1, <2>2
<1>6. n \in least..Len(items) /\ fits(n)
  <2>1. m \in least..Len(items) /\ (m = Len(items) \/ ~fits(m + 1))
    OBVIOUS
  <2> QED
    BY <1>5, <2>1
<1> HIDE DEF n
<1>7. Len(items) = 1 => n = 1 /\ Size(items) + 1 <= MaxBytes
  <2>1. SUFFICES ASSUME Len(items) = 1
                 PROVE  n = 1 /\ Size(items) + 1 <= MaxBytes
    OBVIOUS
  <2>2. n = 1
    BY <1>6, <2>1
  <2>3. SubSeq(items, 1, 1) = items
    BY <2>1, SubSeqFull
  <2> QED
    BY <1>6, <2>2, <2>3 DEF fits
<1>8. n \in 0..Len(items) /\ (Len(items) >= 2 => n >= 2)
  BY <1>2, <1>6
<1> QED
  BY <1>1, <1>6, <1>7, <1>8 DEF fits

\* No two candidates have the same place in the order.
Placed(C) ==
    \A c, d \in C : c.relevance = d.relevance /\ (c.from = "graph" <=> d.from = "graph")
                    /\ c.path = d.path => c = d
Rank(C, c) == Cardinality({d \in C : Before(d, c)}) + 1

\* The order is one of all of them.
LEMMA OrderIsTotal ==
  ASSUME NEW C \in SUBSET Cands, Placed(C)
  PROVE  /\ \A c \in C : ~Before(c, c)
         /\ \A c, d, e \in C : Before(c, d) /\ Before(d, e) => Before(c, e)
         /\ \A c, d \in C : c = d \/ Before(c, d) \/ Before(d, c)
<1>0. \A c \in C : c.relevance \in Nat /\ c.path \in Nat
  <2>1. Paths \cup {0} \subseteq Nat
    BY RequestAssumption
  <2>2. \A c \in C : c.relevance \in Nat /\ c.path \in Paths \cup {0}
    BY DEF Cands, ShownPaths
  <2> QED
    BY <2>1, <2>2
<1>1. \A c \in C : ~Before(c, c)
  BY <1>0 DEF Before
<1>2. \A c, d, e \in C : Before(c, d) /\ Before(d, e) => Before(c, e)
  BY <1>0 DEF Before
<1>3. \A c, d \in C : c = d \/ Before(c, d) \/ Before(d, c)
  BY <1>0 DEF Before, Placed
<1> QED
  BY <1>1, <1>2, <1>3

\* Their ranks are 1, 2 and so on, each of one of them.
LEMMA RanksAreAll ==
  ASSUME NEW C \in SUBSET Cands, IsFiniteSet(C), Placed(C)
  PROVE  /\ \A c \in C : Rank(C, c) \in 1..Cardinality(C)
         /\ \A c, d \in C : Before(c, d) => Rank(C, c) < Rank(C, d)
         /\ \A i \in 1..Cardinality(C) : \E c \in C : Rank(C, c) = i
<1> DEFINE N == Cardinality(C)
           first(c) == {d \in C : Before(d, c)}
           r == [c \in C |-> Rank(C, c)]
<1>1. N \in Nat
  BY FS_CardinalityType
<1>2. ASSUME NEW c \in C
      PROVE  IsFiniteSet(first(c)) /\ Cardinality(first(c)) \in Nat /\ Cardinality(first(c)) < N
  <2>1. first(c) \subseteq C \ {c}
    BY OrderIsTotal
  <2>2. IsFiniteSet(C \ {c}) /\ Cardinality(C \ {c}) = N - 1
    BY FS_RemoveElement
  <2> HIDE DEF first, N
  <2>3. IsFiniteSet(first(c)) /\ Cardinality(first(c)) <= N - 1
    BY <2>1, <2>2, FS_Subset
  <2>4. Cardinality(first(c)) \in Nat
    BY <2>3, FS_CardinalityType
  <2> QED
    BY <1>1, <2>3, <2>4
<1>3. \A c \in C : Rank(C, c) \in 1..N
  <2> TAKE c \in C
  <2>1. Rank(C, c) = Cardinality(first(c)) + 1
    BY DEF Rank
  <2> HIDE DEF first, N
  <2> QED
    BY <1>1, <1>2, <2>1
<1>4. ASSUME NEW c \in C, NEW d \in C, Before(c, d)
      PROVE  Rank(C, c) < Rank(C, d)
  <2>1. first(c) \subseteq first(d) /\ c \in first(d) /\ c \notin first(c)
    BY <1>4, OrderIsTotal
  <2>2. Cardinality(first(d) \ {c}) = Cardinality(first(d)) - 1 /\ IsFiniteSet(first(d) \ {c})
    <3>1. IsFiniteSet(first(d)) /\ c \in first(d)
      BY <1>2, <2>1
    <3> HIDE DEF first
    <3> QED
      BY <3>1, FS_RemoveElement
  <2>3. first(c) \subseteq first(d) \ {c}
    BY <2>1
  <2>4. Cardinality(first(c)) <= Cardinality(first(d) \ {c})
    <3> HIDE DEF first
    <3> QED BY <2>2, <2>3, FS_Subset
  <2>5. Cardinality(first(c)) \in Nat /\ Cardinality(first(d)) \in Nat
    BY <1>2
  <2> QED
    BY <2>2, <2>4, <2>5 DEF Rank
<1>5. \A c, d \in C : r[c] = r[d] => c = d
  <2> SUFFICES ASSUME NEW c \in C, NEW d \in C, Rank(C, c) = Rank(C, d), c # d
               PROVE  FALSE
    OBVIOUS
  <2>1. Rank(C, c) \in Nat /\ Rank(C, d) \in Nat
    BY <1>1, <1>3
  <2> QED
    BY <1>4, <2>1, OrderIsTotal
<1>6. \A i \in 1..N : \E c \in C : r[c] = i
  <2>1. r \in [C -> 1..N]
    BY <1>3
  <2> HIDE DEF r, N
  <2>2. r \in Injection(C, 1..N)
    BY <1>5, <2>1 DEF Injection, IsInjective
  <2>3. IsFiniteSet(1..N) /\ Cardinality(1..N) = N
    <3>1. \A a, b \in Int : IsFiniteSet(a..b) /\ Cardinality(a..b) = IF a > b THEN 0 ELSE b - a + 1
      BY FS_Interval
    <3> QED
      BY <1>1, <3>1
  <2>4. r \in Surjection(C, 1..N)
    BY <2>2, <2>3, FS_Injection DEF N
  <2> QED
    BY <2>4 DEF Surjection
<1> QED
  BY <1>3, <1>4, <1>6

\* So sorting puts each of them once, the earlier before the later.
LEMMA SortedIs ==
  ASSUME NEW C \in SUBSET Cands, IsFiniteSet(C), Placed(C)
  PROVE  /\ Sorted(C) \in Seq(Cands) /\ Len(Sorted(C)) = Cardinality(C)
         /\ \A i \in 1..Len(Sorted(C)) : Sorted(C)[i] \in C
         /\ \A c \in C : \E i \in 1..Len(Sorted(C)) : Sorted(C)[i] = c
         /\ \A i, j \in 1..Len(Sorted(C)) : i < j => Before(Sorted(C)[i], Sorted(C)[j])
<1> DEFINE N == Cardinality(C)
           S == [i \in 1..N |-> CHOOSE c \in C : Rank(C, c) = i]
<1>1. N \in Nat
  BY FS_CardinalityType
<1>2. Sorted(C) = S
  BY DEF Sorted, Rank
<1>3. ASSUME NEW i \in 1..N
      PROVE  S[i] \in C /\ Rank(C, S[i]) = i
  <2>1. \E c \in C : Rank(C, c) = i
    BY RanksAreAll
  <2>2. S[i] = CHOOSE c \in C : Rank(C, c) = i
    OBVIOUS
  <2> QED
    BY <2>1, <2>2
<1>4. S \in [1..N -> C]
  BY <1>3
<1> HIDE DEF S, N
<1>5. S \in Seq(C) /\ Len(S) = N
  BY <1>1, <1>4
<1>6. S \in Seq(Cands)
  BY <1>5, SeqMonotonic
<1>7. ASSUME NEW c \in C
      PROVE  \E i \in 1..N : S[i] = c
  <2>1. Rank(C, c) \in 1..N
    BY RanksAreAll DEF N
  <2>2. S[Rank(C, c)] \in C /\ Rank(C, S[Rank(C, c)]) = Rank(C, c)
    BY <1>3, <2>1
  <2>3. S[Rank(C, c)] = c
    <3> DEFINE d == S[Rank(C, c)]
    <3>1. Rank(C, c) \in Nat /\ d \in C /\ Rank(C, d) = Rank(C, c)
      BY <1>1, <2>1, <2>2
    <3>2. ~(Rank(C, c) < Rank(C, d)) /\ ~(Rank(C, d) < Rank(C, c))
      BY <3>1
    <3> HIDE DEF d
    <3>3. ~Before(c, d) /\ ~Before(d, c)
      BY <3>1, <3>2, RanksAreAll
    <3>4. c = d
      BY <3>1, <3>3, OrderIsTotal
    <3> QED
      BY <3>4 DEF d
  <2> QED
    BY <2>1, <2>3
<1>8. ASSUME NEW i \in 1..N, NEW j \in 1..N, i < j
      PROVE  Before(S[i], S[j])
  <2>1. S[i] \in C /\ S[j] \in C /\ Rank(C, S[i]) = i /\ Rank(C, S[j]) = j
    BY <1>3
  <2>2. S[i] # S[j] /\ ~(Rank(C, S[j]) < Rank(C, S[i]))
    BY <1>8, <1>1, <2>1
  <2>3. ~Before(S[j], S[i])
    BY <2>1, <2>2, RanksAreAll
  <2> QED
    BY <2>1, <2>2, <2>3, OrderIsTotal
<1> QED
  BY <1>2, <1>4, <1>5, <1>6, <1>7, <1>8 DEF N

\* The Work's hints, its files and what the message matches.
InputsTyped ==
    /\ hints \in [Paths -> {"none", "include", "exclude"}] /\ disk \in [Paths -> Files]
    /\ attached \subseteq Paths /\ score \in [Paths -> Scores]
    /\ objective \in Nat \ {0}

Raising == {Raised(c) : c \in Automatic} \cup Hinted

\* A candidate is of the graph, which knows no relevance, or one of the worktree.
LEMMA AutomaticIs ==
  ASSUME InputsTyped, NEW c \in Automatic
  PROVE  /\ c \in Cands /\ (c.path # 0 => hints[c.path] # "exclude")
         /\ c.from \in {"graph", "worktree"}
         /\ c.from = "graph" => c \in Graphed /\ c.relevance = 0
         /\ c.from = "worktree" => c \in Found /\ c.path \in Paths /\ c.path # 0 /\ c.relevance = score[c.path]
<1>0. Paths \subseteq Nat \ {0} /\ Sensitive \subseteq Paths
  BY RequestAssumption
<1>1. c \in Graphed \cup Found /\ (c.path = 0 \/ hints[c.path] # "exclude")
  BY DEF Automatic, Once
<1>2. CASE c \in Graphed
  <2>1. PICK p \in attached : c = [path |-> Reference(p), from |-> "graph", relevance |-> 0]
    BY <1>2 DEF Graphed
  <2>2. Reference(p) \in Paths \cup {0}
    BY DEF Reference, InputsTyped
  <2> QED
    BY <1>1, <1>2, <2>1, <2>2 DEF Cands, ShownPaths, Sources
<1>3. CASE c \in Found
  <2>1. PICK p \in Paths : c = [path |-> p, from |-> "worktree", relevance |-> score[p]]
    BY <1>3 DEF Found
  <2>2. score[p] \in Nat
    BY DEF InputsTyped, Scores
  <2> QED
    BY <1>0, <1>1, <1>3, <2>1, <2>2 DEF Cands, ShownPaths, Sources
<1> QED
  BY <1>1, <1>2, <1>3

\* One path has one candidate.
LEMMA AutomaticDiffer ==
  ASSUME InputsTyped, NEW c \in Automatic, NEW d \in Automatic, c.path = d.path
  PROVE  c = d
<1>1. CASE c.from = "graph" /\ d.from = "graph"
  <2>1. \A e \in Graphed : e = [path |-> e.path, from |-> "graph", relevance |-> 0]
    BY DEF Graphed
  <2>2. c = [path |-> c.path, from |-> "graph", relevance |-> 0]
    BY <1>1, <2>1, AutomaticIs
  <2>3. d = [path |-> d.path, from |-> "graph", relevance |-> 0]
    BY <1>1, <2>1, AutomaticIs
  <2> QED
    BY <2>2, <2>3
<1>2. CASE c.from # "graph" \/ d.from # "graph"
  BY <1>2 DEF Automatic, Once
<1> QED
  BY <1>1, <1>2

\* A file the Work includes is raised,
LEMMA RaisedIs ==
  ASSUME InputsTyped, NEW c \in Automatic
  PROVE  /\ Raised(c) \in Cands /\ Raised(c).path = c.path /\ Raised(c).from = c.from
         /\ c.path # 0 /\ hints[c.path] = "include" => Raised(c).relevance >= Included
         /\ Raised(c).relevance >= Included =>
               c.path # 0 /\ (hints[c.path] = "include" \/ score[c.path] > Included)
<1>1. c \in Cands /\ c.relevance \in Nat
  BY AutomaticIs DEF Cands
<1>2. Raised(c).path = c.path /\ Raised(c).from = c.from /\ Raised(c) \in Cands
  BY <1>1 DEF Raised, Cands, Included
<1>3. c.path # 0 /\ hints[c.path] = "include" => Raised(c).relevance >= Included
  BY <1>1 DEF Raised, Cands, Included
<1>4. ASSUME Raised(c).relevance >= Included
      PROVE  c.path # 0 /\ (hints[c.path] = "include" \/ score[c.path] > Included)
  <2>1. CASE c.path # 0 /\ hints[c.path] = "include"
    BY <2>1
  <2>2. CASE ~(c.path # 0 /\ hints[c.path] = "include")
    <3>1. Raised(c) = c
      BY <2>2 DEF Raised
    <3>2. c.relevance >= Included /\ c.relevance # 0
      BY <1>1, <1>4, <3>1 DEF Included
    <3>3. c.from = "worktree" /\ c.path # 0 /\ c.relevance = score[c.path] /\ c.path \in Paths
      BY <3>2, AutomaticIs
    <3>4. score[c.path] \in {0, 1000, 5500}
      BY <3>3 DEF InputsTyped, Scores
    <3> QED
      BY <3>2, <3>3, <3>4 DEF Included
  <2> QED
    BY <2>1, <2>2
<1> QED
  BY <1>2, <1>3, <1>4

\* and so is one that has no candidate.
LEMMA HintedIs ==
  ASSUME InputsTyped, NEW c \in Hinted
  PROVE  /\ c \in Cands /\ c.path \in Paths /\ c.path # 0
         /\ hints[c.path] = "include" /\ c.relevance = Included
         /\ \A d \in Automatic : d.path # c.path
         /\ c = [path |-> c.path, from |-> "hint", relevance |-> Included]
<1>1. PICK p \in Paths : /\ c = [path |-> p, from |-> "hint", relevance |-> Included]
                         /\ hints[p] = "include" /\ \A d \in Automatic : d.path # p
  BY DEF Hinted
<1>2. p # 0
  BY RequestAssumption
<1>3. c \in Cands
  BY <1>1 DEF Cands, ShownPaths, Sources, Included
<1> QED
  BY <1>1, <1>2, <1>3

\* The candidates: nothing that is excluded, and what is included before what is not.
LEMMA RaisingIs ==
  ASSUME InputsTyped
  PROVE  /\ Raising \in SUBSET Cands /\ IsFiniteSet(Raising) /\ Placed(Raising)
         /\ \A c \in Raising :
               /\ c.path # 0 => c.path \in Paths /\ hints[c.path] # "exclude"
               /\ c.path # 0 /\ hints[c.path] = "include" => c.relevance >= Included
               /\ c.relevance >= Included =>
                     c.path # 0 /\ (hints[c.path] = "include" \/ score[c.path] > Included)
         /\ \A c \in Automatic \cup Hinted : \E d \in Raising : d.path = c.path
<1>1. ASSUME NEW c \in Raising
      PROVE  /\ c \in Cands
             /\ c.path # 0 => c.path \in Paths /\ hints[c.path] # "exclude"
             /\ c.path # 0 /\ hints[c.path] = "include" => c.relevance >= Included
             /\ c.relevance >= Included =>
                   c.path # 0 /\ (hints[c.path] = "include" \/ score[c.path] > Included)
  <2>1. CASE c \in Hinted
    <3>1. Included \in Nat
      BY DEF Included
    <3> QED
      BY <2>1, <3>1, HintedIs
  <2>2. CASE c \notin Hinted
    <3>1. PICK a \in Automatic : c = Raised(a)
      BY <2>2 DEF Raising
    <3>2. c.path \in Paths \cup {0} /\ c \in Cands
      BY <3>1, RaisedIs DEF Cands, ShownPaths
    <3> QED
      BY <3>1, <3>2, RaisedIs, AutomaticIs
  <2> QED
    BY <2>1, <2>2
<1>2. ASSUME NEW c \in Raising, NEW d \in Raising, c.path = d.path
      PROVE  c = d
  <2>1. CASE c \in Hinted /\ d \in Hinted
    BY <1>2, <2>1, HintedIs
  <2>2. CASE c \notin Hinted /\ d \notin Hinted
    <3>1. PICK a \in Automatic : c = Raised(a)
      BY <2>2 DEF Raising
    <3>2. PICK b \in Automatic : d = Raised(b)
      BY <2>2 DEF Raising
    <3>3. a.path = b.path
      BY <1>2, <3>1, <3>2, RaisedIs
    <3> QED
      BY <3>1, <3>2, <3>3, AutomaticDiffer
  <2>3. CASE c \in Hinted /\ d \notin Hinted
    <3>1. PICK b \in Automatic : d = Raised(b)
      BY <2>3 DEF Raising
    <3> QED
      BY <1>2, <2>3, <3>1, RaisedIs, HintedIs
  <2>4. CASE c \notin Hinted /\ d \in Hinted
    <3>1. PICK a \in Automatic : c = Raised(a)
      BY <2>4 DEF Raising
    <3> QED
      BY <1>2, <2>4, <3>1, RaisedIs, HintedIs
  <2> QED
    BY <2>1, <2>2, <2>3, <2>4
<1>3. Placed(Raising)
  BY <1>2 DEF Placed
<1>4. IsFiniteSet(Raising)
  <2> DEFINE f == [c \in Raising |-> c.path]
             T == Paths \cup {0}
  <2>1. f \in [Raising -> T]
    BY <1>1 DEF Cands, ShownPaths
  <2>2. \A c, d \in Raising : f[c] = f[d] => c = d
    BY <1>2
  <2>3. IsFiniteSet(T)
    BY RequestAssumption, FS_AddElement
  <2> HIDE DEF f, T
  <2>4. f \in Injection(Raising, T)
    BY <2>1, <2>2 DEF Injection, IsInjective
  <2> QED
    BY <2>3, <2>4, FS_Injection
<1>5. ASSUME NEW c \in Automatic \cup Hinted
      PROVE  \E d \in Raising : d.path = c.path
  <2>1. CASE c \in Automatic
    <3>1. Raised(c) \in Raising
      BY <2>1 DEF Raising
    <3> QED
      BY <2>1, <3>1, RaisedIs
  <2>2. CASE c \in Hinted
    BY <2>2 DEF Raising
  <2> QED
    BY <2>1, <2>2
<1> QED
  BY <1>1, <1>3, <1>4, <1>5

\* What there is to send: the Work, its worktree, then the files.
All == <<Item("work", objective), Item("worktree", 1)>> \o Content(Candidates)

LEMMA AllIs ==
  ASSUME InputsTyped
  PROVE  /\ Candidates = Sorted(Raising) /\ Candidates \in Seq(Cands)
         /\ All \in Seq(Items) /\ Len(All) = Len(Candidates) + 2
         /\ All[1] = Item("work", objective) /\ All[2] = Item("worktree", 1)
         /\ \A k \in 1..Len(Candidates) :
               /\ All[k + 2].kind = "file" /\ All[k + 2].path = Candidates[k].path
               /\ All[k + 2].status \in ItemStatuses
         /\ ContentSize(All) <= MaxContent
<1> DEFINE files == Content(Candidates)
           N == Len(files)
           head == <<Item("work", objective), Item("worktree", 1)>>
<1>1. Candidates = Sorted(Raising)
  BY DEF Candidates, Raising
<1>2. Candidates \in Seq(Cands)
  BY <1>1, RaisingIs, SortedIs
<1>3. /\ files \in Seq(Items) /\ N = Len(Candidates)
      /\ \A k \in 1..N :
            /\ files[k].kind = "file" /\ files[k].path = Candidates[k].path
            /\ files[k].status \in ItemStatuses
      /\ ContentSize(files) <= MaxContent
  BY <1>2, ContentIs DEF InputsTyped
<1>4. /\ Item("work", objective) \in Items /\ Item("worktree", 1) \in Items
      /\ Weight(Item("work", objective)) = 0 /\ Weight(Item("worktree", 1)) = 0
  BY DEF Item, Items, Sources, Weight, InputsTyped
<1>5. head \in Seq(Items) /\ Len(head) = 2
      /\ head[1] = Item("work", objective) /\ head[2] = Item("worktree", 1)
  BY <1>4
<1> HIDE DEF files, head
<1>6. All = head \o files
  BY DEF All, head, files
<1>7. All \in Seq(Items) /\ Len(All) = N + 2 /\ N \in Nat
  <2>1. N \in Nat
    BY <1>3
  <2>2. head \o files \in Seq(Items) /\ Len(head \o files) = 2 + N
    <3>1. head \in Seq(Items) /\ files \in Seq(Items)
      BY <1>3, <1>5
    <3>2. head \o files \in Seq(Items) /\ Len(head \o files) = Len(head) + Len(files)
      BY <3>1, ConcatProperties
    <3> QED
      BY <1>5, <3>2
  <2> QED
    BY <1>6, <2>1, <2>2
<1>8. All[1] = head[1] /\ All[2] = head[2] /\ \A k \in 1..N : All[k + 2] = files[k]
  <2>1. \A i \in 1..(Len(head) + Len(files)) :
           (head \o files)[i] = IF i <= Len(head) THEN head[i] ELSE files[i - Len(head)]
    <3>1. head \in Seq(Items) /\ files \in Seq(Items)
      BY <1>3, <1>5
    <3> QED
      BY <3>1, ConcatProperties
  <2>2. 1 \in 1..(Len(head) + Len(files)) /\ 2 \in 1..(Len(head) + Len(files))
    BY <1>5, <1>7
  <2>3. \A k \in 1..N : k + 2 \in 1..(Len(head) + Len(files)) /\ ~(k + 2 <= Len(head)) /\ (k + 2) - Len(head) = k
    BY <1>5, <1>7
  <2>4. All[1] = head[1] /\ All[2] = head[2]
    <3>1. 1 <= Len(head) /\ 2 <= Len(head)
      BY <1>5
    <3> QED
      BY <1>6, <2>1, <2>2, <3>1
  <2>5. ASSUME NEW k \in 1..N
        PROVE  All[k + 2] = files[k]
    BY <1>6, <2>1, <2>3
  <2> QED
    BY <2>4, <2>5
<1>9. ContentSize(All) = ContentSize(files)
  <2> DEFINE s == [k \in 1..N |-> Weight(files[k])]
             r == [k \in 1..N + 2 |-> Weight(All[k])]
  <2>1. \A k \in Items : Weight(k) \in Nat
    BY DEF Weight, Items
  <2>2. /\ \A k \in 1..N : files[k] \in Items
        /\ \A k \in 1..N + 2 : All[k] \in Items
    BY <1>3, <1>7
  <2>3. s \in [1..N -> Nat] /\ r \in [1..N + 2 -> Nat]
    BY <2>1, <2>2
  <2>4. ContentSize(files) = Sum(s) /\ ContentSize(All) = Sum(r)
    BY <1>7 DEF ContentSize, Weight
  <2>5. r[1] = 0 /\ r[2] = 0 /\ \A k \in 1..N : r[k + 2] = s[k]
    BY <1>4, <1>5, <1>7, <1>8
  <2> HIDE DEF s, r, N
  <2>6. PICK t \in [0..N -> Nat] :
           t[0] = 0 /\ (\A n \in 1..N : t[n] = t[n - 1] + s[n]) /\ Sum(s) = t[N]
    BY <1>7, <2>3, SumIs
  <2> DEFINE u == [n \in 0..N + 2 |-> IF n <= 2 THEN 0 ELSE t[n - 2]]
  <2>7. u[0] = 0 /\ u[N + 2] = t[N]
    BY <1>7, <2>6
  <2>8. ASSUME NEW n \in 1..N + 2
        PROVE  u[n] = u[n - 1] + r[n]
    <3>1. CASE n <= 2
      <4>1. n \in {1, 2} /\ n - 1 \in 0..N + 2 /\ n - 1 <= 2
        BY <1>7, <3>1
      <4>2. u[n] = 0 /\ u[n - 1] = 0 /\ r[n] = 0
        BY <2>5, <3>1, <4>1
      <4> QED
        BY <4>2
    <3>2. CASE n = 3
      <4>1. u[3] = t[1] /\ u[2] = 0 /\ 1 \in 1..N
        BY <1>7, <3>2
      <4>2. t[1] = 0 + s[1] /\ r[3] = s[1]
        BY <2>5, <2>6, <4>1
      <4> QED
        BY <2>3, <3>2, <4>1, <4>2
    <3>3. CASE n > 3
      <4>1. n - 2 \in 1..N /\ (n - 2) + 2 = n /\ n - 1 > 2 /\ (n - 1) - 2 = (n - 2) - 1 /\ n - 1 \in 0..N + 2
        BY <1>7, <3>3
      <4>2. u[n] = t[n - 2] /\ u[n - 1] = t[(n - 2) - 1]
        BY <1>7, <3>3, <4>1
      <4>3. r[n] = s[n - 2]
        BY <2>5, <4>1
      <4>4. t[n - 2] = t[(n - 2) - 1] + s[n - 2]
        BY <2>6, <4>1
      <4> QED
        BY <4>2, <4>3, <4>4
    <3> QED
      BY <3>1, <3>2, <3>3
  <2>9. Sum(r) = u[N + 2]
    <3>1. N + 2 \in Nat
      BY <1>7
    <3> HIDE DEF u
    <3> QED
      BY <2>3, <2>7, <2>8, <3>1, SumFollows
  <2> QED
    BY <2>4, <2>6, <2>7, <2>9
<1> QED
  BY <1>1, <1>2, <1>3, <1>5, <1>7, <1>8, <1>9

\* A package that is made keeps what is promised of it.
LEMMA AssembledKeeps ==
  ASSUME InputsTyped, package # None, package = Assembled
  PROVE  PackageKeepsPromises
<1> DEFINE cut == Cut(All)
           items == package.items
<1>1. package = Trimmed(cut, Told(All, cut)) /\ Told(All, cut) \in BOOLEAN
  BY DEF Assembled, All, Told
<1>2. /\ All \in Seq(Items) /\ Len(All) = Len(Candidates) + 2 /\ Len(Candidates) \in Nat
      /\ All[1] = Item("work", objective) /\ All[2] = Item("worktree", 1)
      /\ \A k \in 1..Len(Candidates) :
            /\ All[k + 2].kind = "file" /\ All[k + 2].path = Candidates[k].path
            /\ All[k + 2].status \in ItemStatuses
      /\ ContentSize(All) <= MaxContent
  BY AllIs
<1>3. Len(All) >= 2 /\ Len(All) \in Nat
  BY <1>2
<1>4. /\ cut \in Seq(Items) /\ Len(cut) <= MaxItems
      /\ Among(cut, All, Len(All))
      /\ ContentSize(cut) <= ContentSize(All)
      /\ Len(cut) <= Len(All)
      /\ Len(cut) = Len(All) => \A k \in 1..Len(All) : cut[k] = All[k]
      /\ All[1].size + All[2].size <= MaxBytes => Len(cut) >= 2 /\ cut[1] = All[1] /\ cut[2] = All[2]
      /\ All[1].size = MaxBytes => Len(cut) = 1 /\ Size(cut) = MaxBytes
  BY <1>2, <1>3, CutIs
<1> HIDE DEF cut
<1>5. PICK n \in 0..Len(cut) :
         /\ package = [items |-> SubSeq(cut, 1, n), truncated |-> Told(All, cut) \/ n < Len(cut)]
         /\ Size(SubSeq(cut, 1, n)) + 1 <= MaxBytes
         /\ Len(cut) >= 2 => n >= 2
         /\ Len(cut) = 1 => n = 1 /\ Size(cut) + 1 <= MaxBytes
  <2>1. Trimmed(cut, Told(All, cut)) # None
    BY <1>1
  <2> QED
    BY <1>1, <1>4, <2>1, TrimmedIs
<1>6. /\ items \in Seq(Items) /\ Len(items) = n
      /\ \A k \in 1..n : items[k] = cut[k]
      /\ Size(items) \in Nat /\ ContentSize(items) <= ContentSize(cut) /\ Size(items) + 1 <= MaxBytes
  BY <1>4, <1>5, FirstAreShorter
<1>7. package.truncated = (Told(All, cut) \/ n < Len(cut)) /\ Len(cut) \in Nat /\ n \in Nat
  BY <1>4, <1>5
<1>8. PICK e \in [1..Len(cut) -> 1..Len(All)] :
         /\ \A i \in 1..Len(cut) : cut[i] = All[e[i]]
         /\ \A i, j \in 1..Len(cut) : i < j => e[i] < e[j]
  BY <1>4 DEF Among
<1> HIDE DEF items
<1>9. /\ Sent /\ Shown = {i \in 1..n : items[i].kind = "file"} /\ \A i : At(i) = items[i]
  <2>1. DOMAIN items = 1..n
    BY <1>6
  <2> QED
    BY <2>1 DEF Sent, Shown, At, items
<1>10. ASSUME NEW i \in Shown
       PROVE  /\ i \in 1..Len(cut) /\ e[i] - 2 \in 1..Len(Candidates)
              /\ At(i).path = Candidates[e[i] - 2].path /\ At(i).status \in ItemStatuses
  <2>1. i \in 1..n /\ i \in 1..Len(cut) /\ items[i].kind = "file" /\ items[i] = All[e[i]]
    <3>1. i \in 1..n /\ items[i].kind = "file"
      BY <1>9
    <3>2. i \in 1..Len(cut)
      BY <1>7, <3>1
    <3> QED
      BY <1>6, <1>8, <3>1, <3>2
  <2>2. All[1].kind # "file" /\ All[2].kind # "file"
    BY <1>2 DEF Item
  <2>3. e[i] \in 1..Len(All) /\ e[i] # 1 /\ e[i] # 2
    BY <2>1, <2>2
  <2>4. e[i] - 2 \in 1..Len(Candidates) /\ (e[i] - 2) + 2 = e[i]
    BY <1>2, <2>3
  <2>5. All[e[i]].path = Candidates[e[i] - 2].path /\ All[e[i]].status \in ItemStatuses
    BY <1>2, <2>4
  <2> QED
    BY <1>9, <2>1, <2>4, <2>5
<1>11. /\ \A k \in 1..Len(Candidates) : Candidates[k] \in Raising
       /\ \A c \in Raising : \E k \in 1..Len(Candidates) : Candidates[k] = c
       /\ \A k, l \in 1..Len(Candidates) : k < l => Before(Candidates[k], Candidates[l])
  <2>1. Candidates = Sorted(Raising)
    BY AllIs
  <2> QED
    BY <2>1, RaisingIs, SortedIs
<1>a. TypeOK
  BY <1>10 DEF TypeOK, InputsTyped, ItemStatuses
<1>b. ExcludedStaysOut
  BY <1>10, <1>11, RaisingIs DEF ExcludedStaysOut
<1>c. BoundsAreHard
  <2>1. Len(items) <= MaxItems
    BY <1>4, <1>6, <1>7, RequestAssumption
  <2>2. Size(items) < MaxBytes
    BY <1>6, RequestAssumption
  <2>3. ContentSize(items) <= MaxContent
    <3>1. ContentSize(items) \in Nat /\ ContentSize(cut) \in Nat /\ ContentSize(All) \in Nat
      <4>1. PICK x : x \in Items
        BY <1>2, <1>3
      <4> QED
        BY <1>2, <1>4, <1>6, <4>1, ContentGrows
    <3>2. MaxContent \in Nat
      BY RequestAssumption
    <3> QED
      BY <1>2, <1>4, <1>6, <3>1, <3>2
  <2> QED
    BY <2>1, <2>2, <2>3 DEF BoundsAreHard, items
<1>d. WorkLeads
  <2> SUFFICES ASSUME objective <= MaxBytes
               PROVE  Len(package.items) >= 2 /\ At(1).kind = "work" /\ At(2).kind = "worktree"
    BY DEF WorkLeads
  <2>1. All[1].size = objective /\ All[2].size = 1 /\ All[1].kind = "work" /\ All[2].kind = "worktree"
    BY <1>2 DEF Item
  <2>2. objective \in Nat /\ MaxBytes \in Nat
    BY RequestAssumption DEF InputsTyped
  <2>3. CASE objective = MaxBytes
    BY <1>4, <1>5, <2>1, <2>2, <2>3
  <2>4. CASE objective < MaxBytes
    <3>1. Len(cut) >= 2 /\ cut[1] = All[1] /\ cut[2] = All[2]
      BY <1>4, <2>1, <2>2, <2>4
    <3>2. n >= 2
      BY <1>5, <3>1
    <3>3. items[1] = cut[1] /\ items[2] = cut[2]
      BY <1>6, <1>7, <3>2
    <3> QED
      BY <1>6, <1>9, <2>1, <3>1, <3>2, <3>3 DEF items
  <2> QED
    BY <2>2, <2>3, <2>4
<1>e. IncludesLead
  <2> SUFFICES ASSUME NEW i \in Shown, NEW j \in Shown, i < j, At(j).path # 0,
                      hints[At(j).path] = "include"
               PROVE  At(i).path # 0 /\ (hints[At(i).path] = "include" \/ score[At(i).path] > Included)
    BY DEF IncludesLead
  <2> DEFINE c == Candidates[e[i] - 2]
             d == Candidates[e[j] - 2]
  <2>1. /\ e[i] - 2 \in 1..Len(Candidates) /\ e[j] - 2 \in 1..Len(Candidates)
        /\ At(i).path = c.path /\ At(j).path = d.path
        /\ i \in 1..Len(cut) /\ j \in 1..Len(cut)
    BY <1>10
  <2>2. e[i] < e[j] /\ e[i] \in Nat /\ e[j] \in Nat
    <3>1. \A k, l \in 1..Len(cut) : k < l => e[k] < e[l]
      BY <1>8
    <3>2. e[i] < e[j]
      BY <2>1, <3>1
    <3>3. e[i] \in 1..Len(All) /\ e[j] \in 1..Len(All)
      BY <2>1
    <3> QED
      BY <3>2, <3>3
  <2>3. e[i] - 2 < e[j] - 2
    BY <2>2
  <2>4. c \in Raising /\ d \in Raising /\ Before(c, d)
    BY <1>11, <2>1, <2>3
  <2> HIDE DEF c, d
  <2>5. d.relevance >= Included /\ d.relevance \in Nat /\ c.relevance \in Nat
    BY <2>1, <2>4, RaisingIs DEF Cands
  <2>6. c.relevance >= d.relevance
    BY <2>4, <2>5 DEF Before
  <2>7. c.relevance >= Included
    BY <2>5, <2>6 DEF Included
  <2> QED
    BY <2>1, <2>4, <2>7, RaisingIs
<1>f. TruncationIsTold
  <2> SUFFICES ASSUME ~package.truncated, NEW c \in Automatic \cup Hinted
               PROVE  \E i \in Shown : At(i).path = c.path
    BY DEF TruncationIsTold
  <2>1. Len(cut) = Len(All) /\ n = Len(cut)
    <3>1. ~(Len(cut) < Len(All)) /\ ~(n < Len(cut)) /\ n <= Len(cut)
      <4>1. ~Told(All, cut) /\ ~(n < Len(cut))
        BY <1>7
      <4> QED
        BY <1>7, <4>1 DEF Told
    <3> QED
      BY <1>3, <1>4, <1>7, <3>1
  <2>2. PICK d \in Raising : d.path = c.path
    BY RaisingIs
  <2>3. PICK k \in 1..Len(Candidates) : Candidates[k] = d
    BY <1>11
  <2>4. k + 2 \in 1..n
    BY <1>2, <2>1
  <2>5. items[k + 2] = All[k + 2]
    BY <1>4, <1>6, <2>1, <2>4
  <2>6. items[k + 2].kind = "file" /\ items[k + 2].path = c.path
    BY <1>2, <2>2, <2>3, <2>5
  <2> QED
    BY <1>9, <2>4, <2>6
<1> QED
  BY <1>a, <1>b, <1>c, <1>d, <1>e, <1>f DEF PackageKeepsPromises

\* The package sent last is the one of the Work as it is.
PackageInv == InputsTyped /\ (package # None => package = Assembled)

LEMMA PackageStep == PackageInv /\ [Next]_vars => PackageInv'
<1> SUFFICES ASSUME PackageInv, [Next]_vars
             PROVE  PackageInv'
  OBVIOUS
<1> USE DEF PackageInv
<1>1. ASSUME NEW p \in Paths, NEW h \in {"none", "include", "exclude"}, SetHint(p, h)
      PROVE  PackageInv'
  BY <1>1 DEF SetHint, InputsTyped
<1>2. ASSUME NEW p \in Paths, NEW f \in Files, ChangeFile(p, f)
      PROVE  PackageInv'
  BY <1>2 DEF ChangeFile, InputsTyped
<1>3. ASSUME UNCHANGED <<hints, disk, attached, score, objective>>
      PROVE  InputsTyped' /\ Assembled' = Assembled
  <2>1. Automatic' = Automatic /\ Hinted' = Hinted
    BY <1>3 DEF Automatic, Hinted, Graphed, Found
  <2>2. Candidates' = Candidates
    BY <1>3, <2>1 DEF Candidates, Raised
  <2>3. Content(Candidates)' = Content(Candidates)
    BY <1>3, <2>2 DEF Content
  <2> QED
    BY <1>3, <2>3 DEF InputsTyped, Assembled
<1>4. CASE Send
  BY <1>3, <1>4 DEF Send
<1>5. CASE UNCHANGED vars
  BY <1>3, <1>5 DEF vars
<1> QED
  BY <1>1, <1>2, <1>4, <1>5 DEF Next

LEMMA PackageInit == Init => PackageInv
<1> SUFFICES ASSUME Init
             PROVE  PackageInv
  OBVIOUS
<1>1. objective \in Nat \ {0}
  BY RequestAssumption DEF Init
<1> QED
  BY <1>1 DEF Init, PackageInv, InputsTyped

LEMMA PackageKept == PackageInv => PackageKeepsPromises
<1>1. CASE package # None
  BY <1>1, AssembledKeeps DEF PackageInv
<1>2. CASE package = None
  BY <1>2 DEF PackageInv, InputsTyped, PackageKeepsPromises, TypeOK, ExcludedStaysOut, BoundsAreHard,
     WorkLeads, IncludesLead, TruncationIsTold, Sent, Shown
<1> QED
  BY <1>1, <1>2

\* PackageKeepsPromises: the package sent last, if the Work was not changed since, shows
\* no file that the hints exclude, is within the bounds, begins with the
\* Work and its worktree, has what the user included before the rest, and says so
\* when a candidate was left out.
THEOREM PackagesHold == LibrarySpec => []PackageKeepsPromises
<1>1. Start => PackageInv
  BY PackageInit DEF Start
<1>2. PackageInv /\ [Step]_library => PackageInv'
  BY PackageStep DEF Step, library
<1> QED
  BY <1>1, <1>2, PackageKept, PTL DEF LibrarySpec

-----------------------------------------------------------------------------
(* ContextGraph: a traversal is a search in the order of distance.  What it   *)
(* has in hand, taken or queued, is joined to the root at the depth it says,  *)
(* and nothing nearer than the head of the queue is left out (Searched).      *)

\* A graph with finitely many edges, each between nodes of the kinds there are.
Kinds == {"work", "decision", "file", "commit", "conversation", "artifact", "exchange",
          "snapshot", "message", "worktree"}
IsGraph(g) ==
    /\ IsFiniteSet(g.edges) /\ DOMAIN g.owner = Graph!Ends(g.edges)
    /\ \A e \in g.edges : e.from[1] \in Kinds /\ e.to[1] \in Kinds /\ e.conf \in 0..2
Nodes(g, root) == Graph!Ends(g.edges) \cup {root}
Bounds == [depth : Nat, nodes : Nat \ {0}, edges : Nat, bytes : Nat \ {0}, messages : Nat,
           scope : Works \cup {None}]

\* What a traversal is in.
States(g, root) ==
    [queue : Seq(Nodes(g, root) \X Nat), visited : SUBSET Nodes(g, root),
     nodes : SUBSET Nodes(g, root), edges : SUBSET g.edges,
     truncated : BOOLEAN, cut : BOOLEAN, full : BOOLEAN]

LEMMA KindRanks == \A k \in Kinds : Graph!KindRank[k] \in 0..9
  BY DEF Kinds, Graph!KindRank

\* The rank of an edge is one of thirty,
LEMMA Ranks ==
  ASSUME NEW g, IsGraph(g), NEW node, NEW e \in Graph!Adjacent(g, node)
  PROVE  Graph!Rank(e, node) \in 0..29 /\ e \in g.edges /\ Graph!Other(e, node) \in Graph!Ends(g.edges)
<1>1. e \in g.edges /\ e.from[1] \in Kinds /\ e.to[1] \in Kinds /\ e.conf \in 0..2
  BY DEF Graph!Adjacent, IsGraph
<1>2. Graph!Other(e, node) \in Graph!Ends(g.edges) /\ Graph!Other(e, node)[1] \in Kinds
  BY <1>1 DEF Graph!Other, Graph!Ends
<1>3. Graph!KindRank[Graph!Other(e, node)[1]] \in 0..9
  BY <1>2, KindRanks
<1>4. \A c \in 0..2 : \A k \in 0..9 : 10 * c + k \in 0..29
  OBVIOUS
<1>5. Graph!Rank(e, node) \in 0..29
  BY <1>1, <1>3, <1>4 DEF Graph!Rank
<1> QED
  BY <1>1, <1>2, <1>5

\* so there is a last one of those of a node.
LEMMA LastEdge ==
  ASSUME NEW g, IsGraph(g), NEW node, NEW E \in (SUBSET Graph!Adjacent(g, node)) \ {{}}
  PROVE  \E e \in E : \A d \in E : Graph!Rank(d, node) <= Graph!Rank(e, node)
<1> DEFINE T == {29 - Graph!Rank(d, node) : d \in E}
<1>1. \A d \in E : Graph!Rank(d, node) \in 0..29
  BY Ranks
<1>2. T \in SUBSET Nat /\ T # {}
  BY <1>1
<1>3. PICK m \in T : \A k \in T : m <= k
  <2> HIDE DEF T
  <2> QED BY <1>2, LeastNumber
<1>4. PICK e \in E : m = 29 - Graph!Rank(e, node)
  OBVIOUS
<1>5. ASSUME NEW d \in E
      PROVE  Graph!Rank(d, node) <= Graph!Rank(e, node)
  <2>1. 29 - Graph!Rank(d, node) \in T
    OBVIOUS
  <2>2. m <= 29 - Graph!Rank(d, node) /\ Graph!Rank(d, node) \in Nat /\ Graph!Rank(e, node) \in Nat
    BY <1>1, <1>3, <2>1
  <2> QED
    BY <1>4, <2>2
<1> QED
  BY <1>5

\* Following an edge leads from state to state,
LEMMA FollowTyped ==
  ASSUME NEW g, IsGraph(g), NEW root, NEW o, NEW node, NEW depth \in Nat,
         NEW s \in States(g, root), NEW e \in Graph!Adjacent(g, node)
  PROVE  Graph!Follow(g, o, node, depth, s, e) \in States(g, root)
<1>1. e \in g.edges /\ Graph!Other(e, node) \in Nodes(g, root)
  BY Ranks DEF Nodes
<1>2. <<Graph!Other(e, node), depth + 1>> \in Nodes(g, root) \X Nat
  BY <1>1
<1>3. s.queue \in Seq(Nodes(g, root) \X Nat)
  BY DEF States
<1>4. Append(s.queue, <<Graph!Other(e, node), depth + 1>>) \in Seq(Nodes(g, root) \X Nat)
  BY <1>2, <1>3
<1>5. s.edges \cup {e} \in SUBSET g.edges
  BY <1>1 DEF States
<1> QED
  BY <1>4, <1>5 DEF Graph!Follow, States

\* and the edges of a node are followed one by one, in the order of their ranks.
Followed(g, o, node, depth, s, pick, f) ==
    /\ f[{}] = s
    /\ \A E \in (SUBSET Graph!Adjacent(g, node)) \ {{}} :
          /\ f[E] = Graph!Follow(g, o, node, depth, f[E \ {pick[E]}], pick[E])
          /\ \A d \in E : Graph!Rank(d, node) <= Graph!Rank(pick[E], node)
    /\ Graph!FollowAll(g, o, node, depth, s) = f[Graph!Adjacent(g, node)]
LEMMA FollowSteps ==
  ASSUME NEW g, IsGraph(g), NEW root, NEW o, NEW node, NEW depth \in Nat, NEW s \in States(g, root)
  PROVE  \E pick \in Picks(Graph!Adjacent(g, node)) :
         \E f \in [SUBSET Graph!Adjacent(g, node) -> States(g, root)] :
            Followed(g, o, node, depth, s, pick, f)
<1> DEFINE A == Graph!Adjacent(g, node)
           V == States(g, root)
           last(E) == CHOOSE e \in E : \A d \in E : Graph!Rank(d, node) <= Graph!Rank(e, node)
           pick == [E \in (SUBSET A) \ {{}} |-> last(E)]
           step == [e \in A |-> [t \in V |-> Graph!Follow(g, o, node, depth, t, e)]]
           f == CHOOSE h : h = [E \in SUBSET A |->
                    IF E = {} THEN s ELSE Graph!Follow(g, o, node, depth, h[E \ {last(E)}], last(E))]
<1>1. IsFiniteSet(A)
  <2>1. A \in SUBSET g.edges /\ IsFiniteSet(g.edges)
    BY DEF Graph!Adjacent, IsGraph
  <2> HIDE DEF A
  <2> QED
    BY <2>1, FS_Subset
<1>2. \A E \in (SUBSET A) \ {{}} : last(E) \in E /\ \A d \in E : Graph!Rank(d, node) <= Graph!Rank(last(E), node)
  BY LastEdge
<1>3. pick \in Picks(A) /\ \A E \in (SUBSET A) \ {{}} : pick[E] = last(E)
  <2> HIDE DEF last, A
  <2> QED
    BY <1>2 DEF Picks
<1>4. step \in SetSteps(A, V)
  BY FollowTyped DEF SetSteps
<1> HIDE DEF last
<1>5. PICK t \in [SUBSET A -> V] :
         /\ t[{}] = s
         /\ \A E \in (SUBSET A) \ {{}} : t[E] = step[pick[E]][t[E \ {pick[E]}]]
  <2> HIDE DEF A, V, pick, step
  <2>1. s \in V
    BY DEF V
  <2>2. SetRecursive(A, V, s, pick, step)
    BY <1>1, <1>3, <1>4, <2>1, SetRecursion
  <2> QED
    BY <2>2 DEF SetRecursive
<1>6. \A E \in (SUBSET A) \ {{}} : t[E] = Graph!Follow(g, o, node, depth, t[E \ {last(E)}], last(E))
  <2> TAKE E \in (SUBSET A) \ {{}}
  <2>1. last(E) \in A /\ E \ {last(E)} \in SUBSET A /\ pick[E] = last(E)
    BY <1>2, <1>3
  <2>2. t[E \ {last(E)}] \in V
    BY <2>1
  <2>3. step[last(E)][t[E \ {last(E)}]] = Graph!Follow(g, o, node, depth, t[E \ {last(E)}], last(E))
    BY <2>1, <2>2
  <2> QED
    BY <1>5, <2>1, <2>3
<1> HIDE DEF A, V, step, pick
<1>7. t = [E \in SUBSET A |-> IF E = {} THEN s ELSE Graph!Follow(g, o, node, depth, t[E \ {last(E)}], last(E))]
  <2>1. \A E \in SUBSET A : t[E] = IF E = {} THEN s ELSE Graph!Follow(g, o, node, depth, t[E \ {last(E)}], last(E))
    BY <1>5, <1>6
  <2> QED
    BY <2>1
<1>8. f = [E \in SUBSET A |-> IF E = {} THEN s ELSE Graph!Follow(g, o, node, depth, f[E \ {last(E)}], last(E))]
  BY <1>7
<1>9. Graph!FollowAll(g, o, node, depth, s) = f[A]
  BY DEF Graph!FollowAll, last, A
<1> HIDE DEF f
<1>10. \A E \in SUBSET A : E \in {D \in SUBSET A : f[D] = t[D]}
  <2> DEFINE T == {D \in SUBSET A : f[D] = t[D]}
  <2>1. {} \in T
    BY <1>5, <1>8
  <2>2. ASSUME NEW E \in SUBSET A, E # {}, \A x \in E : E \ {x} \in T
        PROVE  E \in T
    <3>1. last(E) \in E
      BY <1>2, <2>2
    <3>2. f[E \ {last(E)}] = t[E \ {last(E)}]
      BY <2>2, <3>1
    <3>3. f[E] = Graph!Follow(g, o, node, depth, f[E \ {last(E)}], last(E))
      BY <1>8, <2>2
    <3>4. t[E] = Graph!Follow(g, o, node, depth, t[E \ {last(E)}], last(E))
      BY <1>6, <2>2
    <3> QED
      BY <3>2, <3>3, <3>4
  <2>3. \A E \in SUBSET A : E \in T
    <3>1. \A E \in SUBSET A : E # {} /\ (\A x \in E : E \ {x} \in T) => E \in T
      BY <2>2
    <3> HIDE DEF T
    <3> QED
      BY <1>1, <2>1, <3>1, SubsetInduction
  <2> QED
    BY <2>3
<1>11. Graph!FollowAll(g, o, node, depth, s) = t[A]
  BY <1>9, <1>10
<1>12. \A E \in (SUBSET A) \ {{}} :
          /\ t[E] = Graph!Follow(g, o, node, depth, t[E \ {pick[E]}], pick[E])
          /\ \A d \in E : Graph!Rank(d, node) <= Graph!Rank(pick[E], node)
  BY <1>2, <1>3, <1>6
<1> QED
  BY <1>3, <1>5, <1>11, <1>12 DEF A, V, Followed

\* One node after another is taken from the queue,
Started(root) ==
    [queue |-> <<<<root, 0>>>>, visited |-> {}, nodes |-> {}, edges |-> {},
     truncated |-> FALSE, cut |-> FALSE, full |-> FALSE]
Stopped(s) == s.queue = <<>> \/ s.full
Visited(g, o, root, s) == IF Stopped(s) THEN s ELSE Graph!Visit(g, o, root, s)

LEMMA FollowAllTyped ==
  ASSUME NEW g, IsGraph(g), NEW root, NEW o, NEW node, NEW depth \in Nat, NEW s \in States(g, root)
  PROVE  Graph!FollowAll(g, o, node, depth, s) \in States(g, root)
<1>1. PICK pick \in Picks(Graph!Adjacent(g, node)) :
      \E f \in [SUBSET Graph!Adjacent(g, node) -> States(g, root)] : Followed(g, o, node, depth, s, pick, f)
  BY FollowSteps
<1>2. PICK f \in [SUBSET Graph!Adjacent(g, node) -> States(g, root)] : Followed(g, o, node, depth, s, pick, f)
  BY <1>1
<1>3. Graph!Adjacent(g, node) \in SUBSET Graph!Adjacent(g, node)
  OBVIOUS
<1> QED
  BY <1>2, <1>3 DEF Followed

LEMMA VisitTyped ==
  ASSUME NEW g, IsGraph(g), NEW root, NEW o, NEW s \in States(g, root), s.queue # <<>>
  PROVE  /\ Head(s.queue)[1] \in Nodes(g, root) /\ Head(s.queue)[2] \in Nat
         /\ Head(s.queue) = <<Head(s.queue)[1], Head(s.queue)[2]>>
         /\ Tail(s.queue) \in Seq(Nodes(g, root) \X Nat)
         /\ Graph!Visit(g, o, root, s) \in States(g, root)
<1> DEFINE node == Head(s.queue)[1]
           depth == Head(s.queue)[2]
           rest == [s EXCEPT !.queue = Tail(@), !.visited = @ \cup {node}, !.cut = FALSE]
           taken == [rest EXCEPT !.nodes = @ \cup {node}]
<1>1. s.queue \in Seq(Nodes(g, root) \X Nat)
  BY DEF States
<1>2. Head(s.queue) \in Nodes(g, root) \X Nat /\ Tail(s.queue) \in Seq(Nodes(g, root) \X Nat)
  BY <1>1
<1>3. node \in Nodes(g, root) /\ depth \in Nat /\ Head(s.queue) = <<node, depth>>
  BY <1>2
<1>4. rest \in States(g, root) /\ taken \in States(g, root)
  <2>1. s.visited \cup {node} \in SUBSET Nodes(g, root) /\ s.nodes \cup {node} \in SUBSET Nodes(g, root)
    BY <1>3 DEF States
  <2> QED
    BY <1>2, <2>1 DEF States
<1>5. [rest EXCEPT !.truncated = TRUE] \in States(g, root)
      /\ [rest EXCEPT !.truncated = TRUE, !.full = TRUE] \in States(g, root)
  BY <1>4 DEF States
<1>6. Graph!FollowAll(g, o, node, depth, taken) \in States(g, root)
  <2> HIDE DEF taken, node, depth
  <2> QED
    BY <1>3, <1>4, FollowAllTyped
<1>7. Graph!Visit(g, o, root, s) \in States(g, root)
  BY <1>4, <1>5, <1>6 DEF Graph!Visit
<1> QED
  BY <1>2, <1>3, <1>7

\* as often as there are edges and once more.
Run(g, root, o, after) ==
    LET N == Cardinality(g.edges) + 1
        end == after[N]
    IN /\ after[0] = Started(root)
       /\ \A n \in 1..N : after[n] = Visited(g, o, root, after[n - 1])
       /\ Graph!Traverse(g, root, o) =
             [nodes |-> end.nodes, truncated |-> end.truncated,
              edges |-> {e \in end.edges : {e.from, e.to} \subseteq end.nodes}]
LEMMA TraverseSteps ==
  ASSUME NEW g, IsGraph(g), NEW root, NEW o
  PROVE  /\ Cardinality(g.edges) + 1 \in Nat
         /\ \E after \in [0..Cardinality(g.edges) + 1 -> States(g, root)] : Run(g, root, o, after)
<1> DEFINE N == Cardinality(g.edges) + 1
           V == States(g, root)
           step == [n \in 1..N |-> [s \in V |-> Visited(g, o, root, s)]]
           after == CHOOSE h : h = [n \in 0..N |-> IF n = 0 THEN Started(root) ELSE Visited(g, o, root, h[n - 1])]
<1>1. N \in Nat
  BY FS_CardinalityType DEF IsGraph
<1>2. Started(root) \in V
  <2>1. <<root, 0>> \in Nodes(g, root) \X Nat
    BY DEF Nodes
  <2> QED
    BY <2>1 DEF Started, States
<1>3. step \in Steps(N, V)
  <2>1. \A s \in V : Visited(g, o, root, s) \in V
    BY VisitTyped DEF Visited, Stopped
  <2> QED
    BY <2>1 DEF Steps
<1>4. PICK t \in [0..N -> V] : t[0] = Started(root) /\ \A n \in 1..N : t[n] = step[n][t[n - 1]]
  <2> HIDE DEF step, N, V
  <2>1. Recursive(N, V, Started(root), step)
    BY <1>1, <1>2, <1>3, Recursion
  <2> QED
    BY <2>1 DEF Recursive
<1> HIDE DEF V, N
<1>5. \A n \in 1..N : t[n] = Visited(g, o, root, t[n - 1])
  <2> TAKE n \in 1..N
  <2>1. t[n - 1] \in V
    BY <1>1
  <2>2. step[n][t[n - 1]] = Visited(g, o, root, t[n - 1])
    BY <2>1
  <2> QED
    BY <1>4, <2>2
<1> HIDE DEF step
<1>6. t = [n \in 0..N |-> IF n = 0 THEN Started(root) ELSE Visited(g, o, root, t[n - 1])]
  BY <1>4, <1>5
<1>7. after = [n \in 0..N |-> IF n = 0 THEN Started(root) ELSE Visited(g, o, root, after[n - 1])]
  BY <1>6
<1>8. Graph!Traverse(g, root, o) = [nodes |-> after[N].nodes, truncated |-> after[N].truncated,
                              edges |-> {e \in after[N].edges : {e.from, e.to} \subseteq after[N].nodes}]
  BY SameCount DEF Graph!Traverse, Visited, Stopped, Started, N
<1> HIDE DEF after
<1>9. \A n \in 0..N : n \in {m \in 0..N : after[m] = t[m]}
  <2> DEFINE T == {m \in 0..N : after[m] = t[m]}
  <2>1. 0 \in T
    BY <1>1, <1>4, <1>7
  <2>2. ASSUME NEW n \in 1..N, n - 1 \in T
        PROVE  n \in T
    <3>1. n \in 0..N /\ n # 0 /\ after[n - 1] = t[n - 1]
      BY <1>1, <2>2
    <3>2. after[n] = Visited(g, o, root, after[n - 1])
      BY <1>7, <3>1
    <3> QED
      BY <1>5, <3>1, <3>2
  <2>3. \A n \in 1..N : n - 1 \in T => n \in T
    BY <2>2
  <2> QED
    <3>1. \A n \in 0..N : n \in T
      <4> HIDE DEF T
      <4> QED BY <1>1, <2>1, <2>3, UpTo
    <3> QED
      BY <3>1
<1>10. after[N] = t[N]
  BY <1>1, <1>9
<1>11. Run(g, root, o, t)
  <2>1. Graph!Traverse(g, root, o) = [nodes |-> t[N].nodes, truncated |-> t[N].truncated,
                                       edges |-> {e \in t[N].edges : {e.from, e.to} \subseteq t[N].nodes}]
    BY <1>8, <1>10
  <2> QED
    BY <1>4, <1>5, <2>1 DEF Run, N
<1> QED
  BY <1>1, <1>4, <1>11 DEF N, V

\* What is near grows with the distance.
Nearer(g, root, scope, near) ==
    near \cup {m \in DOMAIN g.owner : /\ Graph!Allowed(g, m, scope)
                                     /\ \E e \in Graph!Adjacent(g, m) : Graph!Other(e, m) \in near}
Spread(g, root, scope, d, near) ==
    /\ near[0] = {root}
    /\ \A n \in 1..d : near[n] = Nearer(g, root, scope, near[n - 1])
    /\ Graph!Within(g, root, scope, d) = near[d]
LEMMA WithinSteps ==
  ASSUME NEW g, NEW root, NEW scope, NEW d \in Nat
  PROVE  \E near \in [0..d -> SUBSET (DOMAIN g.owner \cup {root})] : Spread(g, root, scope, d, near)
<1> DEFINE V == SUBSET (DOMAIN g.owner \cup {root})
           step == [n \in 1..d |-> [s \in V |-> Nearer(g, root, scope, s)]]
           near == CHOOSE h : h = [n \in 0..d |-> IF n = 0 THEN {root} ELSE Nearer(g, root, scope, h[n - 1])]
<1>1. {root} \in V
  OBVIOUS
<1>2. step \in Steps(d, V)
  <2>1. \A s \in V : Nearer(g, root, scope, s) \in V
    BY DEF Nearer
  <2> QED
    BY <2>1 DEF Steps
<1>3. PICK t \in [0..d -> V] : t[0] = {root} /\ \A n \in 1..d : t[n] = step[n][t[n - 1]]
  <2> HIDE DEF step, V
  <2>1. Recursive(d, V, {root}, step)
    BY <1>1, <1>2, Recursion
  <2> QED
    BY <2>1 DEF Recursive
<1> HIDE DEF V
<1>4. \A n \in 1..d : t[n] = Nearer(g, root, scope, t[n - 1])
  <2> TAKE n \in 1..d
  <2>1. t[n - 1] \in V
    OBVIOUS
  <2>2. step[n][t[n - 1]] = Nearer(g, root, scope, t[n - 1])
    BY <2>1
  <2> QED
    BY <1>3, <2>2
<1> HIDE DEF step
<1>5. t = [n \in 0..d |-> IF n = 0 THEN {root} ELSE Nearer(g, root, scope, t[n - 1])]
  BY <1>3, <1>4
<1>6. near = [n \in 0..d |-> IF n = 0 THEN {root} ELSE Nearer(g, root, scope, near[n - 1])]
  BY <1>5
<1>7. Graph!Within(g, root, scope, d) = near[d]
  BY DEF Graph!Within, Nearer
<1> HIDE DEF near
<1>8. \A n \in 0..d : n \in {m \in 0..d : near[m] = t[m]}
  <2> DEFINE T == {m \in 0..d : near[m] = t[m]}
  <2>1. 0 \in T
    BY <1>3, <1>6
  <2>2. ASSUME NEW n \in 1..d, n - 1 \in T
        PROVE  n \in T
    <3>1. n \in 0..d /\ n # 0 /\ near[n - 1] = t[n - 1]
      BY <2>2
    <3>2. near[n] = Nearer(g, root, scope, near[n - 1])
      BY <1>6, <3>1
    <3> QED
      BY <1>4, <3>1, <3>2
  <2>3. \A n \in 1..d : n - 1 \in T => n \in T
    BY <2>2
  <2> QED
    <3>1. \A n \in 0..d : n \in T
      <4> HIDE DEF T
      <4> QED BY <2>1, <2>3, UpTo
    <3> QED
      BY <3>1
<1>9. near[d] = t[d]
  BY <1>8
<1> QED
  BY <1>3, <1>4, <1>7, <1>9 DEF V, Spread

\* The two ends of an edge are each the other's.
LEMMA OtherEnd ==
  ASSUME NEW g, NEW m, NEW e \in Graph!Adjacent(g, m)
  PROVE  /\ e \in g.edges /\ e \in Graph!Adjacent(g, Graph!Other(e, m)) /\ Graph!Other(e, Graph!Other(e, m)) = m
         /\ Graph!Other(e, m) \in Graph!Ends(g.edges) /\ m \in Graph!Ends(g.edges)
         /\ \A x : e \in Graph!Adjacent(g, x) => x = m \/ x = Graph!Other(e, m)
  BY DEF Graph!Adjacent, Graph!Other, Graph!Ends

\* A node at depth d of the search is the root, or joined to one that was taken.
Queued(s) == {s.queue[i] : i \in 1..Len(s.queue)}
Joined(g, root, o, s, dep, n, d) ==
    \/ n = root /\ d = 0
    \/ /\ n \in Graph!Ends(g.edges) /\ Graph!Allowed(g, n, o.scope) /\ d <= o.depth
       /\ \E e \in s.edges : e \in Graph!Adjacent(g, n) /\ Graph!Other(e, n) \in s.nodes /\ d = dep[Graph!Other(e, n)] + 1
Reached(g, root, o, s, dep) ==
    /\ \A n \in s.nodes : Joined(g, root, o, s, dep, n, dep[n])
    /\ \A q \in Queued(s) : Joined(g, root, o, s, dep, q[1], q[2])

\* The queue has one depth or two that follow each other, in order, and no node that
\* was taken is deeper.
InOrder(s, dep, low) ==
    /\ \A i \in 1..Len(s.queue) : low <= s.queue[i][2] /\ s.queue[i][2] <= low + 1
    /\ \A i, j \in 1..Len(s.queue) : i < j => s.queue[i][2] <= s.queue[j][2]
    /\ \A n \in s.nodes : dep[n] <= low

\* As long as nothing was left out, what the nodes taken lead to, those of X aside, was
\* taken or is in the queue.
Known(s, dep, m, d) ==
    \/ m \in s.nodes /\ dep[m] <= d
    \/ \E q \in Queued(s) : q[1] = m /\ q[2] <= d
Onward(g, o, s, dep, n) ==
    \A e \in Graph!Adjacent(g, n) : Graph!Allowed(g, Graph!Other(e, n), o.scope) => Known(s, dep, Graph!Other(e, n), dep[n] + 1)
Complete(g, root, o, s, dep, X) ==
    ~s.truncated =>
        /\ s.visited = s.nodes
        /\ Known(s, dep, root, 0)
        /\ \A n \in s.nodes \ X : dep[n] < o.depth => Onward(g, o, s, dep, n)
        /\ \A e \in s.edges : \E x \in s.nodes : e \in Graph!Adjacent(g, x) /\ Known(s, dep, Graph!Other(e, x), dep[x] + 1)

Bounded(g, root, o, s) ==
    /\ s \in States(g, root) /\ IsFiniteSet(s.nodes) /\ s.nodes \subseteq s.visited
    /\ Cardinality(s.nodes) <= o.nodes /\ Cardinality(s.edges) <= o.edges
    /\ Cardinality(s.nodes) + Cardinality(s.edges) <= o.bytes
    /\ s.cut \/ s.full => s.truncated
    /\ s.nodes = {} => s.edges = {}
    /\ s.full => Cardinality(s.nodes) >= o.nodes \/ Cardinality(s.nodes) + Cardinality(s.edges) >= o.bytes

\* Only messages are left aside before the search is full.
Skips(s) == \A n \in s.visited \ s.nodes : n[1] = "message" \/ s.full

Searched(g, root, o, s, dep, low, X) ==
    /\ Bounded(g, root, o, s) /\ Skips(s) /\ Reached(g, root, o, s, dep)
    /\ InOrder(s, dep, low) /\ Complete(g, root, o, s, dep, X)

\* An edge that leads on puts a node at the end of the queue.
Led(s, e, next, d) == [s EXCEPT !.edges = @ \cup {e}, !.queue = Append(@, <<next, d>>)]
LedOn(g, root, s, e, next, d, t) ==
    /\ t \in States(g, root) /\ t.edges = s.edges \cup {e} /\ t.nodes = s.nodes
    /\ t.visited = s.visited /\ t.truncated = s.truncated /\ t.cut = s.cut /\ t.full = s.full
    /\ Len(s.queue) \in Nat /\ Len(t.queue) = Len(s.queue) + 1
    /\ \A i \in 1..Len(s.queue) : t.queue[i] = s.queue[i] /\ s.queue[i][2] \in Nat
    /\ t.queue[Len(s.queue) + 1] = <<next, d>>
    /\ Queued(t) = Queued(s) \cup {<<next, d>>}
LEMMA LedIs ==
  ASSUME NEW g, IsGraph(g), NEW root, NEW s \in States(g, root), NEW e \in g.edges,
         NEW next \in Nodes(g, root), NEW d \in Nat
  PROVE  LedOn(g, root, s, e, next, d, Led(s, e, next, d))
<1> DEFINE t == Led(s, e, next, d)
<1>1. s.queue \in Seq(Nodes(g, root) \X Nat) /\ s.edges \subseteq g.edges
  BY DEF States
<1>2. <<next, d>> \in Nodes(g, root) \X Nat
  OBVIOUS
<1>3. t.queue = Append(s.queue, <<next, d>>)
  BY DEF Led, States
<1>4. t.queue \in Seq(Nodes(g, root) \X Nat)
  BY <1>1, <1>2, <1>3
<1>5. /\ t \in States(g, root) /\ t.edges = s.edges \cup {e} /\ t.nodes = s.nodes
      /\ t.visited = s.visited /\ t.truncated = s.truncated /\ t.cut = s.cut /\ t.full = s.full
  BY <1>1, <1>3, <1>4 DEF Led, States
<1> HIDE DEF t
<1>6. /\ Len(s.queue) \in Nat /\ Len(t.queue) = Len(s.queue) + 1
      /\ \A i \in 1..Len(s.queue) : t.queue[i] = s.queue[i] /\ s.queue[i] \in Nodes(g, root) \X Nat
      /\ t.queue[Len(s.queue) + 1] = <<next, d>>
  BY <1>1, <1>2, <1>3
<1>7. Queued(t) = Queued(s) \cup {<<next, d>>}
  <2>1. \A i : i \in 1..Len(t.queue) <=> i \in 1..Len(s.queue) \/ i = Len(s.queue) + 1
    BY <1>6
  <2>2. \A q : q \in Queued(t) <=> q \in Queued(s) \/ q = <<next, d>>
    BY <1>6, <2>1 DEF Queued
  <2> QED
    BY <2>2
<1>8. \A i \in 1..Len(s.queue) : s.queue[i][2] \in Nat
  BY <1>6
<1>9. LedOn(g, root, s, e, next, d, t)
  BY <1>5, <1>6, <1>7, <1>8 DEF LedOn
<1> QED
  BY <1>9 DEF t

\* Following an edge of the node at hand keeps the search whole, and the other end of
\* the edge is known then.
Begins(s, t) == Len(s) <= Len(t) /\ \A i \in 1..Len(s) : t[i] = s[i]
Leads(g, root, o, dep, low, node, e, s, t) ==
    /\ Searched(g, root, o, t, dep, low, {node})
    /\ t.nodes = s.nodes /\ t.visited = s.visited /\ t.full = s.full /\ Begins(s.queue, t.queue)
    /\ Len(t.queue) - Cardinality(t.edges) = Len(s.queue) - Cardinality(s.edges)
    /\ ~t.truncated => /\ ~s.truncated
                       /\ \A m, d : Known(s, dep, m, d) => Known(t, dep, m, d)
                       /\ Graph!Allowed(g, Graph!Other(e, node), o.scope) => Known(t, dep, Graph!Other(e, node), low + 1)
LEMMA FollowKeeps ==
  ASSUME NEW g, IsGraph(g), NEW root, NEW o \in Bounds, NEW s, NEW dep \in [Nodes(g, root) -> Nat],
         NEW low \in Nat, NEW node \in s.nodes, dep[node] = low, low < o.depth,
         NEW e \in Graph!Adjacent(g, node), Searched(g, root, o, s, dep, low, {node})
  PROVE  Leads(g, root, o, dep, low, node, e, s, Graph!Follow(g, o, node, low, s, e))
<1> USE DEF Leads
<1> DEFINE next == Graph!Other(e, node)
           t == Graph!Follow(g, o, node, low, s, e)
           c == [s EXCEPT !.cut = TRUE, !.truncated = TRUE]
<1>1. s \in States(g, root) /\ e \in g.edges /\ next \in Nodes(g, root) /\ next \in Graph!Ends(g.edges)
  BY Ranks DEF Searched, Bounded, Nodes
<1>2. /\ s.nodes \subseteq Nodes(g, root) /\ s.edges \subseteq g.edges /\ IsFiniteSet(s.edges)
      /\ Cardinality(s.edges) \in Nat /\ Cardinality(s.nodes) \in Nat /\ Begins(s.queue, s.queue)
  <2>1. s.edges \subseteq g.edges /\ s.nodes \subseteq Nodes(g, root)
    BY <1>1 DEF States
  <2>2. IsFiniteSet(s.edges) /\ IsFiniteSet(s.nodes)
    BY <2>1, FS_Subset DEF IsGraph, Searched, Bounded
  <2>3. Begins(s.queue, s.queue)
    <3>1. s.queue \in Seq(Nodes(g, root) \X Nat)
      BY <1>1 DEF States
    <3>2. Len(s.queue) \in Nat
      BY <3>1
    <3> QED
      BY <3>2 DEF Begins
  <2> QED
    BY <2>1, <2>2, <2>3, FS_CardinalityType
<1>3. CASE s.cut
  <2>1. t = s
    BY <1>3 DEF Graph!Follow
  <2>2. s.truncated
    BY <1>3 DEF Searched, Bounded
  <2> QED
    BY <1>2, <2>1, <2>2
<1>4. CASE ~s.cut /\ e \in s.edges
  <2>1. t = s
    BY <1>4 DEF Graph!Follow
  <2>2. ASSUME ~s.truncated
        PROVE  Known(s, dep, next, low + 1)
    <3>1. PICK x \in s.nodes : e \in Graph!Adjacent(g, x) /\ Known(s, dep, Graph!Other(e, x), dep[x] + 1)
      BY <1>4, <2>2 DEF Searched, Complete
    <3>2. CASE x = node
      BY <3>1, <3>2
    <3>3. CASE x # node
      <4>1. x = next
        BY <3>1, <3>3, OtherEnd
      <4>2. dep[x] <= low /\ dep[x] \in Nat
        BY <1>2 DEF Searched, InOrder
      <4> QED
        BY <4>1, <4>2 DEF Known
    <3> QED
      BY <3>2, <3>3
  <2> QED
    BY <1>2, <2>1, <2>2
<1>5. CASE ~s.cut /\ e \notin s.edges /\ ~Graph!Allowed(g, next, o.scope)
  BY <1>2, <1>5 DEF Graph!Follow
<1>6. CASE /\ ~s.cut /\ e \notin s.edges /\ Graph!Allowed(g, next, o.scope)
           /\ Cardinality(s.edges) >= o.edges \/ Cardinality(s.edges) + Cardinality(s.nodes) >= o.bytes
  <2>1. t = c
    BY <1>6, SameCount DEF Graph!Follow
  <2>2. /\ c.nodes = s.nodes /\ c.edges = s.edges /\ c.queue = s.queue /\ c.visited = s.visited
        /\ c.truncated /\ c.full = s.full /\ c \in States(g, root)
    BY <1>1 DEF States
  <2> HIDE DEF c
  <2>3. Bounded(g, root, o, c)
    BY <2>2 DEF Searched, Bounded
  <2>4. Reached(g, root, o, c, dep) /\ InOrder(c, dep, low) /\ Complete(g, root, o, c, dep, {node})
    BY <2>2 DEF Searched, Reached, Joined, Queued, InOrder, Complete
  <2> QED
    BY <1>2, <2>1, <2>2, <2>3, <2>4 DEF Searched, Skips
<1>7. CASE /\ ~s.cut /\ e \notin s.edges /\ Graph!Allowed(g, next, o.scope)
           /\ ~(Cardinality(s.edges) >= o.edges \/ Cardinality(s.edges) + Cardinality(s.nodes) >= o.bytes)
  <2>1. t = Led(s, e, next, low + 1)
    BY <1>7, SameCount DEF Graph!Follow, Led
  <2>2. low + 1 \in Nat
    OBVIOUS
  <2> HIDE DEF t, next
  <2>3. /\ t \in States(g, root) /\ t.edges = s.edges \cup {e} /\ t.nodes = s.nodes
        /\ t.visited = s.visited /\ t.truncated = s.truncated /\ t.cut = s.cut /\ t.full = s.full
        /\ Len(s.queue) \in Nat /\ Len(t.queue) = Len(s.queue) + 1
        /\ \A i \in 1..Len(s.queue) : t.queue[i] = s.queue[i] /\ s.queue[i][2] \in Nat
        /\ t.queue[Len(s.queue) + 1] = <<next, low + 1>>
        /\ Queued(t) = Queued(s) \cup {<<next, low + 1>>}
    <3>1. LedOn(g, root, s, e, next, low + 1, Led(s, e, next, low + 1))
      BY <1>1, <2>2, LedIs
    <3> QED
      BY <2>1, <3>1 DEF LedOn
  <2>4. Cardinality(t.edges) = Cardinality(s.edges) + 1
    <3>1. Cardinality(s.edges \cup {e}) = Cardinality(s.edges) + 1
      BY <1>2, <1>7, FS_AddElement
    <3> QED
      BY <2>3, <3>1
  <2>5. Bounded(g, root, o, t)
    <3>1. o.edges \in Nat /\ o.bytes \in Nat
      BY DEF Bounds
    <3>2. Cardinality(s.edges) + 1 <= o.edges /\ Cardinality(s.nodes) + (Cardinality(s.edges) + 1) <= o.bytes
      BY <1>2, <1>7, <3>1
    <3>3. Cardinality(s.edges) <= Cardinality(t.edges)
      BY <1>2, <2>4
    <3>4. s.full => Cardinality(t.nodes) >= o.nodes \/ Cardinality(t.nodes) + Cardinality(t.edges) >= o.bytes
      BY <1>2, <2>3, <2>4, <3>1, <3>3 DEF Searched, Bounded
    <3> QED
      BY <2>3, <2>4, <3>2, <3>4 DEF Searched, Bounded
  <2>6. \A m, d : Known(s, dep, m, d) => Known(t, dep, m, d)
    BY <2>3 DEF Known
  <2>7. Known(t, dep, next, low + 1)
    <3>1. <<next, low + 1>> \in Queued(t)
      BY <2>3
    <3> QED
      BY <3>1 DEF Known
  <2>8. \A n, d : Joined(g, root, o, s, dep, n, d) => Joined(g, root, o, t, dep, n, d)
    BY <2>3 DEF Joined
  <2>9. Joined(g, root, o, t, dep, next, low + 1)
    <3>1. e \in Graph!Adjacent(g, next) /\ Graph!Other(e, next) = node
      BY OtherEnd DEF next
    <3>2. low + 1 <= o.depth
      BY DEF Bounds
    <3> QED
      BY <1>1, <1>7, <2>3, <3>1, <3>2 DEF Joined
  <2>10. Reached(g, root, o, t, dep)
    BY <2>3, <2>8, <2>9 DEF Searched, Reached
  <2>11. InOrder(t, dep, low)
    <3>1. \A i \in 1..Len(t.queue) : i \in 1..Len(s.queue) \/ i = Len(s.queue) + 1
      BY <2>3
    <3>2. t.queue[Len(s.queue) + 1][2] = low + 1
      BY <2>3
    <3>3. \A i \in 1..Len(t.queue) : low <= t.queue[i][2] /\ t.queue[i][2] <= low + 1
      BY <2>3, <3>1, <3>2 DEF Searched, InOrder
    <3>4. ASSUME NEW i \in 1..Len(t.queue), NEW j \in 1..Len(t.queue), i < j
          PROVE  t.queue[i][2] <= t.queue[j][2]
      <4>1. i \in 1..Len(s.queue)
        BY <2>3, <3>4
      <4>2. CASE j \in 1..Len(s.queue)
        BY <2>3, <3>4, <4>1, <4>2 DEF Searched, InOrder
      <4>3. CASE j = Len(s.queue) + 1
        BY <3>2, <3>3, <4>3
      <4> QED
        BY <3>1, <4>2, <4>3
    <3> QED
      BY <2>3, <3>3, <3>4 DEF Searched, InOrder
  <2>12. Complete(g, root, o, t, dep, {node})
    <3> SUFFICES ASSUME ~t.truncated
                 PROVE  /\ t.visited = t.nodes
                        /\ Known(t, dep, root, 0)
                        /\ \A n \in t.nodes \ {node} : dep[n] < o.depth => Onward(g, o, t, dep, n)
                        /\ \A d \in t.edges : \E x \in t.nodes :
                              d \in Graph!Adjacent(g, x) /\ Known(t, dep, Graph!Other(d, x), dep[x] + 1)
      BY DEF Complete
    <3>1. /\ s.visited = s.nodes
          /\ Known(s, dep, root, 0)
          /\ \A n \in s.nodes \ {node} : dep[n] < o.depth => Onward(g, o, s, dep, n)
          /\ \A d \in s.edges : \E x \in s.nodes :
                d \in Graph!Adjacent(g, x) /\ Known(s, dep, Graph!Other(d, x), dep[x] + 1)
      BY <2>3 DEF Searched, Complete
    <3>2. \A n \in t.nodes \ {node} : dep[n] < o.depth => Onward(g, o, t, dep, n)
      BY <2>3, <2>6, <3>1 DEF Onward
    <3>3. ASSUME NEW d \in t.edges
          PROVE  \E x \in t.nodes : d \in Graph!Adjacent(g, x) /\ Known(t, dep, Graph!Other(d, x), dep[x] + 1)
      <4>1. CASE d = e
        BY <2>3, <2>7, <4>1 DEF next
      <4>2. CASE d \in s.edges
        BY <2>3, <2>6, <3>1, <4>2
      <4> QED
        BY <2>3, <4>1, <4>2
    <3> QED
      BY <2>3, <2>6, <3>1, <3>2, <3>3
  <2>13. Searched(g, root, o, t, dep, low, {node})
    BY <2>3, <2>5, <2>10, <2>11, <2>12 DEF Searched, Skips
  <2>14. Len(t.queue) - Cardinality(t.edges) = Len(s.queue) - Cardinality(s.edges)
    <3>1. Len(t.queue) = Len(s.queue) + 1 /\ Len(s.queue) \in Nat
      BY <2>3
    <3>2. Cardinality(s.edges) \in Nat
      BY <1>2
    <3> QED
      BY <2>4, <3>1, <3>2
  <2>15. Begins(s.queue, t.queue)
    BY <2>3 DEF Begins
  <2> QED
    BY <2>3, <2>6, <2>7, <2>13, <2>14, <2>15 DEF t, next
<1> QED
  BY <1>3, <1>4, <1>5, <1>6, <1>7

\* So does following all edges of the node, and it leaves none out.
AllFollowed(g, root, o, dep, low, s, t) ==
    /\ Searched(g, root, o, t, dep, low, {})
    /\ t.nodes = s.nodes /\ t.visited = s.visited /\ t.full = s.full /\ Begins(s.queue, t.queue)
    /\ Len(t.queue) - Cardinality(t.edges) = Len(s.queue) - Cardinality(s.edges)
LEMMA FollowAllKeeps ==
  ASSUME NEW g, IsGraph(g), NEW root, NEW o \in Bounds, NEW s, NEW dep \in [Nodes(g, root) -> Nat],
         NEW low \in Nat, NEW node \in s.nodes, dep[node] = low, low < o.depth,
         Searched(g, root, o, s, dep, low, {node})
  PROVE  AllFollowed(g, root, o, dep, low, s, Graph!FollowAll(g, o, node, low, s))
<1> DEFINE A == Graph!Adjacent(g, node)
<1>1. s \in States(g, root)
  BY DEF Searched, Bounded
<1>2. PICK pick \in Picks(A), f \in [SUBSET A -> States(g, root)] :
         Followed(g, o, node, low, s, pick, f)
  BY <1>1, FollowSteps
<1> DEFINE Met(t, E) == \A e \in E : Graph!Allowed(g, Graph!Other(e, node), o.scope) => Known(t, dep, Graph!Other(e, node), low + 1)
           Ok(t, E) ==
              /\ Searched(g, root, o, t, dep, low, {node}) /\ t.nodes = s.nodes
              /\ t.visited = s.visited /\ t.full = s.full /\ Begins(s.queue, t.queue)
              /\ Len(t.queue) - Cardinality(t.edges) = Len(s.queue) - Cardinality(s.edges)
              /\ ~t.truncated => Met(t, E)
           T == {E \in SUBSET A : Ok(f[E], E)}
<1>3. {} \in T
  <2>1. Len(s.queue) \in Nat
    <3>1. s.queue \in Seq(Nodes(g, root) \X Nat)
      BY <1>1 DEF States
    <3> QED
      BY <3>1
  <2> QED
    BY <1>2, <2>1 DEF Followed, Begins
<1>4. ASSUME NEW E \in SUBSET A, E # {}, \A x \in E : E \ {x} \in T
      PROVE  E \in T
  <2> DEFINE e == pick[E]
             p == f[E \ {e}]
             t == f[E]
  <2>1. e \in E /\ e \in A
    BY <1>2, <1>4 DEF Picks
  <2>2. Ok(p, E \ {e})
    BY <1>4, <2>1
  <2>3. t = Graph!Follow(g, o, node, low, p, e)
    BY <1>2, <1>4 DEF Followed
  <2> HIDE DEF e, p, t
  <2>4. Leads(g, root, o, dep, low, node, e, p, t)
    <3>1. node \in p.nodes /\ Searched(g, root, o, p, dep, low, {node}) /\ e \in Graph!Adjacent(g, node)
      BY <2>1, <2>2
    <3> HIDE DEF Ok, T, A, Met
    <3> QED
      BY <2>3, <3>1, FollowKeeps
  <2>5. ~t.truncated => Met(t, E)
    BY <2>2, <2>4 DEF Leads
  <2>6. Begins(s.queue, t.queue)
    <3>1. p \in States(g, root) /\ t \in States(g, root)
      BY <2>2, <2>4 DEF Leads, Searched, Bounded
    <3>2. Len(s.queue) \in Nat /\ Len(p.queue) \in Nat /\ Len(t.queue) \in Nat
      <4>1. /\ s.queue \in Seq(Nodes(g, root) \X Nat) /\ p.queue \in Seq(Nodes(g, root) \X Nat)
            /\ t.queue \in Seq(Nodes(g, root) \X Nat)
        BY <1>1, <3>1 DEF States
      <4> QED
        BY <4>1
    <3>3. Begins(s.queue, p.queue) /\ Begins(p.queue, t.queue)
      BY <2>2, <2>4 DEF Leads
    <3> QED
      BY <3>2, <3>3 DEF Begins
  <2> QED
    BY <1>4, <2>2, <2>4, <2>5, <2>6 DEF t, Leads
<1>5. Ok(f[A], A)
  <2>1. IsFiniteSet(A)
    <3>1. A \in SUBSET g.edges /\ IsFiniteSet(g.edges)
      BY DEF Graph!Adjacent, IsGraph
    <3> HIDE DEF A
    <3> QED
      BY <3>1, FS_Subset
  <2>2. \A E \in SUBSET A : E # {} /\ (\A x \in E : E \ {x} \in T) => E \in T
    BY <1>4
  <2>3. \A E \in SUBSET A : E \in T
    <3> HIDE DEF T, A
    <3> QED
      BY <1>3, <2>1, <2>2, SubsetInduction
  <2>4. A \in T
    <3> HIDE DEF T
    <3> QED
      BY <2>3
  <2> QED
    BY <2>4
<1> DEFINE t == f[A]
<1>6. Graph!FollowAll(g, o, node, low, s) = t
  BY <1>2 DEF Followed
<1> HIDE DEF t
<1>7. Complete(g, root, o, t, dep, {})
  <2>1. ~t.truncated => Onward(g, o, t, dep, node)
    BY <1>5 DEF Onward, t
  <2>2. Complete(g, root, o, t, dep, {node})
    BY <1>5 DEF Searched, t
  <2> QED
    BY <2>1, <2>2 DEF Complete
<1>8. Searched(g, root, o, t, dep, low, {})
  BY <1>5, <1>7 DEF Searched, t
<1> QED
  BY <1>5, <1>6, <1>8 DEF t, AllFollowed

\* Taking the head off a queue leaves the rest of it.
Rest(s, node) == [s EXCEPT !.queue = Tail(@), !.visited = @ \cup {node}, !.cut = FALSE]
TakenIn(s, node) == [Rest(s, node) EXCEPT !.nodes = @ \cup {node}]
LEMMA RestIs ==
  ASSUME NEW g, IsGraph(g), NEW root, NEW s \in States(g, root), s.queue # <<>>
  PROVE  LET node == Head(s.queue)[1]
             depth == Head(s.queue)[2]
             r == Rest(s, node)
         IN /\ node \in Nodes(g, root) /\ depth \in Nat /\ r \in States(g, root) /\ TakenIn(s, node) \in States(g, root)
            /\ s.queue[1][1] = node /\ s.queue[1][2] = depth
            /\ r.nodes = s.nodes /\ r.edges = s.edges /\ r.visited = s.visited \cup {node}
            /\ r.truncated = s.truncated /\ r.full = s.full /\ ~r.cut
            /\ Len(s.queue) \in Nat \ {0} /\ Len(r.queue) = Len(s.queue) - 1
            /\ \A i \in 1..Len(r.queue) : i + 1 \in 1..Len(s.queue) /\ r.queue[i] = s.queue[i + 1]
            /\ \A i \in 1..Len(s.queue) : s.queue[i][2] \in Nat
            /\ \A q : q \in Queued(s) <=> q \in Queued(r) \/ q = <<node, depth>>
<1> DEFINE node == Head(s.queue)[1]
           depth == Head(s.queue)[2]
           r == Rest(s, node)
<1>1. s.queue \in Seq(Nodes(g, root) \X Nat)
  BY DEF States
<1>2. Head(s.queue) \in Nodes(g, root) \X Nat /\ Tail(s.queue) \in Seq(Nodes(g, root) \X Nat)
      /\ Head(s.queue) = s.queue[1]
  BY <1>1
<1>3. node \in Nodes(g, root) /\ depth \in Nat /\ s.queue[1] = <<node, depth>>
  BY <1>2
<1>4. r \in States(g, root) /\ TakenIn(s, node) \in States(g, root)
  <2>1. s.visited \cup {node} \in SUBSET Nodes(g, root) /\ s.nodes \cup {node} \in SUBSET Nodes(g, root)
    BY <1>3 DEF States
  <2> QED
    BY <1>2, <2>1 DEF States, Rest, TakenIn
<1>5. /\ r.nodes = s.nodes /\ r.edges = s.edges /\ r.visited = s.visited \cup {node}
      /\ r.truncated = s.truncated /\ r.full = s.full /\ ~r.cut /\ r.queue = Tail(s.queue)
  BY DEF Rest, States
<1> HIDE DEF r
<1>6. /\ Len(s.queue) \in Nat \ {0} /\ Len(r.queue) = Len(s.queue) - 1
      /\ \A i \in 1..Len(r.queue) : i + 1 \in 1..Len(s.queue) /\ r.queue[i] = s.queue[i + 1]
      /\ \A i \in 1..Len(s.queue) : s.queue[i] \in Nodes(g, root) \X Nat
  BY <1>1, <1>5
<1>8. ASSUME NEW i \in 1..Len(s.queue), i # 1
      PROVE  i - 1 \in 1..Len(r.queue) /\ s.queue[i] = r.queue[i - 1]
  <2>1. i - 1 \in 1..Len(r.queue) /\ (i - 1) + 1 = i
    BY <1>6, <1>8
  <2> QED
    BY <1>6, <2>1
<1>9. \A q : q \in Queued(s) <=> q \in Queued(r) \/ q = <<node, depth>>
  <2> HIDE DEF node, depth
  <2>1. ASSUME NEW q \in Queued(s)
        PROVE  q \in Queued(r) \/ q = <<node, depth>>
    BY <1>3, <1>8 DEF Queued
  <2>2. ASSUME NEW q \in Queued(r)
        PROVE  q \in Queued(s)
    BY <1>6 DEF Queued
  <2>3. <<node, depth>> \in Queued(s)
    BY <1>3, <1>6 DEF Queued
  <2> QED
    BY <2>1, <2>2, <2>3
<1>10. \A i \in 1..Len(s.queue) : s.queue[i][2] \in Nat
  BY <1>6
<1> QED
  BY <1>3, <1>4, <1>5, <1>6, <1>9, <1>10 DEF r

LEMMA RestKeeps ==
  ASSUME NEW g, IsGraph(g), NEW root, NEW o \in Bounds, NEW s, NEW dep \in [Nodes(g, root) -> Nat],
         NEW low \in Nat, s.queue # <<>>, Searched(g, root, o, s, dep, low, {})
  PROVE  LET node == Head(s.queue)[1]
             depth == Head(s.queue)[2]
             r == Rest(s, node)
         IN /\ Bounded(g, root, o, r) /\ Reached(g, root, o, r, dep) /\ InOrder(r, dep, depth)
            /\ low <= depth /\ Joined(g, root, o, s, dep, node, depth)
            /\ node \in s.visited => Complete(g, root, o, r, dep, {})
<1> DEFINE node == Head(s.queue)[1]
           depth == Head(s.queue)[2]
           r == Rest(s, node)
<1>1. s \in States(g, root)
  BY DEF Searched, Bounded
<1>2. /\ node \in Nodes(g, root) /\ depth \in Nat /\ r \in States(g, root)
      /\ s.queue[1][1] = node /\ s.queue[1][2] = depth
      /\ r.nodes = s.nodes /\ r.edges = s.edges /\ r.visited = s.visited \cup {node}
      /\ r.truncated = s.truncated /\ r.full = s.full /\ ~r.cut
      /\ Len(s.queue) \in Nat \ {0} /\ Len(r.queue) = Len(s.queue) - 1
      /\ \A i \in 1..Len(r.queue) : i + 1 \in 1..Len(s.queue) /\ r.queue[i] = s.queue[i + 1]
      /\ \A i \in 1..Len(s.queue) : s.queue[i][2] \in Nat
      /\ \A q : q \in Queued(s) <=> q \in Queued(r) \/ q = <<node, depth>>
  BY <1>1, RestIs
<1> HIDE DEF node, depth, r
<1>3. Bounded(g, root, o, r)
  BY <1>2 DEF Searched, Bounded
<1>4. \A n, d : Joined(g, root, o, s, dep, n, d) => Joined(g, root, o, r, dep, n, d)
  BY <1>2 DEF Joined
<1>5. Joined(g, root, o, s, dep, node, depth)
  <2>1. <<node, depth>> \in Queued(s)
    BY <1>2
  <2>2. \A q \in Queued(s) : Joined(g, root, o, s, dep, q[1], q[2])
    BY DEF Searched, Reached
  <2>3. Joined(g, root, o, s, dep, <<node, depth>>[1], <<node, depth>>[2])
    BY <2>1, <2>2
  <2> QED
    BY <2>3
<1>6. Reached(g, root, o, r, dep)
  BY <1>2, <1>4 DEF Searched, Reached
<1>7. /\ \A i \in 1..Len(s.queue) : low <= s.queue[i][2] /\ s.queue[i][2] <= low + 1
      /\ \A i, j \in 1..Len(s.queue) : i < j => s.queue[i][2] <= s.queue[j][2]
      /\ \A n \in s.nodes : dep[n] <= low
  BY DEF Searched, InOrder
<1>8. low <= depth /\ 1 \in 1..Len(s.queue)
  <2>1. 1 \in 1..Len(s.queue)
    BY <1>2
  <2> QED
    BY <1>2, <1>7, <2>1
<1>9. \A n \in s.nodes : dep[n] \in Nat /\ dep[n] <= depth
  <2>1. s.nodes \subseteq Nodes(g, root)
    BY <1>1 DEF States
  <2>2. \A n \in s.nodes : dep[n] \in Nat
    BY <2>1
  <2> QED
    BY <1>2, <1>7, <1>8, <2>2
<1>10. InOrder(r, dep, depth)
  <2>1. ASSUME NEW i \in 1..Len(r.queue)
        PROVE  depth <= r.queue[i][2] /\ r.queue[i][2] <= depth + 1
    <3>1. i + 1 \in 1..Len(s.queue) /\ r.queue[i] = s.queue[i + 1] /\ 1 < i + 1
      BY <1>2
    <3>2. s.queue[1][2] <= s.queue[i + 1][2] /\ s.queue[i + 1][2] <= low + 1 /\ s.queue[i + 1][2] \in Nat
      BY <1>2, <1>7, <1>8, <3>1
    <3> QED
      BY <1>2, <1>8, <3>1, <3>2
  <2>2. ASSUME NEW i \in 1..Len(r.queue), NEW j \in 1..Len(r.queue), i < j
        PROVE  r.queue[i][2] <= r.queue[j][2]
    <3>1. /\ i + 1 \in 1..Len(s.queue) /\ r.queue[i] = s.queue[i + 1]
          /\ j + 1 \in 1..Len(s.queue) /\ r.queue[j] = s.queue[j + 1] /\ i + 1 < j + 1
      BY <1>2, <2>2
    <3> QED
      BY <1>7, <3>1
  <2> QED
    BY <1>2, <1>9, <2>1, <2>2 DEF InOrder
<1>11. ASSUME node \in s.visited
       PROVE  Complete(g, root, o, r, dep, {})
  <2> SUFFICES ASSUME ~s.truncated
               PROVE  Complete(g, root, o, r, dep, {})
    BY <1>2 DEF Complete
  <2>1. s.visited = s.nodes /\ node \in s.nodes
    BY <1>11 DEF Searched, Complete
  <2>2. ASSUME NEW m, NEW d, d \in Nat, Known(s, dep, m, d)
        PROVE  Known(r, dep, m, d)
    <3>1. CASE m = node /\ depth <= d
      <4>1. dep[node] <= d
        BY <1>2, <1>9, <2>1, <2>2, <3>1
      <4> QED
        BY <1>2, <2>1, <3>1, <4>1 DEF Known
    <3>2. CASE ~(m = node /\ depth <= d)
      BY <1>2, <2>2, <3>2 DEF Known
    <3> QED
      BY <3>1, <3>2
  <2>3. \A n \in s.nodes : dep[n] + 1 \in Nat
    BY <1>9
  <2>4. /\ Known(s, dep, root, 0)
        /\ \A n \in s.nodes : dep[n] < o.depth => Onward(g, o, s, dep, n)
        /\ \A e \in s.edges : \E x \in s.nodes : e \in Graph!Adjacent(g, x) /\ Known(s, dep, Graph!Other(e, x), dep[x] + 1)
    BY DEF Searched, Complete
  <2>5. \A n \in r.nodes : dep[n] < o.depth => Onward(g, o, r, dep, n)
    BY <1>2, <2>2, <2>3, <2>4 DEF Onward
  <2>6. \A e \in r.edges : \E x \in r.nodes : e \in Graph!Adjacent(g, x) /\ Known(r, dep, Graph!Other(e, x), dep[x] + 1)
    BY <1>2, <2>2, <2>3, <2>4
  <2>7. Known(r, dep, root, 0)
    BY <2>2, <2>4
  <2> QED
    BY <1>2, <2>1, <2>5, <2>6, <2>7 DEF Complete
<1> QED
  BY <1>3, <1>5, <1>6, <1>8, <1>10, <1>11 DEF node, depth, r

\* A node that is taken is of the search, at the depth it had in the queue,
LEMMA TakenKeeps ==
  ASSUME NEW g, IsGraph(g), NEW root, NEW o \in Bounds, NEW s, NEW dep \in [Nodes(g, root) -> Nat],
         NEW low \in Nat, s.queue # <<>>, Searched(g, root, o, s, dep, low, {}),
         Head(s.queue)[1] \notin s.visited, Cardinality(s.nodes) < o.nodes,
         Cardinality(s.edges) + Cardinality(s.nodes) < o.bytes
  PROVE  LET node == Head(s.queue)[1]
             depth == Head(s.queue)[2]
             t == TakenIn(s, node)
         IN /\ t.nodes = s.nodes \cup {node} /\ t.edges = s.edges /\ t.queue = Tail(s.queue)
            /\ [dep EXCEPT ![node] = depth][node] = depth
            /\ Searched(g, root, o, t, [dep EXCEPT ![node] = depth], depth, {node})
<1> DEFINE node == Head(s.queue)[1]
           depth == Head(s.queue)[2]
           r == Rest(s, node)
           t == TakenIn(s, node)
           d2 == [dep EXCEPT ![node] = depth]
<1>1. s \in States(g, root) /\ IsFiniteSet(s.nodes) /\ s.nodes \subseteq s.visited /\ s.nodes \subseteq Nodes(g, root)
  BY DEF Searched, Bounded, States
<1>2. /\ node \in Nodes(g, root) /\ depth \in Nat /\ t \in States(g, root) /\ r \in States(g, root)
      /\ r.nodes = s.nodes /\ r.edges = s.edges /\ r.visited = s.visited \cup {node}
      /\ r.truncated = s.truncated /\ r.full = s.full /\ ~r.cut
      /\ \A q : q \in Queued(s) <=> q \in Queued(r) \/ q = <<node, depth>>
  BY <1>1, RestIs
<1>3. /\ Bounded(g, root, o, r) /\ Reached(g, root, o, r, dep) /\ InOrder(r, dep, depth)
      /\ low <= depth /\ Joined(g, root, o, s, dep, node, depth)
  BY RestKeeps
<1>4. /\ t.nodes = s.nodes \cup {node} /\ t.edges = s.edges /\ t.visited = s.visited \cup {node}
      /\ t.truncated = s.truncated /\ t.full = s.full /\ ~t.cut /\ t.queue = r.queue
      /\ r.queue = Tail(s.queue)
  BY <1>1, <1>2 DEF TakenIn, Rest, States
<1>5. node \notin s.nodes /\ d2 \in [Nodes(g, root) -> Nat] /\ d2[node] = depth
      /\ \A n \in s.nodes : d2[n] = dep[n]
  BY <1>1, <1>2
<1> HIDE DEF node, depth, r, t, d2
<1>6. Queued(t) = Queued(r)
  BY <1>4 DEF Queued
<1>7. Bounded(g, root, o, t)
  <2>1. Cardinality(t.nodes) = Cardinality(s.nodes) + 1 /\ IsFiniteSet(t.nodes)
    <3>1. Cardinality(s.nodes \cup {node}) = Cardinality(s.nodes) + 1 /\ IsFiniteSet(s.nodes \cup {node})
      BY <1>1, <1>5, FS_AddElement
    <3> QED
      BY <1>4, <3>1
  <2>2. IsFiniteSet(s.edges)
    <3>1. s.edges \subseteq g.edges /\ IsFiniteSet(g.edges)
      BY <1>1 DEF States, IsGraph
    <3> QED
      BY <3>1, FS_Subset
  <2>3. Cardinality(s.nodes) \in Nat /\ Cardinality(s.edges) \in Nat /\ o.nodes \in Nat /\ o.bytes \in Nat
    BY <1>1, <2>2, FS_CardinalityType DEF Bounds
  <2>4. Cardinality(s.nodes) + 1 <= o.nodes /\ Cardinality(s.nodes) + 1 + Cardinality(s.edges) <= o.bytes
    BY <2>3
  <2>5. /\ Cardinality(s.edges) <= o.edges
        /\ s.cut \/ s.full => s.truncated
        /\ s.full => Cardinality(s.nodes) >= o.nodes \/ Cardinality(s.nodes) + Cardinality(s.edges) >= o.bytes
    BY DEF Searched, Bounded
  <2>6. s.full => Cardinality(t.nodes) >= o.nodes \/ Cardinality(t.nodes) + Cardinality(t.edges) >= o.bytes
    BY <1>4, <2>1, <2>3, <2>5
  <2> QED
    BY <1>1, <1>2, <1>4, <2>1, <2>4, <2>5, <2>6 DEF Bounded
<1>8. \A n, d : Joined(g, root, o, s, dep, n, d) => Joined(g, root, o, t, d2, n, d)
  BY <1>4, <1>5 DEF Joined
<1>9. Reached(g, root, o, t, d2)
  <2>1. \A n \in s.nodes : Joined(g, root, o, s, dep, n, dep[n])
    BY DEF Searched, Reached
  <2>2. \A q \in Queued(s) : Joined(g, root, o, s, dep, q[1], q[2])
    BY DEF Searched, Reached
  <2> QED
    BY <1>2, <1>3, <1>4, <1>5, <1>6, <1>8, <2>1, <2>2 DEF Reached
<1>10. InOrder(t, d2, depth)
  <2>1. /\ \A i \in 1..Len(r.queue) : depth <= r.queue[i][2] /\ r.queue[i][2] <= depth + 1
        /\ \A i, j \in 1..Len(r.queue) : i < j => r.queue[i][2] <= r.queue[j][2]
        /\ \A n \in s.nodes : dep[n] <= depth
    BY <1>2, <1>3 DEF InOrder
  <2>2. \A n \in t.nodes : d2[n] <= depth
    BY <1>2, <1>4, <1>5, <2>1
  <2> QED
    BY <1>4, <2>1, <2>2 DEF InOrder
<1>11. Complete(g, root, o, t, d2, {node})
  <2> SUFFICES ASSUME ~s.truncated
               PROVE  Complete(g, root, o, t, d2, {node})
    BY <1>4 DEF Complete
  <2>1. /\ s.visited = s.nodes
        /\ Known(s, dep, root, 0)
        /\ \A n \in s.nodes : dep[n] < o.depth => Onward(g, o, s, dep, n)
        /\ \A e \in s.edges : \E x \in s.nodes : e \in Graph!Adjacent(g, x) /\ Known(s, dep, Graph!Other(e, x), dep[x] + 1)
    BY DEF Searched, Complete
  <2>2. ASSUME NEW m, NEW d, Known(s, dep, m, d)
        PROVE  Known(t, d2, m, d)
    <3>1. CASE m \in s.nodes /\ dep[m] <= d
      BY <1>4, <1>5, <3>1 DEF Known
    <3>2. CASE \E q \in Queued(s) : q[1] = m /\ q[2] <= d
      <4>1. PICK q \in Queued(s) : q[1] = m /\ q[2] <= d
        BY <3>2
      <4>2. CASE q \in Queued(r)
        BY <1>6, <4>1, <4>2 DEF Known
      <4>3. CASE q = <<node, depth>>
        BY <1>4, <1>5, <4>1, <4>3 DEF Known
      <4> QED
        BY <1>2, <4>1, <4>2, <4>3
    <3> QED
      BY <2>2, <3>1, <3>2 DEF Known
  <2>3. \A n \in t.nodes \ {node} : d2[n] < o.depth => Onward(g, o, t, d2, n)
    BY <1>4, <1>5, <2>1, <2>2 DEF Onward
  <2>4. \A e \in t.edges : \E x \in t.nodes : e \in Graph!Adjacent(g, x) /\ Known(t, d2, Graph!Other(e, x), d2[x] + 1)
    BY <1>4, <1>5, <2>1, <2>2
  <2> QED
    BY <1>4, <2>1, <2>2, <2>3, <2>4 DEF Complete
<1>12. Skips(t)
  BY <1>4 DEF Searched, Skips
<1> QED
  BY <1>4, <1>5, <1>7, <1>9, <1>10, <1>11, <1>12 DEF Searched, node, depth, t, d2

\* and a visit keeps the search whole.
VisitKept(g, root, o, s, t) ==
    /\ \E dep \in [Nodes(g, root) -> Nat], low \in Nat : Searched(g, root, o, t, dep, low, {})
    /\ Len(t.queue) - Cardinality(t.edges) = (Len(s.queue) - Cardinality(s.edges)) - 1
    /\ s.nodes \subseteq t.nodes /\ t.nodes \subseteq s.nodes \cup {Head(s.queue)[1]}
    /\ t.visited = s.visited \cup {Head(s.queue)[1]} /\ Begins(Tail(s.queue), t.queue)
LEMMA VisitKeeps ==
  ASSUME NEW g, IsGraph(g), NEW root, NEW o \in Bounds, NEW s, NEW dep \in [Nodes(g, root) -> Nat],
         NEW low \in Nat, s.queue # <<>>, Searched(g, root, o, s, dep, low, {})
  PROVE  VisitKept(g, root, o, s, Graph!Visit(g, o, root, s))
<1> DEFINE node == Head(s.queue)[1]
           depth == Head(s.queue)[2]
           r == Rest(s, node)
           t == TakenIn(s, node)
           d2 == [dep EXCEPT ![node] = depth]
           v == Graph!Visit(g, o, root, s)
<1>1. s \in States(g, root)
  BY DEF Searched, Bounded
<1>2. /\ node \in Nodes(g, root) /\ depth \in Nat /\ r \in States(g, root)
      /\ r.nodes = s.nodes /\ r.edges = s.edges /\ r.visited = s.visited \cup {node}
      /\ r.truncated = s.truncated /\ r.full = s.full /\ ~r.cut
      /\ Len(s.queue) \in Nat \ {0} /\ Len(r.queue) = Len(s.queue) - 1
      /\ r.queue = Tail(s.queue)
  <2>1. r.queue = Tail(s.queue)
    BY <1>1 DEF Rest, States
  <2> QED
    BY <1>1, <2>1, RestIs
<1>3. /\ Bounded(g, root, o, r) /\ Reached(g, root, o, r, dep) /\ InOrder(r, dep, depth)
      /\ Joined(g, root, o, s, dep, node, depth)
      /\ node \in s.visited => Complete(g, root, o, r, dep, {})
  BY RestKeeps
<1>4. Cardinality(s.edges) \in Nat /\ Cardinality(s.nodes) \in Nat
  <2>1. s.edges \subseteq g.edges /\ IsFiniteSet(g.edges) /\ IsFiniteSet(s.nodes)
    BY <1>1 DEF States, IsGraph, Searched, Bounded
  <2>2. IsFiniteSet(s.edges)
    BY <2>1, FS_Subset
  <2> QED
    BY <2>1, <2>2, FS_CardinalityType
<1>5. \A q : q.queue = r.queue /\ q.edges = s.edges =>
              Len(q.queue) - Cardinality(q.edges) = (Len(s.queue) - Cardinality(s.edges)) - 1
  <2>1. Len(s.queue) \in Nat /\ Len(r.queue) = Len(s.queue) - 1
    BY <1>2
  <2>2. Len(r.queue) - Cardinality(s.edges) = (Len(s.queue) - Cardinality(s.edges)) - 1
    BY <1>4, <2>1
  <2> QED
    BY <2>2
<1>11. \A q : q.queue = r.queue => Begins(Tail(s.queue), q.queue)
  <2>1. r.queue = Tail(s.queue) /\ Len(r.queue) \in Nat
    BY <1>2
  <2> HIDE DEF r
  <2>2. Begins(Tail(s.queue), r.queue)
    BY <2>1 DEF Begins
  <2> QED
    BY <2>2
<1>6. node # root => Graph!Allowed(g, node, o.scope)
  BY <1>3 DEF Joined
<1>7. CASE node \in s.visited
  <2>1. v = r
    BY <1>7 DEF Graph!Visit, Rest
  <2> HIDE DEF v, r, node, depth
  <2>2. Searched(g, root, o, r, dep, depth, {})
    BY <1>2, <1>3, <1>7 DEF Searched, Skips
  <2>3. Len(r.queue) - Cardinality(r.edges) = (Len(s.queue) - Cardinality(s.edges)) - 1 /\ s.nodes \subseteq r.nodes
    BY <1>2, <1>5
  <2>4. VisitKept(g, root, o, s, r)
    BY <1>2, <1>11, <2>2, <2>3 DEF VisitKept, node
  <2> QED
    BY <2>1, <2>4 DEF v
<1>8. ASSUME NEW q,
             \/ q = [r EXCEPT !.truncated = TRUE] /\ node[1] = "message"
             \/ /\ q = [r EXCEPT !.truncated = TRUE, !.full = TRUE]
                /\ Cardinality(s.nodes) >= o.nodes \/ Cardinality(s.edges) + Cardinality(s.nodes) >= o.bytes
      PROVE  VisitKept(g, root, o, s, q)
  <2> HIDE DEF v, r, node, depth
  <2>1. /\ q.nodes = r.nodes /\ q.edges = r.edges /\ q.visited = r.visited /\ q.queue = r.queue
        /\ q.truncated /\ ~q.cut /\ q \in States(g, root) /\ (q.full = r.full \/ q.full)
    BY <1>2, <1>8 DEF States
  <2>2. Bounded(g, root, o, q)
    <3>1. q.full => Cardinality(s.nodes) >= o.nodes \/ Cardinality(s.nodes) + Cardinality(s.edges) >= o.bytes
      <4>1. s.full => Cardinality(s.nodes) >= o.nodes \/ Cardinality(s.nodes) + Cardinality(s.edges) >= o.bytes
        BY DEF Searched, Bounded
      <4>2. CASE q = [r EXCEPT !.truncated = TRUE]
        <5>1. q.full = s.full
          BY <1>2, <4>2 DEF States
        <5> QED
          BY <4>1, <5>1
      <4>3. CASE q # [r EXCEPT !.truncated = TRUE]
        BY <1>4, <1>8, <4>3 DEF Bounds
      <4> QED
        BY <4>2, <4>3
    <3> QED
      BY <1>2, <1>3, <2>1, <3>1 DEF Bounded
  <2>3. Reached(g, root, o, q, dep) /\ InOrder(q, dep, depth) /\ Complete(g, root, o, q, dep, {})
    BY <1>3, <2>1 DEF Reached, Joined, Queued, InOrder, Complete
  <2>6. Skips(q)
    <3>1. Skips(s)
      BY DEF Searched
    <3>2. CASE q.full
      BY <3>2 DEF Skips
    <3>3. CASE ~q.full
      <4>1. node[1] = "message" /\ ~s.full
        BY <1>2, <1>8, <2>1, <3>3 DEF States
      <4> QED
        BY <1>2, <2>1, <3>1, <4>1 DEF Skips
    <3> QED
      BY <3>2, <3>3
  <2>4. Searched(g, root, o, q, dep, depth, {})
    BY <2>2, <2>3, <2>6 DEF Searched
  <2>5. Len(q.queue) - Cardinality(q.edges) = (Len(s.queue) - Cardinality(s.edges)) - 1 /\ s.nodes \subseteq q.nodes
    BY <1>2, <1>5, <2>1
  <2> QED
    BY <1>2, <1>11, <2>1, <2>4, <2>5 DEF VisitKept, node
<1>9. CASE /\ node \notin s.visited
           /\ \/ node[1] = "message" /\ Cardinality({n \in s.nodes : n[1] = "message"}) >= o.messages
              \/ Cardinality(s.nodes) >= o.nodes \/ Cardinality(s.edges) + Cardinality(s.nodes) >= o.bytes
  <2>1. \/ v = [r EXCEPT !.truncated = TRUE] /\ node[1] = "message"
        \/ /\ v = [r EXCEPT !.truncated = TRUE, !.full = TRUE]
           /\ Cardinality(s.nodes) >= o.nodes \/ Cardinality(s.edges) + Cardinality(s.nodes) >= o.bytes
    BY <1>6, <1>9, SameCount DEF Graph!Visit, Rest
  <2> QED
    BY <1>8, <2>1
<1>10. CASE /\ node \notin s.visited
            /\ ~(node[1] = "message" /\ Cardinality({n \in s.nodes : n[1] = "message"}) >= o.messages)
            /\ ~(Cardinality(s.nodes) >= o.nodes \/ Cardinality(s.edges) + Cardinality(s.nodes) >= o.bytes)
  <2>1. v = IF depth >= o.depth THEN t ELSE Graph!FollowAll(g, o, node, depth, t)
    BY <1>6, <1>10, SameCount DEF Graph!Visit, TakenIn, Rest
  <2>2. Cardinality(s.nodes) < o.nodes /\ Cardinality(s.edges) + Cardinality(s.nodes) < o.bytes
    BY <1>4, <1>10 DEF Bounds
  <2>3. /\ t.nodes = s.nodes \cup {node} /\ t.edges = s.edges /\ t.queue = r.queue
        /\ d2[node] = depth /\ Searched(g, root, o, t, d2, depth, {node})
    <3>1. r.queue = Tail(s.queue)
      BY <1>1 DEF Rest, States
    <3>2. node \notin s.visited
      BY <1>10
    <3>3. /\ t.nodes = s.nodes \cup {node} /\ t.edges = s.edges /\ t.queue = Tail(s.queue)
          /\ d2[node] = depth /\ Searched(g, root, o, t, d2, depth, {node})
      BY <2>2, <3>2, TakenKeeps
    <3> HIDE DEF t, d2, depth, node, r
    <3> QED
      BY <3>1, <3>3
  <2>4. d2 \in [Nodes(g, root) -> Nat] /\ node \in t.nodes /\ s.nodes \subseteq t.nodes
        /\ t.visited = s.visited \cup {node}
    <3>1. t.visited = s.visited \cup {node}
      BY <1>1 DEF TakenIn, Rest, States
    <3> QED
      BY <1>2, <2>3, <3>1
  <2>5. Len(t.queue) - Cardinality(t.edges) = (Len(s.queue) - Cardinality(s.edges)) - 1
    BY <1>5, <2>3
  <2> HIDE DEF t, d2, depth, node, r, v
  <2>6. CASE depth >= o.depth
    <3>1. Complete(g, root, o, t, d2, {})
      <4>1. ~(d2[node] < o.depth)
        BY <1>2, <2>3, <2>6 DEF Bounds
      <4> QED
        BY <2>3, <4>1 DEF Searched, Complete
    <3>2. Searched(g, root, o, t, d2, depth, {})
      BY <2>3, <3>1 DEF Searched
    <3>3. VisitKept(g, root, o, s, t)
      BY <1>2, <1>11, <2>3, <2>4, <2>5, <3>2 DEF VisitKept, node
    <3> QED
      BY <2>1, <2>6, <3>3 DEF v
  <2>7. CASE ~(depth >= o.depth)
    <3> DEFINE f == Graph!FollowAll(g, o, node, depth, t)
    <3>1. depth < o.depth
      BY <1>2, <2>7 DEF Bounds
    <3>2. AllFollowed(g, root, o, d2, depth, t, f)
      BY <1>2, <2>3, <2>4, <3>1, FollowAllKeeps
    <3> HIDE DEF f
    <3>3. VisitKept(g, root, o, s, f)
      BY <1>2, <2>3, <2>4, <2>5, <3>2 DEF VisitKept, AllFollowed, node
    <3> QED
      BY <2>1, <2>7, <3>3 DEF v, f
  <2> QED
    BY <2>6, <2>7
<1> QED
  BY <1>7, <1>9, <1>10

\* The search is whole from its start
Whole(g, root, o, s) ==
    \E dep \in [Nodes(g, root) -> Nat], low \in Nat : Searched(g, root, o, s, dep, low, {})
LEMMA StartedIs ==
  ASSUME NEW g, IsGraph(g), NEW root, NEW o \in Bounds
  PROVE  /\ Whole(g, root, o, Started(root)) /\ ~Stopped(Started(root))
         /\ Started(root).nodes = {} /\ Started(root).edges = {} /\ Started(root).visited = {}
         /\ Len(Started(root).queue) = 1 /\ Head(Started(root).queue) = <<root, 0>>
         /\ Started(root).queue # <<>> /\ Len(Tail(Started(root).queue)) = 0
<1> DEFINE s == Started(root)
           dep == [n \in Nodes(g, root) |-> 0]
<1>1. /\ s.queue = <<<<root, 0>>>> /\ s.nodes = {} /\ s.edges = {} /\ s.visited = {}
      /\ ~s.truncated /\ ~s.cut /\ ~s.full /\ s \in States(g, root)
  <2>1. <<root, 0>> \in Nodes(g, root) \X Nat
    BY DEF Nodes
  <2> QED
    BY <2>1 DEF Started, States
<1> HIDE DEF s
<1>2. /\ Len(s.queue) = 1 /\ s.queue[1] = <<root, 0>> /\ Head(s.queue) = <<root, 0>> /\ s.queue # <<>>
      /\ Len(Tail(s.queue)) = 0
  BY <1>1
<1>3. Queued(s) = {<<root, 0>>}
  <2>1. 1..Len(s.queue) = {1}
    BY <1>2
  <2> QED
    BY <1>2, <2>1 DEF Queued
<1>4. dep \in [Nodes(g, root) -> Nat]
  OBVIOUS
<1> HIDE DEF dep
<1>5. Bounded(g, root, o, s)
  <2>1. IsFiniteSet({}) /\ Cardinality({}) = 0
    BY FS_EmptySet
  <2> QED
    BY <1>1, <2>1 DEF Bounded, Bounds
<1>6. Skips(s) /\ Reached(g, root, o, s, dep)
  BY <1>1, <1>3 DEF Skips, Reached, Joined
<1>7. InOrder(s, dep, 0)
  BY <1>1, <1>2 DEF InOrder
<1>8. Complete(g, root, o, s, dep, {})
  BY <1>1, <1>3 DEF Complete, Known
<1>9. Searched(g, root, o, s, dep, 0, {})
  BY <1>5, <1>6, <1>7, <1>8 DEF Searched
<1>10. Whole(g, root, o, s)
  BY <1>4, <1>9 DEF Whole
<1> QED
  BY <1>1, <1>2, <1>10 DEF s, Stopped

\* to its end; the first visit takes the root, and there are visits enough.
Progress(n, s) == Stopped(s) \/ n + Len(s.queue) = 1 + Cardinality(s.edges)
LEMMA VisitedKeeps ==
  ASSUME NEW g, IsGraph(g), NEW root, NEW o \in Bounds, NEW s, Whole(g, root, o, s), ~Stopped(s)
  PROVE  Whole(g, root, o, Graph!Visit(g, o, root, s)) /\ VisitKept(g, root, o, s, Graph!Visit(g, o, root, s))
<1>1. PICK dep \in [Nodes(g, root) -> Nat], low \in Nat : Searched(g, root, o, s, dep, low, {})
  BY DEF Whole
<1>2. s.queue # <<>>
  BY DEF Stopped
<1>3. VisitKept(g, root, o, s, Graph!Visit(g, o, root, s))
  BY <1>1, <1>2, VisitKeeps
<1> QED
  BY <1>3 DEF VisitKept, Whole

LEMMA Numbers ==
  ASSUME NEW g, IsGraph(g), NEW root, NEW o, NEW s, Whole(g, root, o, s)
  PROVE  /\ s \in States(g, root) /\ Len(s.queue) \in Nat /\ Cardinality(s.edges) \in Nat
         /\ Cardinality(s.nodes) \in Nat /\ Cardinality(s.edges) <= Cardinality(g.edges)
<1>1. s \in States(g, root) /\ IsFiniteSet(s.nodes)
  BY DEF Whole, Searched, Bounded
<1>2. s.queue \in Seq(Nodes(g, root) \X Nat) /\ s.edges \subseteq g.edges /\ IsFiniteSet(g.edges)
  BY <1>1 DEF States, IsGraph
<1>3. IsFiniteSet(s.edges) /\ Cardinality(s.edges) <= Cardinality(g.edges)
  BY <1>2, FS_Subset
<1> QED
  BY <1>1, <1>2, <1>3, FS_CardinalityType

LEMMA FirstVisit ==
  ASSUME NEW g, IsGraph(g), NEW root, root[1] # "message", NEW o \in Bounds
  PROVE  root \in Graph!Visit(g, o, root, Started(root)).nodes
<1> DEFINE s == Started(root)
           t == Graph!Visit(g, o, root, s)
<1>1. /\ s.nodes = {} /\ s.edges = {} /\ s.visited = {} /\ Head(s.queue) = <<root, 0>>
      /\ Whole(g, root, o, t) /\ VisitKept(g, root, o, s, t)
  BY StartedIs, VisitedKeeps
<1> HIDE DEF s, t
<1>2. t.nodes \subseteq {root} /\ t.visited = {root}
  BY <1>1 DEF VisitKept
<1>3. /\ Skips(t)
      /\ t.nodes = {} => t.edges = {}
      /\ t.full => Cardinality(t.nodes) >= o.nodes \/ Cardinality(t.nodes) + Cardinality(t.edges) >= o.bytes
  BY <1>1 DEF Whole, Searched, Bounded
<1>4. ASSUME root \notin t.nodes
      PROVE  FALSE
  <2>1. t.nodes = {} /\ t.edges = {}
    BY <1>2, <1>3, <1>4
  <2>2. Cardinality(t.nodes) = 0 /\ Cardinality(t.edges) = 0
    BY <2>1, FS_EmptySet
  <2>3. t.full
    BY <1>2, <1>3, <2>1 DEF Skips
  <2>4. 0 >= o.nodes \/ 0 + 0 >= o.bytes
    BY <1>3, <2>2, <2>3
  <2>5. o.nodes \in Nat \ {0} /\ o.bytes \in Nat \ {0}
    BY DEF Bounds
  <2> QED
    BY <2>4, <2>5
<1> QED
  BY <1>4 DEF s, t

LEMMA RunIs ==
  ASSUME NEW g, IsGraph(g), NEW root, root[1] # "message", NEW o \in Bounds,
         NEW after \in [0..Cardinality(g.edges) + 1 -> States(g, root)], Run(g, root, o, after)
  PROVE  \A n \in 0..Cardinality(g.edges) + 1 :
            Whole(g, root, o, after[n]) /\ Progress(n, after[n]) /\ (n # 0 => root \in after[n].nodes)
<1> DEFINE N == Cardinality(g.edges) + 1
           Fine(n) == Whole(g, root, o, after[n]) /\ Progress(n, after[n]) /\ (n # 0 => root \in after[n].nodes)
           T == {n \in 0..N : Fine(n)}
<1>1. N \in Nat
  BY FS_CardinalityType DEF IsGraph
<1>2. 0 \in T
  <2>1. after[0] = Started(root)
    BY DEF Run
  <2>2. Progress(0, Started(root))
    <3>1. Cardinality(Started(root).edges) = 0
      BY StartedIs, FS_EmptySet
    <3>2. Len(Started(root).queue) = 1
      BY StartedIs
    <3>3. 0 + Len(Started(root).queue) = 1 + Cardinality(Started(root).edges)
      BY <3>1, <3>2
    <3> QED
      BY <3>3 DEF Progress
  <2> QED
    BY <1>1, <2>1, <2>2, StartedIs
<1>3. ASSUME NEW n \in 1..N, n - 1 \in T
      PROVE  n \in T
  <2> DEFINE s == after[n - 1]
             t == after[n]
  <2>1. t = Visited(g, o, root, s)
    BY <1>3 DEF Run
  <2>2. Fine(n - 1) /\ n \in 0..N /\ n \in Nat /\ n # 0
    BY <1>1, <1>3
  <2>3. CASE Stopped(s)
    <3>1. t = s
      BY <2>1, <2>3 DEF Visited
    <3>2. n - 1 # 0
      BY <2>3, StartedIs DEF Run
    <3>3. Progress(n, t)
      BY <2>3, <3>1 DEF Progress
    <3> QED
      BY <2>2, <3>1, <3>2, <3>3
  <2>4. CASE ~Stopped(s)
    <3>1. t = Graph!Visit(g, o, root, s)
      BY <2>1, <2>4 DEF Visited
    <3>2. Whole(g, root, o, t) /\ VisitKept(g, root, o, s, t)
      BY <2>2, <2>4, <3>1, VisitedKeeps
    <3>3. Progress(n, t)
      <4>1. (n - 1) + Len(s.queue) = 1 + Cardinality(s.edges)
        BY <2>2, <2>4 DEF Progress
      <4>2. Len(t.queue) - Cardinality(t.edges) = (Len(s.queue) - Cardinality(s.edges)) - 1
        BY <3>2 DEF VisitKept
      <4>3. /\ Len(s.queue) \in Nat /\ Cardinality(s.edges) \in Nat
            /\ Len(t.queue) \in Nat /\ Cardinality(t.edges) \in Nat
        BY <2>2, <3>2, Numbers
      <4>4. n + Len(t.queue) = 1 + Cardinality(t.edges)
        <5> DEFINE a == Len(s.queue)
                   b == Cardinality(s.edges)
                   c == Len(t.queue)
                   d == Cardinality(t.edges)
        <5>1. a \in Nat /\ b \in Nat /\ c \in Nat /\ d \in Nat
          BY <4>3
        <5>2. (n - 1) + a = 1 + b /\ c - d = (a - b) - 1
          BY <4>1, <4>2
        <5> HIDE DEF a, b, c, d
        <5>3. n + c = 1 + d
          BY <2>2, <5>1, <5>2
        <5> QED
          BY <5>3 DEF c, d
      <4> QED
        BY <4>4 DEF Progress
    <3>4. root \in t.nodes
      <4>1. CASE n - 1 = 0
        <5>1. s = Started(root)
          BY <4>1 DEF Run
        <5> QED
          BY <3>1, <5>1, FirstVisit
      <4>2. CASE n - 1 # 0
        BY <2>2, <3>2, <4>2 DEF VisitKept
      <4> QED
        BY <4>1, <4>2
    <3> QED
      BY <2>2, <3>2, <3>3, <3>4
  <2> QED
    BY <2>3, <2>4
<1>4. \A n \in 0..N : n \in T
  <2>1. \A n \in 1..N : n - 1 \in T => n \in T
    BY <1>3
  <2> HIDE DEF T
  <2> QED
    BY <1>1, <1>2, <2>1, UpTo
<1> QED
  BY <1>4

\* A traversal is what a search that has ended has.
Ended(s) == [nodes |-> s.nodes, truncated |-> s.truncated,
             edges |-> {e \in s.edges : {e.from, e.to} \subseteq s.nodes}]
LEMMA TraverseIs ==
  ASSUME NEW g, IsGraph(g), NEW root, root[1] # "message", NEW o \in Bounds
  PROVE  \E s : /\ Whole(g, root, o, s) /\ root \in s.nodes /\ (s.truncated \/ s.queue = <<>>)
                /\ Graph!Traverse(g, root, o) = Ended(s)
<1> DEFINE N == Cardinality(g.edges) + 1
<1>1. N \in Nat /\ Cardinality(g.edges) \in Nat
  BY FS_CardinalityType DEF IsGraph
<1>2. PICK after \in [0..N -> States(g, root)] : Run(g, root, o, after)
  BY TraverseSteps
<1> DEFINE s == after[N]
<1>3. Whole(g, root, o, s) /\ Progress(N, s) /\ root \in s.nodes
  <2>1. N \in 0..N /\ N # 0
    BY <1>1
  <2>2. \A n \in 0..N : Whole(g, root, o, after[n]) /\ Progress(n, after[n]) /\ (n # 0 => root \in after[n].nodes)
    BY <1>2, RunIs
  <2> QED
    BY <2>1, <2>2
<1>4. Graph!Traverse(g, root, o) = Ended(s)
  BY <1>2 DEF Run, Ended
<1> HIDE DEF s
<1>5. s.truncated \/ s.queue = <<>>
  <2>1. s.full => s.truncated
    BY <1>3 DEF Whole, Searched, Bounded
  <2>2. ASSUME N + Len(s.queue) = 1 + Cardinality(s.edges)
        PROVE  s.queue = <<>>
    <3> DEFINE a == Len(s.queue)
               b == Cardinality(s.edges)
               c == Cardinality(g.edges)
    <3>1. a \in Nat /\ b \in Nat /\ c \in Nat /\ b <= c /\ (c + 1) + a = 1 + b
      BY <1>1, <1>3, <2>2, Numbers
    <3> HIDE DEF a, b, c
    <3>2. a = 0
      BY <3>1
    <3>3. s.queue \in Seq(Nodes(g, root) \X Nat)
      <4>1. s \in States(g, root)
        BY <1>3 DEF Whole, Searched, Bounded
      <4> QED
        BY <4>1 DEF States
    <3>4. Len(s.queue) = 0
      BY <3>2 DEF a
    <3> QED
      BY <3>3, <3>4
  <2> QED
    BY <1>3, <2>1, <2>2 DEF Progress, Stopped
<1> QED
  BY <1>3, <1>4, <1>5

\* What it has is as near as it is deep,
LEMMA Reaches ==
  ASSUME NEW g, NEW root, NEW o, NEW s, NEW dep, o.depth \in Nat,
         \A n \in s.nodes : dep[n] \in Nat /\ dep[n] <= o.depth /\ Joined(g, root, o, s, dep, n, dep[n]),
         NEW h, NEW scope,
         \A n \in s.nodes : n = root \/ (n \in DOMAIN h.owner /\ Graph!Allowed(h, n, scope)),
         \A n, m \in s.nodes : \A e \in s.edges :
             e \in Graph!Adjacent(g, n) /\ Graph!Other(e, n) = m => e \in Graph!Adjacent(h, n)
  PROVE  s.nodes \subseteq Graph!Within(h, root, scope, o.depth)
<1> DEFINE d == o.depth
<1>0. PICK near \in [0..d -> SUBSET (DOMAIN h.owner \cup {root})] : Spread(h, root, scope, d, near)
  BY WithinSteps
<1>1. /\ near[0] = {root}
      /\ \A n \in 1..d : near[n] = Nearer(h, root, scope, near[n - 1])
      /\ Graph!Within(h, root, scope, d) = near[d]
  BY <1>0 DEF Spread
<1> DEFINE Fine(k) == \A n \in s.nodes : dep[n] <= k => n \in near[k]
           T == {k \in 0..d : Fine(k)}
<1> HIDE DEF d
<1>2. 0 \in T
  <2>1. ASSUME NEW n \in s.nodes, dep[n] <= 0
        PROVE  n \in near[0]
    <3>1. dep[n] = 0
      BY <2>1
    <3>2. ASSUME NEW e \in s.edges, Graph!Other(e, n) \in s.nodes, dep[n] = dep[Graph!Other(e, n)] + 1
          PROVE  FALSE
      BY <3>1, <3>2
    <3>3. n = root
      BY <3>2 DEF Joined
    <3> QED
      BY <1>1, <3>3
  <2> QED
    BY <2>1 DEF d
<1>3. ASSUME NEW k \in 1..d, k - 1 \in T
      PROVE  k \in T
  <2>1. near[k] = Nearer(h, root, scope, near[k - 1])
    BY <1>1, <1>3
  <2>2. ASSUME NEW n \in s.nodes, dep[n] <= k
        PROVE  n \in near[k]
    <3>1. CASE dep[n] <= k - 1
      <4>1. n \in near[k - 1]
        BY <1>3, <3>1
      <4> QED
        BY <2>1, <4>1 DEF Nearer
    <3>2. CASE ~(dep[n] <= k - 1)
      <4>1. dep[n] = k /\ k # 0
        BY <1>3, <2>2, <3>2 DEF d
      <4>2. PICK e \in s.edges : e \in Graph!Adjacent(g, n) /\ Graph!Other(e, n) \in s.nodes /\ k = dep[Graph!Other(e, n)] + 1
        BY <4>1 DEF Joined
      <4>3. dep[Graph!Other(e, n)] <= k - 1
        BY <4>2
      <4>4. Graph!Other(e, n) \in near[k - 1]
        BY <1>3, <4>2, <4>3
      <4>5. e \in Graph!Adjacent(h, n)
        BY <4>2
      <4>6. CASE n = root
        <5>1. \A i \in 0..d : root \in near[i]
          <6> DEFINE R == {i \in 0..d : root \in near[i]}
          <6>1. 0 \in R
            BY <1>1 DEF d
          <6>2. \A i \in 1..d : i - 1 \in R => i \in R
            BY <1>1 DEF Nearer
          <6>3. d \in Nat
            BY DEF d
          <6>4. \A i \in 0..d : i \in R
            <7> HIDE DEF R
            <7> QED BY <6>1, <6>2, <6>3, UpTo
          <6> QED
            BY <6>4
        <5>2. k \in 0..d
          BY DEF d
        <5> QED
          BY <4>6, <5>1, <5>2
      <4>7. CASE n # root
        BY <2>1, <4>4, <4>5, <4>7 DEF Nearer
      <4> QED
        BY <4>6, <4>7
    <3> QED
      BY <3>1, <3>2
  <2>3. k \in 0..d
    BY DEF d
  <2> QED
    BY <2>2, <2>3
<1>4. d \in T
  <2>1. \A k \in 1..d : k - 1 \in T => k \in T
    BY <1>3
  <2>2. d \in Nat
    BY DEF d
  <2>3. \A k \in 0..d : k \in T
    <3> HIDE DEF T
    <3> QED BY <1>2, <2>1, <2>2, UpTo
  <2> QED
    BY <2>2, <2>3
<1> QED
  BY <1>1, <1>4 DEF d

\* and if nothing was left out it has all that is near.
LEMMA ReachesAll ==
  ASSUME NEW g, NEW root, NEW o, NEW s, NEW dep, o.depth \in Nat,
         \A n \in s.nodes : dep[n] \in Nat,
         root \in s.nodes, dep[root] = 0,
         \A n \in s.nodes : dep[n] < o.depth =>
            \A e \in Graph!Adjacent(g, n) : Graph!Allowed(g, Graph!Other(e, n), o.scope) =>
                Graph!Other(e, n) \in s.nodes /\ dep[Graph!Other(e, n)] <= dep[n] + 1
  PROVE  Graph!Within(g, root, o.scope, o.depth) \subseteq s.nodes
<1> DEFINE d == o.depth
<1>0. PICK near \in [0..d -> SUBSET (DOMAIN g.owner \cup {root})] : Spread(g, root, o.scope, d, near)
  BY WithinSteps
<1>1. /\ near[0] = {root}
      /\ \A n \in 1..d : near[n] = Nearer(g, root, o.scope, near[n - 1])
      /\ Graph!Within(g, root, o.scope, d) = near[d]
  BY <1>0 DEF Spread
<1> DEFINE Fine(k) == \A n \in near[k] : n \in s.nodes /\ dep[n] <= k
           T == {k \in 0..d : Fine(k)}
<1> HIDE DEF d
<1>2. 0 \in T
  BY <1>1 DEF d
<1>3. ASSUME NEW k \in 1..d, k - 1 \in T
      PROVE  k \in T
  <2>1. near[k] = Nearer(g, root, o.scope, near[k - 1])
    BY <1>1, <1>3
  <2>2. ASSUME NEW m \in near[k]
        PROVE  m \in s.nodes /\ dep[m] <= k
    <3>1. CASE m \in near[k - 1]
      <4>1. m \in s.nodes /\ dep[m] <= k - 1 /\ dep[m] \in Nat
        BY <1>3, <3>1
      <4> QED
        BY <4>1 DEF d
    <3>2. CASE m \notin near[k - 1]
      <4>1. PICK e \in Graph!Adjacent(g, m) : Graph!Allowed(g, m, o.scope) /\ Graph!Other(e, m) \in near[k - 1]
        BY <2>1, <2>2, <3>2 DEF Nearer
      <4> DEFINE n == Graph!Other(e, m)
      <4>2. e \in Graph!Adjacent(g, n) /\ Graph!Other(e, n) = m
        BY OtherEnd
      <4> HIDE DEF n
      <4>3. n \in s.nodes /\ dep[n] <= k - 1 /\ dep[n] \in Nat
        BY <1>3, <4>1 DEF n
      <4>4. dep[n] < o.depth
        BY <4>3 DEF d
      <4>5. m \in s.nodes /\ dep[m] <= dep[n] + 1
        BY <4>1, <4>2, <4>3, <4>4
      <4>6. dep[m] \in Nat
        BY <4>5
      <4> QED
        BY <4>3, <4>5, <4>6 DEF d
    <3> QED
      BY <3>1, <3>2
  <2>3. k \in 0..d
    BY DEF d
  <2> QED
    BY <2>2, <2>3
<1>4. d \in T
  <2>1. \A k \in 1..d : k - 1 \in T => k \in T
    BY <1>3
  <2>2. d \in Nat
    BY DEF d
  <2>3. \A k \in 0..d : k \in T
    <3> HIDE DEF T
    <3> QED BY <1>2, <2>1, <2>2, UpTo
  <2> QED
    BY <2>2, <2>3
<1> QED
  BY <1>1, <1>4 DEF d

\* A traversal has what is near, joined to its root, within its bounds.
Exact(g, root, o) ==
    \A seen \in {Graph!Traverse(g, root, o)} : \A near \in {Graph!Within(g, root, o.scope, o.depth)} :
        /\ seen.nodes \subseteq near
        /\ seen.truncated \/ seen.nodes = near
        /\ seen.nodes = Graph!Within([edges |-> seen.edges, owner |-> [n \in seen.nodes |-> None]],
                               root, None, o.depth)
        /\ Cardinality(seen.nodes) <= o.nodes /\ Cardinality(seen.edges) <= o.edges
        /\ Cardinality(seen.nodes) + Cardinality(seen.edges) <= o.bytes
LEMMA TraverseIsExact ==
  ASSUME NEW g, IsGraph(g), NEW root, root[1] # "message", NEW o \in Bounds
  PROVE  Exact(g, root, o)
<1>1. PICK s : /\ Whole(g, root, o, s) /\ root \in s.nodes /\ (s.truncated \/ s.queue = <<>>)
               /\ Graph!Traverse(g, root, o) = Ended(s)
  BY TraverseIs
<1>2. PICK dep \in [Nodes(g, root) -> Nat], low \in Nat : Searched(g, root, o, s, dep, low, {})
  BY <1>1 DEF Whole
<1> DEFINE seen == Ended(s)
           h == [edges |-> seen.edges, owner |-> [n \in seen.nodes |-> None]]
<1>3. o.depth \in Nat /\ o.edges \in Nat /\ o.nodes \in Nat /\ o.bytes \in Nat
  BY DEF Bounds
<1>4. ASSUME NEW n \in s.nodes
      PROVE  /\ dep[n] \in Nat /\ dep[n] <= o.depth /\ Joined(g, root, o, s, dep, n, dep[n])
             /\ n = root \/ (n \in DOMAIN g.owner /\ Graph!Allowed(g, n, o.scope))
  <2>1. Joined(g, root, o, s, dep, n, dep[n]) /\ n \in Nodes(g, root)
    BY <1>2 DEF Searched, Reached, Bounded, States
  <2>2. dep[n] \in Nat /\ dep[n] <= o.depth
    BY <1>2, <1>3, <2>1 DEF Joined
  <2>3. n = root \/ (n \in DOMAIN g.owner /\ Graph!Allowed(g, n, o.scope))
    <3>1. n = root \/ (n \in Graph!Ends(g.edges) /\ Graph!Allowed(g, n, o.scope))
      BY <2>1 DEF Joined
    <3>2. DOMAIN g.owner = Graph!Ends(g.edges)
      BY DEF IsGraph
    <3> QED
      BY <3>1, <3>2
  <2> QED
    BY <2>1, <2>2, <2>3
<1>5. s.nodes \subseteq Graph!Within(g, root, o.scope, o.depth)
  BY <1>3, <1>4, Reaches
<1>6. h.owner = [n \in s.nodes |-> None] /\ seen.nodes = s.nodes /\ seen.truncated = s.truncated
      /\ DOMAIN h.owner = s.nodes /\ seen.edges \subseteq s.edges
      /\ h.edges = {e \in s.edges : {e.from, e.to} \subseteq s.nodes}
  BY DEF Ended
<1>7. s.nodes \subseteq Graph!Within(h, root, None, o.depth)
  <2> HIDE DEF h, seen
  <2>1. \A n \in s.nodes : n = root \/ (n \in DOMAIN h.owner /\ Graph!Allowed(h, n, None))
    BY <1>6 DEF Graph!Allowed
  <2>2. ASSUME NEW n \in s.nodes, NEW m \in s.nodes, NEW e \in s.edges, e \in Graph!Adjacent(g, n), Graph!Other(e, n) = m
        PROVE  e \in Graph!Adjacent(h, n)
    <3>1. {e.from, e.to} \subseteq s.nodes /\ n \in {e.from, e.to}
      BY <2>2 DEF Graph!Adjacent, Graph!Other
    <3> QED
      BY <1>6, <3>1 DEF Graph!Adjacent
  <2>3. \A n, m \in s.nodes : \A e \in s.edges : e \in Graph!Adjacent(g, n) /\ Graph!Other(e, n) = m => e \in Graph!Adjacent(h, n)
    BY <2>2
  <2> QED
    BY <1>3, <1>4, <2>1, <2>3, Reaches
<1>8. Graph!Within(h, root, None, o.depth) \subseteq s.nodes
  <2>1. PICK near \in [0..o.depth -> SUBSET (DOMAIN h.owner \cup {root})] : Spread(h, root, None, o.depth, near)
    BY <1>3, WithinSteps
  <2>2. near[o.depth] \subseteq DOMAIN h.owner \cup {root}
    BY <1>3, <2>1
  <2> HIDE DEF h
  <2> QED
    BY <1>1, <1>6, <2>1, <2>2 DEF Spread
<1>9. ASSUME ~s.truncated
      PROVE  Graph!Within(g, root, o.scope, o.depth) \subseteq s.nodes
  <2>1. s.queue = <<>> /\ Queued(s) = {}
    BY <1>1, <1>9 DEF Queued
  <2>2. /\ Known(s, dep, root, 0)
        /\ \A n \in s.nodes : dep[n] < o.depth => Onward(g, o, s, dep, n)
    BY <1>2, <1>9 DEF Searched, Complete
  <2>3. \A m, d : Known(s, dep, m, d) => m \in s.nodes /\ dep[m] <= d
    BY <2>1 DEF Known
  <2>4. dep[root] = 0
    BY <1>1, <1>4, <2>2, <2>3
  <2>5. \A n \in s.nodes : dep[n] < o.depth =>
            \A e \in Graph!Adjacent(g, n) : Graph!Allowed(g, Graph!Other(e, n), o.scope) =>
                Graph!Other(e, n) \in s.nodes /\ dep[Graph!Other(e, n)] <= dep[n] + 1
    BY <2>2, <2>3 DEF Onward
  <2> QED
    BY <1>1, <1>3, <1>4, <2>4, <2>5, ReachesAll
<1>10. /\ Cardinality(s.nodes) <= o.nodes /\ Cardinality(seen.edges) <= o.edges
       /\ Cardinality(s.nodes) + Cardinality(seen.edges) <= o.bytes
  <2>1. /\ Cardinality(s.nodes) <= o.nodes /\ Cardinality(s.edges) <= o.edges
        /\ Cardinality(s.nodes) + Cardinality(s.edges) <= o.bytes
    BY <1>2 DEF Searched, Bounded
  <2>2. IsFiniteSet(s.edges)
    <3>1. s.edges \subseteq g.edges /\ IsFiniteSet(g.edges)
      BY <1>2 DEF Searched, Bounded, States, IsGraph
    <3> QED
      BY <3>1, FS_Subset
  <2>3. Cardinality(seen.edges) <= Cardinality(s.edges) /\ Cardinality(seen.edges) \in Nat
    <3>1. IsFiniteSet(seen.edges) /\ Cardinality(seen.edges) <= Cardinality(s.edges)
      BY <1>6, <2>2, FS_Subset
    <3> QED
      BY <3>1, FS_CardinalityType
  <2>4. Cardinality(s.nodes) \in Nat /\ Cardinality(s.edges) \in Nat
    BY <1>1, Numbers
  <2> HIDE DEF seen
  <2> QED
    BY <1>3, <2>1, <2>3, <2>4
<1> QED
  <2>1. seen.nodes \subseteq Graph!Within(g, root, o.scope, o.depth)
    BY <1>5, <1>6
  <2>2. seen.truncated \/ seen.nodes = Graph!Within(g, root, o.scope, o.depth)
    BY <1>5, <1>6, <1>9
  <2>3. seen.nodes = Graph!Within(h, root, None, o.depth)
    BY <1>6, <1>7, <1>8
  <2>4. /\ Cardinality(seen.nodes) <= o.nodes /\ Cardinality(seen.edges) <= o.edges
        /\ Cardinality(seen.nodes) + Cardinality(seen.edges) <= o.bytes
    BY <1>6, <1>10
  <2>5. Graph!Traverse(g, root, o) = seen
    BY <1>1
  <2> HIDE DEF seen
  <2> QED
    BY <2>1, <2>2, <2>3, <2>4, <2>5 DEF Exact, h

\* The graph of the records is such a graph: there are finitely many records,
LEMMA Image ==
  ASSUME NEW S, IsFiniteSet(S), NEW f
  PROVE  IsFiniteSet({f[x] : x \in S})
<1> DEFINE T == {f[x] : x \in S}
           h == [x \in S |-> f[x]]
<1>1. h \in Surjection(S, T)
  BY DEF Surjection
<1> HIDE DEF h, T
<1>2. IsFiniteSet(T)
  BY <1>1, FS_Surjection
<1> QED
  BY <1>2 DEF T

LEMMA PairImage ==
  ASSUME NEW A, IsFiniteSet(A), NEW B, IsFiniteSet(B), NEW f, NEW T,
         \A t \in T : \E a \in A, b \in B : t = f[a][b]
  PROVE  IsFiniteSet(T)
<1> DEFINE S == A \X B
           h == [p \in S |-> f[p[1]][p[2]]]
           I == {h[p] : p \in S}
<1>1. IsFiniteSet(S)
  BY FS_Product
<1>2. IsFiniteSet(I)
  <2> HIDE DEF h, S
  <2> QED BY <1>1, Image
<1>3. ASSUME NEW t \in T
      PROVE  t \in I
  <2>1. PICK a \in A, b \in B : t = f[a][b]
    OBVIOUS
  <2>2. <<a, b>> \in S /\ h[<<a, b>>] = t
    BY <2>1
  <2> HIDE DEF h, S
  <2> QED
    BY <2>2
<1>4. T \in SUBSET I
  BY <1>3
<1> HIDE DEF I
<1> QED
  BY <1>2, <1>4, FS_Subset

\* Sets written out are finite.
LEMMA Few ==
  /\ IsFiniteSet({}) /\ \A a : IsFiniteSet({a})
  /\ \A a, b : IsFiniteSet({a, b})
  /\ \A a, b, c : IsFiniteSet({a, b, c})
<1>1. IsFiniteSet({}) /\ \A a : IsFiniteSet({a})
  BY FS_EmptySet, FS_Singleton
<1>2. ASSUME NEW a, NEW b
      PROVE  IsFiniteSet({a, b})
  <2>1. IsFiniteSet({a} \cup {b})
    BY <1>1, FS_AddElement
  <2>2. {a, b} = {a} \cup {b}
    OBVIOUS
  <2> QED
    BY <2>1, <2>2
<1>3. ASSUME NEW a, NEW b, NEW c
      PROVE  IsFiniteSet({a, b, c})
  <2>1. IsFiniteSet({a, b} \cup {c})
    BY <1>2, FS_AddElement
  <2>2. {a, b, c} = {a, b} \cup {c}
    OBVIOUS
  <2> QED
    BY <2>1, <2>2
<1> QED
  BY <1>1, <1>2, <1>3

LEMMA RefreshedIsFinite == IsFiniteSet(Graph!Refreshed)
<1> DEFINE W == Works \cup {None}
           K == {"file", "commit", "decision"}
<1>1. IsFiniteSet(Works) /\ IsFiniteSet(W) /\ IsFiniteSet(K)
  BY GraphAssumption, FS_AddElement, Few
<1>2. IsFiniteSet(Conversations)
  <2>1. PICK k \in [Conversations -> Works] : Graph!IsInjective(k)
    BY GraphAssumption
  <2>2. k \in Injection(Conversations, Works)
    BY <2>1 DEF Injection, IsInjective, Graph!IsInjective
  <2> QED
    BY <1>1, <2>2, FS_Injection
<1> HIDE DEF W, K
<1>5. IsFiniteSet({Graph!Artifact(k, w) : k \in K, w \in Works})
  <2> DEFINE f == [k \in K |-> [w \in Works |-> Graph!Artifact(k, w)]]
             T == {Graph!Artifact(k, w) : k \in K, w \in Works}
  <2>1. \A t \in T : \E k \in K, w \in Works : t = f[k][w]
    OBVIOUS
  <2> HIDE DEF f, T
  <2>2. IsFiniteSet(T)
    BY <1>1, <2>1, PairImage
  <2> QED
    BY <2>2 DEF T
<1>6. IsFiniteSet({Graph!Change(w) : w \in W})
  <2> DEFINE f == [w \in W |-> Graph!Change(w)]
  <2>1. IsFiniteSet({f[w] : w \in W})
    <3> HIDE DEF f
    <3> QED BY <1>1, Image
  <2>2. {f[w] : w \in W} = {Graph!Change(w) : w \in W}
    OBVIOUS
  <2> HIDE DEF f
  <2> QED
    BY <2>1, <2>2
<1>7. IsFiniteSet({Graph!Message(c) : c \in Conversations})
  <2> DEFINE f == [c \in Conversations |-> Graph!Message(c)]
  <2>1. IsFiniteSet({f[c] : c \in Conversations})
    <3> HIDE DEF f
    <3> QED BY <1>2, Image
  <2>2. {f[c] : c \in Conversations} = {Graph!Message(c) : c \in Conversations}
    OBVIOUS
  <2> HIDE DEF f
  <2> QED
    BY <2>1, <2>2
<1>8. IsFiniteSet({Graph!Linked(c, w) : c \in Conversations, w \in Works})
  <2> DEFINE f == [c \in Conversations |-> [w \in Works |-> Graph!Linked(c, w)]]
             T == {Graph!Linked(c, w) : c \in Conversations, w \in Works}
  <2>1. \A t \in T : \E c \in Conversations, w \in Works : t = f[c][w]
    OBVIOUS
  <2> HIDE DEF f, T
  <2>2. IsFiniteSet(T)
    BY <1>1, <1>2, <2>1, PairImage
  <2> QED
    BY <2>2 DEF T
<1>9. IsFiniteSet({Graph!Kept(c, w) : c \in Conversations, w \in Works})
  <2> DEFINE f == [c \in Conversations |-> [w \in Works |-> Graph!Kept(c, w)]]
             T == {Graph!Kept(c, w) : c \in Conversations, w \in Works}
  <2>1. \A t \in T : \E c \in Conversations, w \in Works : t = f[c][w]
    OBVIOUS
  <2> HIDE DEF f, T
  <2>2. IsFiniteSet(T)
    BY <1>1, <1>2, <2>1, PairImage
  <2> QED
    BY <2>2 DEF T
<1>10. IsFiniteSet({Graph!Exchange(c, w) : c \in Conversations, w \in W})
  <2> DEFINE f == [c \in Conversations |-> [w \in W |-> Graph!Exchange(c, w)]]
             T == {Graph!Exchange(c, w) : c \in Conversations, w \in W}
  <2>1. \A t \in T : \E c \in Conversations, w \in W : t = f[c][w]
    OBVIOUS
  <2> HIDE DEF f, T
  <2>2. IsFiniteSet(T)
    BY <1>1, <1>2, <2>1, PairImage
  <2> QED
    BY <2>2 DEF T
<1> QED
  <2>1. \A A, B : IsFiniteSet(A) /\ IsFiniteSet(B) => IsFiniteSet(A \cup B)
    BY FS_Union
  <2> DEFINE a == {Graph!Artifact(k, w) : k \in K, w \in Works}
             b == {Graph!Change(w) : w \in W}
             c == {Graph!Linked(x, w) : x \in Conversations, w \in Works}
             d == {Graph!Kept(x, w) : x \in Conversations, w \in Works}
             e == {Graph!Message(x) : x \in Conversations}
             f == {Graph!Exchange(x, w) : x \in Conversations, w \in W}
  <2>2. Graph!Refreshed = (((((a \cup b) \cup c) \cup d) \cup e) \cup f)
    BY DEF Graph!Refreshed, W, K
  <2>3. IsFiniteSet(a) /\ IsFiniteSet(b) /\ IsFiniteSet(c) /\ IsFiniteSet(d) /\ IsFiniteSet(e) /\ IsFiniteSet(f)
    BY <1>5, <1>6, <1>7, <1>8, <1>9, <1>10
  <2> HIDE DEF a, b, c, d, e, f
  <2> QED
    BY <2>1, <2>2, <2>3

\* each of one of these kinds, about a Work there is,
RecordKinds == {"file", "commit", "decision", "change", "linked", "kept", "message", "exchange"}
LEMMA RecordIs ==
  ASSUME NEW r \in Graph!Refreshed
  PROVE  /\ r.kind \in RecordKinds
         /\ r.kind \in {"file", "commit", "decision", "linked", "kept"} => r.work \in Works
         /\ r.kind \in {"change", "exchange"} => r.work \in Works \cup {None}
         /\ r.kind \in {"file", "commit", "decision"} => r = Graph!Artifact(r.kind, r.work)
         /\ r.kind \in {"linked", "kept", "message", "exchange"} => r.conv \in Conversations
         /\ r.kind = "message" => r = Graph!Message(r.conv)
  BY DEF Graph!Refreshed, RecordKinds, Graph!Artifact, Graph!Change, Graph!Linked, Graph!Kept, Graph!Message, Graph!Exchange

\* and each has a few edges, between nodes of the kinds there are.
LEMMA EdgesAre ==
  ASSUME NEW r \in Graph!Refreshed
  PROVE  /\ IsFiniteSet(Graph!EdgesOf(r))
         /\ \A e \in Graph!EdgesOf(r) : e.from[1] \in Kinds /\ e.to[1] \in Kinds /\ e.conf \in 0..2
<1>1. r.kind \in RecordKinds
  BY RecordIs
<1>2. IsFiniteSet(Graph!EdgesOf(r))
  <2>1. \A S, T : IsFiniteSet(S) /\ IsFiniteSet(T) => IsFiniteSet(S \cup T)
    BY FS_Union
  <2>2. CASE r.kind = "decision"
    BY <2>2, Few, Zenon DEF Graph!EdgesOf
  <2>3. CASE r.kind = "file"
    BY <2>3, Few, Zenon DEF Graph!EdgesOf
  <2>4. CASE r.kind = "commit"
    BY <2>4, Few, Zenon DEF Graph!EdgesOf
  <2>5. CASE r.kind = "change"
    BY <2>1, <2>5, Few, Zenon DEF Graph!EdgesOf
  <2>6. CASE r.kind = "linked" \/ r.kind = "kept"
    BY <2>6, Few, Zenon DEF Graph!EdgesOf
  <2>7. CASE r.kind = "message"
    BY <2>7, Few, Zenon DEF Graph!EdgesOf
  <2>8. CASE r.kind = "exchange"
    BY <2>1, <2>8, Few, Zenon DEF Graph!EdgesOf
  <2> QED
    BY <1>1, <2>2, <2>3, <2>4, <2>5, <2>6, <2>7, <2>8 DEF RecordKinds
<1>3. ASSUME NEW e \in Graph!EdgesOf(r)
      PROVE  e.from[1] \in Kinds /\ e.to[1] \in Kinds /\ e.conf \in 0..2
  <2> USE DEF Graph!WorkNode, Graph!Conv, Graph!Worktree, Graph!PathFile, Graph!PathCommit, Graph!GitCommit, Graph!GitFile, Graph!Record, Graph!Edge, Kinds
  <2>2. CASE r.kind = "decision"
    BY <2>2 DEF Graph!EdgesOf
  <2>3. CASE r.kind = "file"
    BY <2>3 DEF Graph!EdgesOf
  <2>4. CASE r.kind = "commit"
    BY <2>4 DEF Graph!EdgesOf
  <2>5. CASE r.kind = "change"
    BY <2>5 DEF Graph!EdgesOf
  <2>6. CASE r.kind = "linked" \/ r.kind = "kept"
    BY <2>6 DEF Graph!EdgesOf
  <2>7. CASE r.kind = "message"
    BY <2>7 DEF Graph!EdgesOf
  <2>8. CASE r.kind = "exchange"
    BY <2>8 DEF Graph!EdgesOf
  <2> QED
    BY <1>1, <2>2, <2>3, <2>4, <2>5, <2>6, <2>7, <2>8 DEF RecordKinds
<1> QED
  BY <1>2, <1>3

LEMMA GraphIs ==
  ASSUME NEW listed, NEW facts \in SUBSET Graph!Refreshed, NEW exists
  PROVE  IsGraph(Graph!Graph(listed, facts, exists))
<1> DEFINE g == Graph!Graph(listed, facts, exists)
           U == {Graph!EdgesOf(r) : r \in facts}
           X == {Graph!Edge(Graph!WorkNode(w), "executed_in", Graph!Worktree, 0, w) : w \in Works}
<1>1. g.edges = (UNION U) \cup X /\ DOMAIN g.owner = Graph!Ends(g.edges)
  BY DEF Graph!Graph
<1>2. IsFiniteSet(facts)
  BY RefreshedIsFinite, FS_Subset
<1>3. IsFiniteSet(U)
  <2> DEFINE f == [r \in facts |-> Graph!EdgesOf(r)]
  <2>1. U = {f[r] : r \in facts}
    OBVIOUS
  <2>2. IsFiniteSet({f[r] : r \in facts})
    <3> HIDE DEF f
    <3> QED BY <1>2, Image
  <2> HIDE DEF f, U
  <2> QED
    BY <2>1, <2>2
<1>4. IsFiniteSet(UNION U)
  <2>1. \A S \in U : IsFiniteSet(S)
    BY EdgesAre
  <2> HIDE DEF U
  <2> QED
    BY <1>3, <2>1, FS_UNION
<1>5. IsFiniteSet(X)
  <2> DEFINE f == [w \in Works |-> Graph!Edge(Graph!WorkNode(w), "executed_in", Graph!Worktree, 0, w)]
  <2>1. X = {f[w] : w \in Works}
    OBVIOUS
  <2>2. IsFiniteSet({f[w] : w \in Works})
    <3> HIDE DEF f
    <3> QED BY GraphAssumption, Image
  <2> HIDE DEF f, X
  <2> QED
    BY <2>1, <2>2
<1>6. ASSUME NEW e \in g.edges
      PROVE  e.from[1] \in Kinds /\ e.to[1] \in Kinds /\ e.conf \in 0..2
  <2>1. CASE e \in X
    BY <2>1 DEF Graph!Edge, Graph!WorkNode, Graph!Worktree, Kinds
  <2>2. CASE e \in UNION U
    <3>1. PICK r \in facts : e \in Graph!EdgesOf(r)
      BY <2>2
    <3> QED
      BY <3>1, EdgesAre
  <2> HIDE DEF U, X
  <2> QED
    BY <1>1, <2>1, <2>2
<1>7. IsFiniteSet(g.edges)
  <2> HIDE DEF U, X
  <2> QED
    BY <1>1, <1>4, <1>5, FS_Union
<1> QED
  BY <1>1, <1>6, <1>7 DEF IsGraph

LEMMA EdgesFrom ==
  ASSUME NEW listed, NEW facts, NEW exists, NEW e
  PROVE  e \in Graph!Graph(listed, facts, exists).edges <=>
            \/ \E r \in facts : e \in Graph!EdgesOf(r)
            \/ \E w \in Works : e = Graph!Edge(Graph!WorkNode(w), "executed_in", Graph!Worktree, 0, w)
  BY DEF Graph!Graph

\* A node that the records of one Work alone mark is that Work's,
LEMMA OwnedBy ==
  ASSUME NEW listed \in Graph!SetToSeqs(Works), NEW facts, NEW node, NEW w \in Works,
         \A v \in Works : v = w <=>
             (node = Graph!WorkNode(v) \/ \E r \in facts : node \in Graph!Marked(r) /\ r.work = v)
  PROVE  Graph!OwnerOf(node, listed, facts) = w
<1> DEFINE n == Cardinality(Works)
           claims == {i \in DOMAIN listed : node = Graph!WorkNode(listed[i])
                        \/ \E r \in facts : node \in Graph!Marked(r) /\ r.work = listed[i]}
<1>1. n \in Nat /\ listed \in [1..n -> Works] /\ \A j, k \in 1..n : j # k => listed[j] # listed[k]
  BY GraphAssumption, FS_CardinalityType, SameCount DEF Graph!SetToSeqs
<1> HIDE DEF n
<1>2. \E i \in 1..n : listed[i] = w
  <2>1. IsFiniteSet(1..n) /\ Cardinality(1..n) = n
    <3>1. \A a, b \in Int : IsFiniteSet(a..b) /\ Cardinality(a..b) = IF a > b THEN 0 ELSE b-a+1
      BY FS_Interval
    <3>2. 1 \in Int /\ n \in Int
      BY <1>1
    <3>3. IsFiniteSet(1..n) /\ Cardinality(1..n) = IF 1 > n THEN 0 ELSE n-1+1
      BY <3>1, <3>2
    <3> QED
      BY <1>1, <3>3
  <2>2. listed \in Injection(1..n, Works)
    BY <1>1 DEF Injection, IsInjective
  <2>3. listed \in Surjection(1..n, Works)
    BY <2>1, <2>2, GraphAssumption, FS_Injection DEF n
  <2> QED
    BY <2>3 DEF Surjection
<1>3. PICK i \in 1..n : listed[i] = w
  BY <1>2
<1>4. claims = {i}
  <2>1. \A j \in 1..n : listed[j] \in Works /\ (listed[j] = w <=> j = i)
    BY <1>1, <1>3
  <2>2. DOMAIN listed = 1..n
    BY <1>1
  <2> QED
    BY <1>3, <2>1, <2>2
<1>5. Graph!Max({i}) = i
  <2>1. \A x \in {i} : x = i
    OBVIOUS
  <2>2. i >= i
    BY <1>1
  <2> QED
    BY <2>1, <2>2 DEF Graph!Max
<1>6. Graph!OwnerOf(node, listed, facts) = IF claims = {} THEN None ELSE listed[Graph!Max(claims)]
  BY DEF Graph!OwnerOf
<1> HIDE DEF claims
<1> QED
  BY <1>3, <1>4, <1>5, <1>6

\* the node of a Work is its own,
LEMMA WorkIsOwn ==
  ASSUME NEW listed \in Graph!SetToSeqs(Works), NEW facts \in SUBSET Graph!Refreshed, NEW w \in Works
  PROVE  Graph!OwnerOf(Graph!WorkNode(w), listed, facts) = w
<1>1. ASSUME NEW r \in facts
      PROVE  Graph!WorkNode(w) \notin Graph!Marked(r)
  BY DEF Graph!Marked, Graph!WorkNode, Graph!Record, Graph!PathFile, Graph!PathCommit, Graph!Conv
<1>2. \A v \in Works : Graph!WorkNode(w) = Graph!WorkNode(v) <=> v = w
  BY DEF Graph!WorkNode
<1> QED
  BY <1>1, <1>2, OwnedBy

\* so is an artifact or a decision,
LEMMA RecordIsOwn ==
  ASSUME NEW listed \in Graph!SetToSeqs(Works), NEW facts \in SUBSET Graph!Refreshed, NEW r \in facts,
         r.kind \in {"file", "commit", "decision"}
  PROVE  Graph!OwnerOf(Graph!Record(r), listed, facts) = r.work
<1>1. r.work \in Works
  BY RecordIs
<1>2. Graph!Record(r) \in Graph!Marked(r)
  BY DEF Graph!Marked
<1>3. ASSUME NEW q \in facts, Graph!Record(r) \in Graph!Marked(q)
      PROVE  q = r
  <2>1. Graph!Record(r)[2] = r /\ Graph!Record(r)[1] \in {"artifact", "decision"}
    BY DEF Graph!Record
  <2>2. Graph!Record(r) = Graph!Record(q) \/ Graph!Record(r) \in {Graph!PathFile, Graph!PathCommit} \/ \E c \in {q.conv} : Graph!Record(r) = Graph!Conv(c)
    BY <1>3 DEF Graph!Marked
  <2>3. Graph!Record(r) = Graph!Record(q)
    BY <2>1, <2>2 DEF Graph!PathFile, Graph!PathCommit, Graph!Conv
  <2> QED
    BY <2>1, <2>3 DEF Graph!Record
<1>4. \A v : Graph!Record(r) # Graph!WorkNode(v)
  BY DEF Graph!Record, Graph!WorkNode
<1>5. \A v \in Works : v = r.work <=> (Graph!Record(r) = Graph!WorkNode(v) \/ \E q \in facts : Graph!Record(r) \in Graph!Marked(q) /\ q.work = v)
  BY <1>1, <1>2, <1>3, <1>4
<1> QED
  BY <1>1, <1>5, OwnedBy

\* and the file at the path, if one Work alone attached it.
LEMMA FileIsOwn ==
  ASSUME NEW listed \in Graph!SetToSeqs(Works), NEW facts \in SUBSET Graph!Refreshed, NEW r \in facts,
         r.kind = "file", \A w \in Works \ {r.work} : Graph!Artifact("file", w) \notin facts
  PROVE  Graph!OwnerOf(Graph!PathFile, listed, facts) = r.work
<1>1. r.work \in Works
  BY RecordIs
<1>2. Graph!PathFile \in Graph!Marked(r)
  BY DEF Graph!Marked
<1>3. ASSUME NEW q \in facts, Graph!PathFile \in Graph!Marked(q)
      PROVE  q.work = r.work
  <2>1. q.kind = "file"
    BY <1>3 DEF Graph!Marked, Graph!PathFile, Graph!PathCommit, Graph!Record, Graph!Conv
  <2>2. q.work \in Works /\ q = Graph!Artifact("file", q.work)
    BY <2>1, RecordIs
  <2> QED
    BY <2>2
<1>4. \A v : Graph!PathFile # Graph!WorkNode(v)
  BY DEF Graph!PathFile, Graph!WorkNode
<1>5. \A v \in Works : v = r.work <=> (Graph!PathFile = Graph!WorkNode(v) \/ \E q \in facts : Graph!PathFile \in Graph!Marked(q) /\ q.work = v)
  BY <1>1, <1>2, <1>3, <1>4
<1> QED
  BY <1>1, <1>5, OwnedBy

\* An edge is of a record, between two of its nodes,
Shape(e, r) ==
    \/ r.kind = "decision" /\ e.from = Graph!WorkNode(r.work) /\ e.to = Graph!Record(r)
    \/ r.kind = "file" /\ e.from = Graph!Record(r) /\ e.to \in {Graph!WorkNode(r.work), Graph!PathFile}
    \/ r.kind = "file" /\ e.from = Graph!WorkNode(r.work) /\ e.to = Graph!PathFile /\ e.rel = "associated_with" /\ e.by = r
    \/ r.kind = "commit" /\ e.from = Graph!Record(r) /\ e.to \in {Graph!WorkNode(r.work), Graph!PathCommit}
    \/ r.kind = "commit" /\ e.from = Graph!PathCommit /\ e.to = Graph!WorkNode(r.work)
    \/ r.kind = "change" /\ e.from = Graph!GitCommit /\ e.to \in {Graph!Worktree, Graph!GitFile}
    \/ r.kind = "change" /\ r.work # None /\ e.from = Graph!GitCommit /\ e.to = Graph!WorkNode(r.work)
    \/ r.kind = "change" /\ r.work # None /\ e.from = Graph!WorkNode(r.work) /\ e.to = Graph!GitFile
    \/ r.kind \in {"linked", "kept"} /\ e.from = Graph!Conv(r.conv) /\ e.to = Graph!WorkNode(r.work)
    \/ r.kind = "message" /\ e.from = Graph!Conv(r.conv) /\ e.to = Graph!Record(r)
    \/ r.kind = "exchange" /\ e.from = Graph!Record(r) /\ e.to \in {Graph!Conv(r.conv), <<"snapshot", "same">>}
    \/ r.kind = "exchange" /\ r.work # None /\ e.from = Graph!Record(r) /\ e.to = Graph!WorkNode(r.work)
LEMMA EdgeShape ==
  ASSUME NEW r \in Graph!Refreshed, NEW e \in Graph!EdgesOf(r)
  PROVE  Shape(e, r)
<1>1. r.kind \in RecordKinds
  BY RecordIs
<1>2. CASE r.kind = "decision"
  BY <1>2 DEF Graph!EdgesOf, Shape, Graph!Edge
<1>3. CASE r.kind = "file"
  BY <1>3 DEF Graph!EdgesOf, Shape, Graph!Edge
<1>4. CASE r.kind = "commit"
  BY <1>4 DEF Graph!EdgesOf, Shape, Graph!Edge
<1>5. CASE r.kind = "change"
  BY <1>5 DEF Graph!EdgesOf, Shape, Graph!Edge
<1>6. CASE r.kind = "linked" \/ r.kind = "kept"
  BY <1>6 DEF Graph!EdgesOf, Shape, Graph!Edge
<1>7. CASE r.kind = "message"
  BY <1>7 DEF Graph!EdgesOf, Shape, Graph!Edge
<1>8. CASE r.kind = "exchange"
  BY <1>8 DEF Graph!EdgesOf, Shape, Graph!Edge
<1> QED
  BY <1>1, <1>2, <1>3, <1>4, <1>5, <1>6, <1>7, <1>8 DEF RecordKinds

\* or the one from a Work to its worktree.
LEMMA EdgeIs ==
  ASSUME NEW listed, NEW facts \in SUBSET Graph!Refreshed, NEW exists,
         NEW e \in Graph!Graph(listed, facts, exists).edges
  PROVE  \/ \E r \in facts : Shape(e, r)
         \/ \E w \in Works : e.from = Graph!WorkNode(w) /\ e.to = Graph!Worktree /\ e.rel = "executed_in"
<1>1. CASE \E r \in facts : e \in Graph!EdgesOf(r)
  BY <1>1, EdgeShape
<1>2. CASE \E w \in Works : e = Graph!Edge(Graph!WorkNode(w), "executed_in", Graph!Worktree, 0, w)
  BY <1>2 DEF Graph!Edge
<1> QED
  BY <1>1, <1>2, EdgesFrom

\* What a node is, by its kind.
LEMMA NodeIs ==
  ASSUME NEW listed, NEW facts \in SUBSET Graph!Refreshed, NEW exists,
         NEW n \in Graph!Ends(Graph!Graph(listed, facts, exists).edges)
  PROVE  /\ n[1] = "work" => \E v \in Works : n = Graph!WorkNode(v)
         /\ n[1] \in {"decision", "artifact"} =>
               \E r \in facts : r.kind \in {"file", "commit", "decision"} /\ n = Graph!Record(r)
         /\ n[1] = "message" => \E r \in facts : r.kind = "message" /\ n = Graph!Record(r)
<1>1. PICK e \in Graph!Graph(listed, facts, exists).edges : n = e.from \/ n = e.to
  BY DEF Graph!Ends
<1>4. \/ \E r \in facts : Shape(e, r)
      \/ \E w \in Works : e.from = Graph!WorkNode(w) /\ e.to = Graph!Worktree
  BY EdgeIs
<1> USE DEF Graph!WorkNode, Graph!Conv, Graph!Worktree, Graph!PathFile, Graph!PathCommit, Graph!GitCommit, Graph!GitFile, Graph!Record
<1>2. CASE \E r \in facts : Shape(e, r)
  <2>1. PICK r \in facts : Shape(e, r)
    BY <1>2
  <2>2. r \in Graph!Refreshed
    OBVIOUS
  <2>3. /\ r.kind \in {"file", "commit", "decision", "linked", "kept"} => r.work \in Works
        /\ r.kind \in {"change", "exchange"} => r.work \in Works \cup {None}
    BY <2>2, RecordIs
  <2>4. n[1] = "work" => n = Graph!WorkNode(r.work) /\ r.work \in Works
    BY <1>1, <2>1, <2>3 DEF Shape
  <2>5. n[1] \in {"decision", "artifact"} => r.kind \in {"file", "commit", "decision"} /\ n = Graph!Record(r)
    BY <1>1, <2>1 DEF Shape
  <2>6. n[1] = "message" => r.kind = "message" /\ n = Graph!Record(r)
    BY <1>1, <2>1 DEF Shape
  <2> QED
    BY <2>4, <2>5, <2>6
<1>3. CASE \E w \in Works : e.from = Graph!WorkNode(w) /\ e.to = Graph!Worktree
  BY <1>1, <1>3
<1> QED
  BY <1>2, <1>3, <1>4

\* A message is joined to its conversation alone,
LEMMA NextToMessage ==
  ASSUME NEW listed, NEW facts \in SUBSET Graph!Refreshed, NEW exists, NEW r \in facts, r.kind = "message",
         NEW e \in Graph!Adjacent(Graph!Graph(listed, facts, exists), Graph!Record(r))
  PROVE  Graph!Other(e, Graph!Record(r)) = Graph!Conv(r.conv)
<1>1. e \in Graph!Graph(listed, facts, exists).edges /\ (Graph!Record(r) = e.from \/ Graph!Record(r) = e.to)
  BY DEF Graph!Adjacent
<1>4. \/ \E q \in facts : Shape(e, q)
      \/ \E v \in Works : e.from = Graph!WorkNode(v) /\ e.to = Graph!Worktree
  BY <1>1, EdgeIs
<1> USE DEF Graph!WorkNode, Graph!Conv, Graph!Worktree, Graph!PathFile, Graph!PathCommit, Graph!GitCommit, Graph!GitFile, Graph!Record
<1>2. CASE \E q \in facts : Shape(e, q)
  <2>1. PICK q \in facts : Shape(e, q)
    BY <1>2
  <2>2. q = r
    BY <1>1, <2>1 DEF Shape
  <2>3. e.from = Graph!Conv(r.conv) /\ e.to = Graph!Record(r)
    BY <2>1, <2>2 DEF Shape
  <2>4. Graph!Conv(r.conv) # Graph!Record(r)
    OBVIOUS
  <2> QED
    BY <2>3, <2>4 DEF Graph!Other
<1>3. CASE \E w \in Works : e.from = Graph!WorkNode(w) /\ e.to = Graph!Worktree
  BY <1>1, <1>3
<1> QED
  BY <1>2, <1>3, <1>4

\* a conversation to its Works, its messages and its exchanges,
LEMMA NextToConversation ==
  ASSUME NEW listed, NEW facts \in SUBSET Graph!Refreshed, NEW exists, NEW c,
         NEW e \in Graph!Adjacent(Graph!Graph(listed, facts, exists), Graph!Conv(c))
  PROVE  \E r \in facts :
            /\ r.conv = c
            /\ \/ r.kind \in {"linked", "kept"} /\ Graph!Other(e, Graph!Conv(c)) = Graph!WorkNode(r.work)
               \/ r.kind \in {"message", "exchange"} /\ Graph!Other(e, Graph!Conv(c)) = Graph!Record(r)
<1>1. e \in Graph!Graph(listed, facts, exists).edges /\ (Graph!Conv(c) = e.from \/ Graph!Conv(c) = e.to)
  BY DEF Graph!Adjacent
<1>4. \/ \E q \in facts : Shape(e, q)
      \/ \E v \in Works : e.from = Graph!WorkNode(v) /\ e.to = Graph!Worktree
  BY <1>1, EdgeIs
<1> USE DEF Graph!WorkNode, Graph!Conv, Graph!Worktree, Graph!PathFile, Graph!PathCommit, Graph!GitCommit, Graph!GitFile, Graph!Record
<1>2. CASE \E q \in facts : Shape(e, q)
  <2>1. PICK q \in facts : Shape(e, q)
    BY <1>2
  <2>2. /\ q.conv = c
        /\ \/ q.kind \in {"linked", "kept"} /\ e.from = Graph!Conv(c) /\ e.to = Graph!WorkNode(q.work)
           \/ q.kind = "message" /\ e.from = Graph!Conv(c) /\ e.to = Graph!Record(q)
           \/ q.kind = "exchange" /\ e.from = Graph!Record(q) /\ e.to = Graph!Conv(c)
    BY <1>1, <2>1 DEF Shape
  <2> QED
    BY <2>2 DEF Graph!Other
<1>3. CASE \E w \in Works : e.from = Graph!WorkNode(w) /\ e.to = Graph!Worktree
  BY <1>1, <1>3
<1> QED
  BY <1>2, <1>3, <1>4

\* an exchange to its conversation, its snapshot and its Work.
LEMMA NextToExchange ==
  ASSUME NEW listed, NEW facts \in SUBSET Graph!Refreshed, NEW exists, NEW r \in facts, r.kind = "exchange",
         NEW e \in Graph!Adjacent(Graph!Graph(listed, facts, exists), Graph!Record(r)), NEW w,
         Graph!Other(e, Graph!Record(r)) = Graph!WorkNode(w)
  PROVE  r.work = w
<1>1. e \in Graph!Graph(listed, facts, exists).edges /\ (Graph!Record(r) = e.from \/ Graph!Record(r) = e.to)
  BY DEF Graph!Adjacent
<1>4. \/ \E q \in facts : Shape(e, q)
      \/ \E v \in Works : e.from = Graph!WorkNode(v) /\ e.to = Graph!Worktree
  BY <1>1, EdgeIs
<1> USE DEF Graph!WorkNode, Graph!Conv, Graph!Worktree, Graph!PathFile, Graph!PathCommit, Graph!GitCommit, Graph!GitFile, Graph!Record
<1>2. CASE \E q \in facts : Shape(e, q)
  <2>1. PICK q \in facts : Shape(e, q)
    BY <1>2
  <2>2. q = r
    BY <1>1, <2>1 DEF Shape
  <2>3. e.from = Graph!Record(r) /\ e.to \in {Graph!Conv(r.conv), <<"snapshot", "same">>, Graph!WorkNode(r.work)}
    BY <2>1, <2>2 DEF Shape
  <2>4. Graph!Other(e, Graph!Record(r)) = e.to
    BY <2>3 DEF Graph!Other
  <2> QED
    BY <2>3, <2>4
<1>3. CASE \E v \in Works : e.from = Graph!WorkNode(v) /\ e.to = Graph!Worktree
  BY <1>1, <1>3
<1> QED
  BY <1>2, <1>3, <1>4

\* The steps from the root of a Work that keep to the Work.
StepTo(g, w, near, m) ==
    /\ m \in Graph!Ends(g.edges) /\ Graph!Allowed(g, m, w)
    /\ \E e \in Graph!Adjacent(g, m) : Graph!Other(e, m) \in near
LEMMA NearBy ==
  ASSUME NEW g, IsGraph(g), NEW w
  PROVE  \E one, two, three :
            /\ Graph!Within(g, Graph!WorkNode(w), w, 3) = three
            /\ \A m \in one : m = Graph!WorkNode(w) \/ StepTo(g, w, {Graph!WorkNode(w)}, m)
            /\ \A m \in two : m = Graph!WorkNode(w) \/ StepTo(g, w, one, m)
            /\ \A m \in three : m = Graph!WorkNode(w) \/ StepTo(g, w, two, m)
<1> DEFINE root == Graph!WorkNode(w)
<1> HIDE DEF root
<1>1. PICK near \in [0..3 -> SUBSET (DOMAIN g.owner \cup {root})] : Spread(g, root, w, 3, near)
  BY WithinSteps
<1>2. /\ near[0] = {root} /\ near[1] = Nearer(g, root, w, near[0])
      /\ near[2] = Nearer(g, root, w, near[1]) /\ near[3] = Nearer(g, root, w, near[2])
      /\ Graph!Within(g, root, w, 3) = near[3]
  <2>1. /\ near[0] = {root} /\ Graph!Within(g, root, w, 3) = near[3]
        /\ \A n \in 1..3 : near[n] = Nearer(g, root, w, near[n - 1])
    BY <1>1 DEF Spread
  <2>2. 1 \in 1..3 /\ 2 \in 1..3 /\ 3 \in 1..3 /\ 1 - 1 = 0 /\ 2 - 1 = 1 /\ 3 - 1 = 2
    OBVIOUS
  <2> QED
    BY <2>1, <2>2
<1>3. DOMAIN g.owner = Graph!Ends(g.edges)
  BY DEF IsGraph
<1>4. \A k : \A m \in Nearer(g, root, w, k) : m \in k \/ StepTo(g, w, k, m)
  BY <1>3 DEF Nearer, StepTo
<1>5. near[0] \subseteq near[1] /\ near[1] \subseteq near[2]
  BY <1>2 DEF Nearer
<1>6. \A j, k, m : j \subseteq k /\ StepTo(g, w, j, m) => StepTo(g, w, k, m)
  BY DEF StepTo
<1>7. \A m \in near[1] : m = root \/ StepTo(g, w, {root}, m)
  BY <1>2, <1>4
<1>8. \A m \in near[2] : m = root \/ StepTo(g, w, near[1], m)
  <2>1. \A m \in near[2] : m \in near[1] \/ StepTo(g, w, near[1], m)
    BY <1>2, <1>4
  <2> QED
    BY <1>2, <1>5, <1>6, <1>7, <2>1
<1>9. \A m \in near[3] : m = root \/ StepTo(g, w, near[2], m)
  <2>1. \A m \in near[3] : m \in near[2] \/ StepTo(g, w, near[2], m)
    BY <1>2, <1>4
  <2> QED
    BY <1>5, <1>6, <1>8, <2>1
<1> QED
  BY <1>2, <1>7, <1>8, <1>9 DEF root

\* What is that near to a Work is not another's: neither a Work, an artifact or a decision,
LEMMA NearIsOwn ==
  ASSUME NEW listed \in Graph!SetToSeqs(Works), NEW facts \in SUBSET Graph!Refreshed, NEW exists,
         NEW w \in Works, NEW near, NEW m, StepTo(Graph!Graph(listed, facts, exists), w, near, m)
  PROVE  /\ \A v \in Works : m = Graph!WorkNode(v) => v = w
         /\ m[1] \in {"decision", "artifact"} => m[2].work = w
<1> DEFINE g == Graph!Graph(listed, facts, exists)
<1>1. m \in Graph!Ends(g.edges) /\ g.owner[m] \in {None, w}
  <2>1. m \in Graph!Ends(g.edges) /\ (w = None \/ g.owner[m] \in {None, w})
    BY DEF StepTo, Graph!Allowed
  <2> HIDE DEF g
  <2> QED
    BY <2>1, GraphAssumption
<1>2. g.owner[m] = Graph!OwnerOf(m, listed, facts)
  BY <1>1 DEF Graph!Graph
<1>3. ASSUME NEW v \in Works, m = Graph!WorkNode(v)
      PROVE  v = w
  <2>1. Graph!OwnerOf(m, listed, facts) = v
    BY <1>3, WorkIsOwn
  <2> HIDE DEF g
  <2> QED
    BY <1>1, <1>2, <2>1, GraphAssumption
<1>4. ASSUME m[1] \in {"decision", "artifact"}
      PROVE  m[2].work = w
  <2>1. PICK r \in facts : r.kind \in {"file", "commit", "decision"} /\ m = Graph!Record(r)
    BY <1>1, <1>4, NodeIs
  <2>2. Graph!OwnerOf(m, listed, facts) = r.work /\ r.work \in Works
    BY <2>1, RecordIsOwn, RecordIs
  <2>3. m[2] = r
    BY <2>1 DEF Graph!Record
  <2> HIDE DEF g
  <2> QED
    BY <1>1, <1>2, <2>2, <2>3, GraphAssumption
<1> QED
  BY <1>3, <1>4

\* nor a message of a conversation that no record joins to the Work.
Joins(facts, c, w) ==
    \E r \in facts : r.kind \in {"linked", "kept", "exchange"} /\ r.conv = c /\ r.work = w
LEMMA NearMessages ==
  ASSUME NEW listed \in Graph!SetToSeqs(Works), NEW facts \in SUBSET Graph!Refreshed, NEW exists,
         NEW w \in Works, NEW one, NEW two, NEW r \in facts, r.kind = "message",
         StepTo(Graph!Graph(listed, facts, exists), w, two, Graph!Record(r)),
         \A m \in one : m = Graph!WorkNode(w) \/ StepTo(Graph!Graph(listed, facts, exists), w, {Graph!WorkNode(w)}, m),
         \A m \in two : m = Graph!WorkNode(w) \/ StepTo(Graph!Graph(listed, facts, exists), w, one, m)
  PROVE  Joins(facts, r.conv, w)
<1> DEFINE g == Graph!Graph(listed, facts, exists)
           root == Graph!WorkNode(w)
           c == r.conv
<1>1. Graph!Conv(c) \in two
  <2>1. PICK e \in Graph!Adjacent(g, Graph!Record(r)) : Graph!Other(e, Graph!Record(r)) \in two
    BY DEF StepTo
  <2> QED
    BY <2>1, NextToMessage
<1>2. Graph!Conv(c) # root
  BY DEF Graph!Conv, Graph!WorkNode
<1>3. PICK e \in Graph!Adjacent(g, Graph!Conv(c)) : Graph!Other(e, Graph!Conv(c)) \in one
  <2>1. StepTo(g, w, one, Graph!Conv(c))
    BY <1>1, <1>2
  <2> QED
    BY <2>1 DEF StepTo
<1>4. PICK q \in facts :
         /\ q.conv = c
         /\ \/ q.kind \in {"linked", "kept"} /\ Graph!Other(e, Graph!Conv(c)) = Graph!WorkNode(q.work)
            \/ q.kind \in {"message", "exchange"} /\ Graph!Other(e, Graph!Conv(c)) = Graph!Record(q)
  BY <1>3, NextToConversation
<1>5. CASE q.kind \in {"linked", "kept"}
  <2>1. Graph!WorkNode(q.work) \in one
    <3>1. Graph!Other(e, Graph!Conv(c)) = Graph!WorkNode(q.work)
      BY <1>4, <1>5
    <3> QED
      BY <1>3, <3>1
  <2>2. q.work \in Works
    BY <1>5, RecordIs
  <2>3. q.work = w
    <3>1. CASE Graph!WorkNode(q.work) = root
      BY <3>1 DEF Graph!WorkNode
    <3>2. CASE Graph!WorkNode(q.work) # root
      <4>1. StepTo(g, w, {root}, Graph!WorkNode(q.work))
        BY <2>1, <3>2
      <4>2. \A v \in Works : Graph!WorkNode(q.work) = Graph!WorkNode(v) => v = w
        BY <4>1, NearIsOwn
      <4> QED
        BY <2>2, <4>2
    <3> QED
      BY <3>1, <3>2
  <2> QED
    BY <1>4, <1>5, <2>3 DEF Joins
<1>6. CASE q.kind \in {"message", "exchange"}
  <2>1. Graph!Record(q) \in one
    <3>1. Graph!Other(e, Graph!Conv(c)) = Graph!Record(q)
      BY <1>4, <1>6
    <3> QED
      BY <1>3, <3>1
  <2>2. Graph!Record(q) # root
    BY <1>6 DEF Graph!Record, Graph!WorkNode
  <2>3. StepTo(g, w, {root}, Graph!Record(q))
    BY <2>1, <2>2
  <2>4. PICK d \in Graph!Adjacent(g, Graph!Record(q)) : Graph!Other(d, Graph!Record(q)) = root
    BY <2>3 DEF StepTo
  <2>5. CASE q.kind = "message"
    <3>1. Graph!Other(d, Graph!Record(q)) = Graph!Conv(q.conv)
      BY <2>4, <2>5, NextToMessage
    <3> QED
      BY <2>4, <3>1 DEF Graph!Conv, Graph!WorkNode
  <2>6. CASE q.kind = "exchange"
    <3>1. q.work = w
      BY <2>4, <2>6, NextToExchange
    <3> QED
      BY <1>4, <2>6, <3>1 DEF Joins
  <2> QED
    BY <1>6, <2>5, <2>6
<1> QED
  BY <1>4, <1>5, <1>6

\* So a traversal of depth three keeps to its Work.
Own(facts, w, n) ==
    /\ n[1] \in {"decision", "artifact"} => n[2].work = w
    /\ n[1] = "message" => n[2].conv \in Conversations /\ Joins(facts, n[2].conv, w)
    /\ n[1] = "work" => n[2] = w
LEMMA KeepsToTheWork ==
  ASSUME NEW listed \in Graph!SetToSeqs(Works), NEW facts \in SUBSET Graph!Refreshed, NEW exists,
         NEW w \in Works, NEW o \in Bounds, o.scope = w, o.depth = 3
  PROVE  \A n \in Graph!Traverse(Graph!Graph(listed, facts, exists), Graph!WorkNode(w), o).nodes : Own(facts, w, n)
<1> DEFINE g == Graph!Graph(listed, facts, exists)
           root == Graph!WorkNode(w)
<1>1. IsGraph(g)
  BY GraphIs
<1>2. root[1] # "message"
  BY DEF Graph!WorkNode
<1>3. PICK one, two, three :
         /\ Graph!Within(g, root, w, 3) = three
         /\ \A m \in one : m = root \/ StepTo(g, w, {root}, m)
         /\ \A m \in two : m = root \/ StepTo(g, w, one, m)
         /\ \A m \in three : m = root \/ StepTo(g, w, two, m)
  BY <1>1, NearBy
<1>4. Graph!Traverse(g, root, o).nodes \subseteq three
  <2>1. Exact(g, root, o)
    BY <1>1, <1>2, TraverseIsExact
  <2>2. Graph!Traverse(g, root, o).nodes \subseteq Graph!Within(g, root, o.scope, o.depth)
    BY <2>1 DEF Exact
  <2> HIDE DEF g, root
  <2> QED
    BY <1>3, <2>2
<1>5. ASSUME NEW n \in three, n # root
      PROVE  Own(facts, w, n)
  <2>1. StepTo(g, w, two, n)
    BY <1>3, <1>5
  <2>2. n \in Graph!Ends(g.edges)
    BY <2>1 DEF StepTo
  <2>3. /\ \A v \in Works : n = Graph!WorkNode(v) => v = w
        /\ n[1] \in {"decision", "artifact"} => n[2].work = w
    BY <2>1, NearIsOwn
  <2>4. n[1] = "work" => n[2] = w
    <3>1. n[1] = "work" => \E v \in Works : n = Graph!WorkNode(v)
      BY <2>2, NodeIs
    <3>2. \A v : Graph!WorkNode(v)[2] = v
      BY DEF Graph!WorkNode
    <3> QED
      BY <2>3, <3>1, <3>2
  <2>5. ASSUME n[1] = "message"
        PROVE  n[2].conv \in Conversations /\ Joins(facts, n[2].conv, w)
    <3>1. PICK r \in facts : r.kind = "message" /\ n = Graph!Record(r)
      BY <2>2, <2>5, NodeIs
    <3>2. r.conv \in Conversations
      BY <3>1, RecordIs
    <3>3. Joins(facts, r.conv, w)
      BY <1>3, <2>1, <3>1, NearMessages
    <3>4. n[2] = r
      BY <3>1 DEF Graph!Record
    <3> QED
      BY <3>2, <3>3, <3>4
  <2> QED
    BY <2>3, <2>4, <2>5 DEF Own
<1>6. Own(facts, w, root)
  BY DEF Own, Graph!WorkNode
<1> QED
  BY <1>4, <1>5, <1>6

\* Of the edges of a Work two come first: of its decision, and to the file it attached.
ToDecision(w) == Graph!Edge(Graph!WorkNode(w), "produced", Graph!Record(Graph!Artifact("decision", w)), 0, Graph!Artifact("decision", w))
ToFile(w) == Graph!Edge(Graph!WorkNode(w), "associated_with", Graph!PathFile, 0, Graph!Artifact("file", w))
LEMMA FirstEdges ==
  ASSUME NEW listed, NEW facts \in SUBSET Graph!Refreshed, NEW exists, NEW w \in Works,
         NEW e \in Graph!Adjacent(Graph!Graph(listed, facts, exists), Graph!WorkNode(w)), Graph!Rank(e, Graph!WorkNode(w)) <= 2
  PROVE  e \in {ToDecision(w), ToFile(w)}
<1> DEFINE root == Graph!WorkNode(w)
<1>1. /\ \/ \E r \in facts : e \in Graph!EdgesOf(r)
         \/ \E v \in Works : e = Graph!Edge(Graph!WorkNode(v), "executed_in", Graph!Worktree, 0, v)
      /\ root = e.from \/ root = e.to
  BY EdgesFrom DEF Graph!Adjacent
<1>2. /\ Graph!KindRank["artifact"] = 5 /\ Graph!KindRank["conversation"] = 4 /\ Graph!KindRank["exchange"] = 6
      /\ Graph!KindRank["worktree"] = 9 /\ Graph!KindRank["commit"] = 3 /\ Graph!KindRank["file"] = 2
  BY DEF Graph!KindRank
<1>3. ASSUME NEW k \in {"artifact", "conversation", "exchange", "worktree"}, Graph!Other(e, root)[1] = k, e.conf = 0
      PROVE  FALSE
  <2>1. Graph!Rank(e, root) = 10 * 0 + Graph!KindRank[k]
    BY <1>3 DEF Graph!Rank
  <2> QED
    BY <1>2, <1>3, <2>1
<1>4. ASSUME NEW k \in {"commit", "file"}, Graph!Other(e, root)[1] = k, e.conf \in {1, 2}
      PROVE  FALSE
  <2>1. Graph!Rank(e, root) = 10 * e.conf + Graph!KindRank[k]
    BY <1>4 DEF Graph!Rank
  <2> QED
    BY <1>2, <1>4, <2>1
<1>5. \A v : root = Graph!WorkNode(v) => v = w
  BY DEF Graph!WorkNode
<1>6. root[1] = "work"
  BY DEF Graph!WorkNode
<1>7. CASE \E v \in Works : e = Graph!Edge(Graph!WorkNode(v), "executed_in", Graph!Worktree, 0, v)
  <2>1. PICK v \in Works : e = Graph!Edge(Graph!WorkNode(v), "executed_in", Graph!Worktree, 0, v)
    BY <1>7
  <2>2. e.conf = 0 /\ Graph!Other(e, root)[1] = "worktree"
    BY <1>1, <2>1 DEF Graph!Edge, Graph!Other, Graph!Worktree, Graph!WorkNode
  <2> QED
    BY <1>3, <2>2
<1>8. CASE \E r \in facts : e \in Graph!EdgesOf(r)
  <2>1. PICK r \in facts : e \in Graph!EdgesOf(r)
    BY <1>8
  <2>2. /\ r.kind \in RecordKinds
        /\ r.kind \in {"file", "commit", "decision"} => r = Graph!Artifact(r.kind, r.work)
    BY RecordIs
  <2>3. CASE r.kind = "decision"
    <3>1. e = Graph!Edge(Graph!WorkNode(r.work), "produced", Graph!Record(r), 0, r)
      BY <2>1, <2>3 DEF Graph!EdgesOf
    <3>2. root # Graph!Record(r)
      BY <2>3 DEF Graph!Record, Graph!WorkNode
    <3>3. r.work = w
      BY <1>1, <1>5, <3>1, <3>2 DEF Graph!Edge
    <3> QED
      BY <2>2, <2>3, <3>1, <3>3 DEF ToDecision
  <2>4. CASE r.kind = "file"
    <3>1. \/ e = Graph!Edge(Graph!Record(r), "produced_by", Graph!WorkNode(r.work), 0, r)
          \/ e = Graph!Edge(Graph!WorkNode(r.work), "associated_with", Graph!PathFile, 0, r)
          \/ e = Graph!Edge(Graph!Record(r), "references", Graph!PathFile, 0, r)
      BY <2>1, <2>4 DEF Graph!EdgesOf
    <3>2. root # Graph!Record(r) /\ root # Graph!PathFile /\ Graph!Record(r)[1] = "artifact"
      BY <2>4 DEF Graph!Record, Graph!WorkNode, Graph!PathFile
    <3>3. CASE e = Graph!Edge(Graph!Record(r), "produced_by", Graph!WorkNode(r.work), 0, r)
      <4>1. e.conf = 0 /\ Graph!Other(e, root)[1] = "artifact"
        BY <1>1, <3>2, <3>3 DEF Graph!Edge, Graph!Other
      <4> QED
        BY <1>3, <4>1
    <3>4. CASE e = Graph!Edge(Graph!WorkNode(r.work), "associated_with", Graph!PathFile, 0, r)
      <4>1. r.work = w
        BY <1>1, <1>5, <3>2, <3>4 DEF Graph!Edge
      <4> QED
        BY <2>2, <2>4, <3>4, <4>1 DEF ToFile
    <3>5. e # Graph!Edge(Graph!Record(r), "references", Graph!PathFile, 0, r)
      BY <1>1, <3>2 DEF Graph!Edge
    <3> QED
      BY <3>1, <3>3, <3>4, <3>5
  <2>5. CASE r.kind = "commit"
    <3>1. \/ e = Graph!Edge(Graph!Record(r), "produced_by", Graph!WorkNode(r.work), 0, r)
          \/ e = Graph!Edge(Graph!PathCommit, "implemented_by", Graph!WorkNode(r.work), 1, r)
          \/ e = Graph!Edge(Graph!Record(r), "references", Graph!PathCommit, 0, r)
      BY <2>1, <2>5 DEF Graph!EdgesOf
    <3>2. root # Graph!Record(r) /\ root # Graph!PathCommit /\ Graph!Record(r)[1] = "artifact" /\ Graph!PathCommit[1] = "commit"
      BY <2>5 DEF Graph!Record, Graph!WorkNode, Graph!PathCommit
    <3>3. CASE e = Graph!Edge(Graph!Record(r), "produced_by", Graph!WorkNode(r.work), 0, r)
      <4>1. e.conf = 0 /\ Graph!Other(e, root)[1] = "artifact"
        BY <1>1, <3>2, <3>3 DEF Graph!Edge, Graph!Other
      <4> QED
        BY <1>3, <4>1
    <3>4. CASE e = Graph!Edge(Graph!PathCommit, "implemented_by", Graph!WorkNode(r.work), 1, r)
      <4>1. e.conf = 1 /\ Graph!Other(e, root)[1] = "commit"
        BY <1>1, <3>2, <3>4 DEF Graph!Edge, Graph!Other
      <4> QED
        BY <1>4, <4>1
    <3>5. e # Graph!Edge(Graph!Record(r), "references", Graph!PathCommit, 0, r)
      BY <1>1, <3>2 DEF Graph!Edge
    <3> QED
      BY <3>1, <3>3, <3>4, <3>5
  <2>6. CASE r.kind = "change"
    <3>1. \/ e = Graph!Edge(Graph!GitCommit, "observed_in", Graph!Worktree, 2, r) \/ e = Graph!Edge(Graph!GitCommit, "changed", Graph!GitFile, 2, r)
          \/ e = Graph!Edge(Graph!GitCommit, "implemented_by", Graph!WorkNode(r.work), 2, r)
          \/ e = Graph!Edge(Graph!WorkNode(r.work), "associated_with", Graph!GitFile, 2, r)
      BY <2>1, <2>6 DEF Graph!EdgesOf
    <3>2. /\ root # Graph!GitCommit /\ root # Graph!GitFile /\ root # Graph!Worktree
          /\ Graph!GitCommit[1] = "commit" /\ Graph!GitFile[1] = "file"
      BY DEF Graph!GitCommit, Graph!GitFile, Graph!WorkNode, Graph!Worktree
    <3>3. e.conf = 2 /\ Graph!Other(e, root)[1] \in {"commit", "file"}
      BY <1>1, <3>1, <3>2 DEF Graph!Edge, Graph!Other
    <3> QED
      BY <1>4, <3>3
  <2>7. CASE r.kind = "linked" \/ r.kind = "kept"
    <3>1. e = Graph!Edge(Graph!Conv(r.conv), "belongs_to", Graph!WorkNode(r.work), 0, r)
      BY <2>1, <2>7 DEF Graph!EdgesOf
    <3>2. root # Graph!Conv(r.conv) /\ Graph!Conv(r.conv)[1] = "conversation"
      BY DEF Graph!Conv, Graph!WorkNode
    <3>3. e.conf = 0 /\ Graph!Other(e, root)[1] = "conversation"
      BY <1>1, <3>1, <3>2 DEF Graph!Edge, Graph!Other
    <3> QED
      BY <1>3, <3>3
  <2>8. CASE r.kind = "message"
    <3>1. e = Graph!Edge(Graph!Conv(r.conv), "contains", Graph!Record(r), 0, r)
      BY <2>1, <2>8 DEF Graph!EdgesOf
    <3>2. root # Graph!Conv(r.conv) /\ root # Graph!Record(r)
      BY <2>8 DEF Graph!Conv, Graph!WorkNode, Graph!Record
    <3> QED
      BY <1>1, <3>1, <3>2 DEF Graph!Edge
  <2>9. CASE r.kind = "exchange"
    <3>1. \/ e = Graph!Edge(Graph!Record(r), "generated_from", Graph!Conv(r.conv), 0, r)
          \/ e = Graph!Edge(Graph!Record(r), "generated_from", <<"snapshot", "same">>, 0, r)
          \/ e = Graph!Edge(Graph!Record(r), "associated_with", Graph!WorkNode(r.work), 0, r)
      BY <2>1, <2>9 DEF Graph!EdgesOf
    <3>2. /\ root # Graph!Conv(r.conv) /\ root # Graph!Record(r) /\ root # <<"snapshot", "same">>
          /\ Graph!Record(r)[1] = "exchange"
      BY <2>9 DEF Graph!Conv, Graph!WorkNode, Graph!Record
    <3>3. e.conf = 0 /\ Graph!Other(e, root)[1] = "exchange"
      BY <1>1, <3>1, <3>2 DEF Graph!Edge, Graph!Other
    <3> QED
      BY <1>3, <3>3
  <2> QED
    BY <2>2, <2>3, <2>4, <2>5, <2>6, <2>7, <2>8, <2>9 DEF RecordKinds
<1> QED
  BY <1>1, <1>7, <1>8

LEMMA FileEdge ==
  ASSUME NEW listed, NEW facts \in SUBSET Graph!Refreshed, NEW exists, NEW w \in Works,
         Graph!Artifact("file", w) \in facts
  PROVE  LET g == Graph!Graph(listed, facts, exists)
         IN /\ ToFile(w) \in Graph!Adjacent(g, Graph!WorkNode(w)) /\ Graph!Other(ToFile(w), Graph!WorkNode(w)) = Graph!PathFile
            /\ Graph!Rank(ToFile(w), Graph!WorkNode(w)) = 2
            /\ Graph!PathFile \in Graph!Ends(g.edges)
            /\ Cardinality(g.edges) \in Nat /\ Cardinality(g.edges) >= 2
<1> DEFINE g == Graph!Graph(listed, facts, exists)
           a == ToFile(w)
           b == Graph!Edge(Graph!WorkNode(w), "executed_in", Graph!Worktree, 0, w)
           r == Graph!Artifact("file", w)
<1>1. a \in Graph!EdgesOf(r)
  BY DEF Graph!EdgesOf, Graph!Artifact, ToFile
<1>2. a \in g.edges /\ b \in g.edges
  <2>1. \A e : e \in g.edges <=> (\/ \E q \in facts : e \in Graph!EdgesOf(q)
                                  \/ \E v \in Works : e = Graph!Edge(Graph!WorkNode(v), "executed_in", Graph!Worktree, 0, v))
    BY EdgesFrom
  <2> HIDE DEF g, a, r
  <2> QED
    BY <1>1, <2>1 DEF r
<1>3. a.from = Graph!WorkNode(w) /\ a.to = Graph!PathFile /\ a.conf = 0 /\ a # b
  BY DEF Graph!Edge, ToFile, Graph!PathFile, Graph!Worktree
<1>4. IsFiniteSet(g.edges)
  BY GraphIs DEF IsGraph
<1> HIDE DEF g, a, b
<1>5. Cardinality(g.edges) \in Nat /\ Cardinality(g.edges) >= 2
  <2>1. IsFiniteSet({a}) /\ Cardinality({a}) = 1
    BY FS_Singleton
  <2>2. Cardinality({a} \cup {b}) = Cardinality({a}) + 1
    BY <1>3, <2>1, FS_AddElement
  <2>3. {a} \cup {b} \in SUBSET g.edges
    BY <1>2
  <2>4. Cardinality({a} \cup {b}) <= Cardinality(g.edges) /\ Cardinality(g.edges) \in Nat
    BY <1>4, <2>3, FS_Subset, FS_CardinalityType
  <2> QED
    BY <2>1, <2>2, <2>4
<1>6. Graph!Other(a, Graph!WorkNode(w)) = Graph!PathFile /\ a \in Graph!Adjacent(g, Graph!WorkNode(w)) /\ Graph!PathFile \in Graph!Ends(g.edges)
  BY <1>2, <1>3 DEF Graph!Other, Graph!Adjacent, Graph!Ends
<1>7. Graph!Rank(a, Graph!WorkNode(w)) = 2
  <2>1. Graph!KindRank[Graph!PathFile[1]] = 2
    BY DEF Graph!KindRank, Graph!PathFile
  <2>2. Graph!Rank(a, Graph!WorkNode(w)) = 10 * 0 + 2
    BY <1>3, <1>6, <2>1 DEF Graph!Rank
  <2> QED
    BY <2>2
<1> QED
  BY <1>5, <1>6, <1>7 DEF a, g

\* With bounds a small search does not meet
Wide(o, w) == o.scope = w /\ o.depth = 3 /\ o.nodes = 100 /\ o.edges = 100 /\ o.bytes = 200
\* the file is the first or the second in the queue once the root was visited,
Early(s) == \E i \in 1..Len(s.queue) : i <= 2 /\ s.queue[i][1] = Graph!PathFile
Root(w, s) == s.nodes = {Graph!WorkNode(w)} /\ Early(s) /\ ~s.full
LEMMA RootIsVisited ==
  ASSUME NEW listed \in Graph!SetToSeqs(Works), NEW facts \in SUBSET Graph!Refreshed, NEW exists, NEW w \in Works,
         Graph!Artifact("file", w) \in facts, \A v \in Works \ {w} : Graph!Artifact("file", v) \notin facts,
         NEW o \in Bounds, Wide(o, w)
  PROVE  Root(w, Graph!Visit(Graph!Graph(listed, facts, exists), o, Graph!WorkNode(w), Started(Graph!WorkNode(w))))
<1> DEFINE g == Graph!Graph(listed, facts, exists)
           root == Graph!WorkNode(w)
           A == Graph!Adjacent(g, root)
           s == TakenIn(Started(root), root)
           r == Graph!Artifact("file", w)
<1>1. IsGraph(g)
  BY GraphIs
<1>2. /\ ToFile(w) \in A /\ Graph!Other(ToFile(w), root) = Graph!PathFile /\ Graph!Rank(ToFile(w), root) = 2
      /\ Graph!PathFile \in Graph!Ends(g.edges)
  BY FileEdge
<1>3. \A e \in A : Graph!Rank(e, root) <= 2 => e \in {ToDecision(w), ToFile(w)}
  BY FirstEdges
<1>4. Graph!Allowed(g, Graph!PathFile, o.scope)
  <2>1. r.kind = "file" /\ r.work = w
    BY DEF Graph!Artifact
  <2>2. Graph!OwnerOf(Graph!PathFile, listed, facts) = w
    BY <2>1, FileIsOwn
  <2>3. g.owner[Graph!PathFile] = Graph!OwnerOf(Graph!PathFile, listed, facts)
    BY <1>2 DEF Graph!Graph
  <2> QED
    BY <2>2, <2>3 DEF Graph!Allowed, Wide
<1>5. /\ s.queue = <<>> /\ s.nodes = {root} /\ s.edges = {} /\ ~s.cut /\ ~s.full
      /\ s \in States(g, root)
  <2>1. Started(root) \in States(g, root) /\ Started(root).queue # <<>> /\ Head(Started(root).queue)[1] = root
    BY <1>1, StartedIs DEF Whole, Searched, Bounded
  <2>2. s \in States(g, root)
    BY <1>1, <2>1, RestIs
  <2> QED
    BY <2>2 DEF TakenIn, Rest, Started
<1>6. Graph!Visit(g, o, root, Started(root)) = Graph!FollowAll(g, o, root, 0, s)
  <2>1. /\ Head(Started(root).queue)[1] = root /\ Head(Started(root).queue)[2] = 0
        /\ Started(root).visited = {} /\ Started(root).nodes = {} /\ Started(root).edges = {}
    <3>1. Head(Started(root).queue) = <<root, 0>>
      BY <1>1, StartedIs
    <3>2. <<root, 0>>[1] = root /\ <<root, 0>>[2] = 0
      OBVIOUS
    <3> HIDE DEF root
    <3> QED
      BY <3>1, <3>2 DEF Started
  <2>2. Cardinality({}) = 0 /\ root[1] # "message"
    BY FS_EmptySet DEF Graph!WorkNode
  <2>3. ~(0 >= o.nodes \/ 0 + 0 >= o.bytes) /\ ~(0 >= o.depth)
    BY DEF Wide
  <2> QED
    BY <2>1, <2>2, <2>3, SameCount DEF Graph!Visit, TakenIn, Rest
<1> HIDE DEF s, g, A, root, r
<1>7. PICK pick \in Picks(A), f \in [SUBSET A -> States(g, root)] : Followed(g, o, root, 0, s, pick, f)
  BY <1>1, <1>5, FollowSteps DEF A
<1>8. /\ f[{}] = s /\ Graph!FollowAll(g, o, root, 0, s) = f[A]
      /\ \A E \in (SUBSET A) \ {{}} : /\ f[E] = Graph!Follow(g, o, root, 0, f[E \ {pick[E]}], pick[E])
                                      /\ \A d \in E : Graph!Rank(d, root) <= Graph!Rank(pick[E], root)
  BY <1>7 DEF Followed, A
<1>9. IsFiniteSet(A)
  <2>1. A \in SUBSET g.edges /\ IsFiniteSet(g.edges)
    BY <1>1 DEF A, Graph!Adjacent, IsGraph
  <2> QED
    BY <2>1, FS_Subset
<1> DEFINE Fine(E, t) ==
              /\ t \in States(g, root) /\ t.edges \subseteq E /\ t.nodes = {root} /\ ~t.full
              /\ Len(t.queue) = Cardinality(t.edges)
              /\ t.cut => Cardinality(t.edges) >= 2
              /\ ToFile(w) \in E => Early(t)
           T == {E \in SUBSET A : Fine(E, f[E])}
<1>10. {} \in T
  <2>1. Len(s.queue) = Cardinality(s.edges)
    BY <1>5, FS_EmptySet
  <2> QED
    BY <1>5, <1>8, <2>1
<1>11. ASSUME NEW E \in SUBSET A, E # {}, \A x \in E : E \ {x} \in T
       PROVE  E \in T
  <2> DEFINE e == pick[E]
             p == f[E \ {e}]
             t == f[E]
             next == Graph!Other(e, root)
             k == Cardinality(p.edges)
             l == Len(p.queue)
  <2>1. e \in E /\ e \in A
    BY <1>7, <1>11 DEF Picks
  <2>2. Fine(E \ {e}, p)
    BY <1>11, <2>1
  <2>3. t = Graph!Follow(g, o, root, 0, p, e) /\ \A d \in E : Graph!Rank(d, root) <= Graph!Rank(e, root)
    BY <1>8, <1>11
  <2>4. e \in g.edges /\ next \in Nodes(g, root)
    <3>1. e \in g.edges /\ Graph!Other(e, root) \in Graph!Ends(g.edges)
      BY <1>1, <2>1, Ranks DEF A
    <3> QED
      BY <3>1 DEF Nodes
  <2>5. IsFiniteSet(p.edges) /\ k \in Nat /\ l = k
    <3>1. p.edges \in SUBSET A
      BY <2>2
    <3>2. IsFiniteSet(p.edges)
      BY <1>9, <3>1, FS_Subset
    <3> QED
      BY <2>2, <3>2, FS_CardinalityType
  <2>6. Cardinality(p.nodes) = 1
    BY <2>2, FS_Singleton
  <2>7. ASSUME e = ToFile(w)
        PROVE  k <= 1 /\ e \notin p.edges /\ Graph!Allowed(g, next, o.scope) /\ next = Graph!PathFile
    <3>1. E \ {e} \subseteq {ToDecision(w)}
      BY <1>2, <1>3, <2>1, <2>3, <2>7
    <3>2. p.edges \in SUBSET {ToDecision(w)} /\ e \notin p.edges
      BY <2>2, <3>1
    <3>3. \A S \in SUBSET {ToDecision(w)} : Cardinality(S) <= 1
      <4> DEFINE D == {ToDecision(w)}
      <4>1. IsFiniteSet(D) /\ Cardinality(D) = 1
        BY FS_Singleton
      <4> HIDE DEF D
      <4>2. \A S \in SUBSET D : Cardinality(S) <= Cardinality(D)
        BY <4>1, FS_Subset
      <4>3. \A S \in SUBSET D : Cardinality(S) <= 1
        BY <4>1, <4>2
      <4> QED
        BY <4>3 DEF D
    <3>4. k <= 1
      <4> HIDE DEF p
      <4> QED
        BY <3>2, <3>3
    <3> QED
      BY <1>2, <1>4, <2>7, <3>2, <3>4
  <2> HIDE DEF e, p, t, next, k, l, T
  <2>8. CASE p.cut \/ e \in p.edges \/ ~Graph!Allowed(g, next, o.scope)
    <3>1. t = p
      BY <2>3, <2>8 DEF Graph!Follow, next
    <3>2. e # ToFile(w)
      BY <2>2, <2>5, <2>7, <2>8 DEF k
    <3>3. Fine(E, t)
      BY <2>2, <3>1, <3>2
    <3> QED
      BY <1>11, <3>3 DEF T, t
  <2>9. CASE /\ ~(p.cut \/ e \in p.edges \/ ~Graph!Allowed(g, next, o.scope))
             /\ k >= o.edges \/ k + Cardinality(p.nodes) >= o.bytes
    <3>1. t = [p EXCEPT !.cut = TRUE, !.truncated = TRUE]
      BY <2>3, <2>9, SameCount DEF Graph!Follow, next, k
    <3>2. k >= 2
      BY <2>5, <2>6, <2>9 DEF Wide
    <3>3. e # ToFile(w)
      BY <2>5, <2>7, <3>2
    <3>4. /\ t \in States(g, root) /\ t.edges = p.edges /\ t.nodes = p.nodes /\ t.full = p.full
          /\ t.queue = p.queue
      BY <2>2, <3>1 DEF States
    <3>5. Fine(E, t)
      BY <2>2, <3>2, <3>3, <3>4 DEF k, Early
    <3> QED
      BY <1>11, <3>5 DEF T, t
  <2>10. CASE /\ ~(p.cut \/ e \in p.edges \/ ~Graph!Allowed(g, next, o.scope))
              /\ ~(k >= o.edges \/ k + Cardinality(p.nodes) >= o.bytes)
    <3>1. t = Led(p, e, next, 1)
      <4>1. t = [p EXCEPT !.edges = @ \cup {e}, !.queue = Append(@, <<next, 0 + 1>>)]
        BY <2>3, <2>10, SameCount DEF Graph!Follow, next, k
      <4> QED
        BY <4>1 DEF Led
    <3>2. /\ t \in States(g, root) /\ t.edges = p.edges \cup {e} /\ t.nodes = p.nodes
          /\ t.cut = p.cut /\ t.full = p.full
          /\ Len(p.queue) \in Nat /\ Len(t.queue) = Len(p.queue) + 1
          /\ \A i \in 1..Len(p.queue) : t.queue[i] = p.queue[i]
          /\ t.queue[Len(p.queue) + 1] = <<next, 1>>
      <4>1. 1 \in Nat /\ p \in States(g, root)
        BY <2>2
      <4> QED
        <5>1. LedOn(g, root, p, e, next, 1, Led(p, e, next, 1))
          BY <1>1, <2>4, <4>1, LedIs
        <5> HIDE DEF t, next
        <5>2. LedOn(g, root, p, e, next, 1, t)
          BY <3>1, <5>1
        <5> QED
          BY <5>2 DEF LedOn
    <3>3. Cardinality(t.edges) = k + 1
      <4>1. Cardinality(p.edges \cup {e}) = Cardinality(p.edges) + 1
        BY <2>5, <2>10, FS_AddElement
      <4> QED
        BY <3>2, <4>1 DEF k
    <3>4. Len(t.queue) = Cardinality(t.edges)
      BY <2>5, <3>2, <3>3 DEF l
    <3>5. ASSUME ToFile(w) \in E
          PROVE  Early(t)
      <4>1. CASE e = ToFile(w)
        <5>1. l + 1 \in 1..Len(t.queue) /\ l + 1 <= 2 /\ t.queue[l + 1] = <<Graph!PathFile, 1>>
          BY <2>5, <2>7, <3>2, <4>1 DEF l
        <5> QED
          BY <5>1 DEF Early
      <4>2. CASE e # ToFile(w)
        <5>1. Early(p)
          BY <2>2, <3>5, <4>2
        <5>2. PICK i \in 1..Len(p.queue) : i <= 2 /\ p.queue[i][1] = Graph!PathFile
          BY <5>1 DEF Early
        <5>3. i \in 1..Len(t.queue) /\ t.queue[i][1] = Graph!PathFile
          BY <3>2, <5>2
        <5> QED
          BY <5>2, <5>3 DEF Early
      <4> QED
        BY <4>1, <4>2
    <3>6. Fine(E, t)
      BY <2>1, <2>2, <2>10, <3>2, <3>4, <3>5
    <3> QED
      BY <1>11, <3>6 DEF T, t
  <2> QED
    BY <2>8, <2>9, <2>10
<1>12. Fine(A, f[A])
  <2>1. \A E \in SUBSET A : E # {} /\ (\A x \in E : E \ {x} \in T) => E \in T
    BY <1>11
  <2>2. \A E \in SUBSET A : E \in T
    <3> HIDE DEF T
    <3> QED
      BY <1>9, <1>10, <2>1, SubsetInduction
  <2>3. A \in T
    <3> HIDE DEF T
    <3> QED
      BY <2>2
  <2> QED
    BY <2>3
<1>13. Root(w, f[A])
  BY <1>2, <1>12 DEF Root, root
<1> QED
  BY <1>6, <1>8, <1>13 DEF g, root

\* no visit meets them that early,
LEMMA NotFullYet ==
  ASSUME NEW g, IsGraph(g), NEW w, NEW root, NEW o \in Bounds, Wide(o, w), NEW s, Whole(g, root, o, s),
         ~Stopped(s), Cardinality(s.nodes) <= 2
  PROVE  LET t == Graph!Visit(g, o, root, s)
         IN /\ Whole(g, root, o, t) /\ VisitKept(g, root, o, s, t) /\ ~t.full
            /\ Cardinality(t.nodes) <= Cardinality(s.nodes) + 1
            /\ Head(s.queue)[1][1] # "message" => Head(s.queue)[1] \in t.nodes
<1> DEFINE t == Graph!Visit(g, o, root, s)
           n == Head(s.queue)[1]
<1>1. Whole(g, root, o, t) /\ VisitKept(g, root, o, s, t)
  BY VisitedKeeps
<1> HIDE DEF t
<1>2. /\ IsFiniteSet(s.nodes) /\ Cardinality(s.nodes) \in Nat
      /\ Cardinality(t.nodes) \in Nat /\ Cardinality(t.edges) \in Nat
  BY <1>1, Numbers DEF Whole, Searched, Bounded
<1>3. s.nodes \subseteq t.nodes /\ t.nodes \subseteq s.nodes \cup {n} /\ n \in t.visited
  BY <1>1 DEF VisitKept
<1> HIDE DEF n
<1>4. Cardinality(t.nodes) <= Cardinality(s.nodes) + 1
  <2>1. /\ IsFiniteSet(s.nodes \cup {n})
        /\ Cardinality(s.nodes \cup {n}) = IF n \in s.nodes THEN Cardinality(s.nodes) ELSE Cardinality(s.nodes) + 1
    BY <1>2, FS_AddElement
  <2>2. Cardinality(t.nodes) <= Cardinality(s.nodes \cup {n})
    BY <1>3, <2>1, FS_Subset
  <2> QED
    BY <1>2, <2>1, <2>2
<1>5. /\ Skips(t) /\ Cardinality(t.edges) <= o.edges
      /\ t.full => Cardinality(t.nodes) >= o.nodes \/ Cardinality(t.nodes) + Cardinality(t.edges) >= o.bytes
  BY <1>1 DEF Whole, Searched, Bounded
<1>6. ~t.full
  BY <1>2, <1>4, <1>5 DEF Wide
<1>7. n[1] # "message" => n \in t.nodes
  BY <1>3, <1>5, <1>6 DEF Skips
<1> QED
  BY <1>1, <1>4, <1>6, <1>7 DEF t, n

\* and there are visits enough to take the file.
LEMMA FileIsFound ==
  ASSUME NEW listed \in Graph!SetToSeqs(Works), NEW facts \in SUBSET Graph!Refreshed, NEW exists, NEW w \in Works,
         Graph!Artifact("file", w) \in facts, \A v \in Works \ {w} : Graph!Artifact("file", v) \notin facts,
         NEW o \in Bounds, Wide(o, w)
  PROVE  Graph!PathFile \in Graph!Traverse(Graph!Graph(listed, facts, exists), Graph!WorkNode(w), o).nodes
<1> DEFINE g == Graph!Graph(listed, facts, exists)
           root == Graph!WorkNode(w)
           N == Cardinality(g.edges) + 1
<1>1. IsGraph(g) /\ root[1] # "message"
  BY GraphIs DEF Graph!WorkNode
<1>2. Cardinality(g.edges) \in Nat /\ N \in Nat /\ 3 <= N
  <2>1. Cardinality(g.edges) \in Nat /\ Cardinality(g.edges) >= 2
    BY FileEdge
  <2> HIDE DEF g
  <2> QED
    BY <2>1
<1>3. Root(w, Graph!Visit(g, o, root, Started(root)))
  BY RootIsVisited
<1> HIDE DEF g
<1>4. PICK after \in [0..N -> States(g, root)] : Run(g, root, o, after)
  BY <1>1, TraverseSteps
<1>5. \A n \in 0..N : Whole(g, root, o, after[n])
  BY <1>1, <1>4, RunIs
<1>6. /\ after[0] = Started(root) /\ \A n \in 1..N : after[n] = Visited(g, o, root, after[n - 1])
      /\ Graph!Traverse(g, root, o).nodes = after[N].nodes
  BY <1>4 DEF Run
<1> HIDE DEF N
<1>7. /\ 0 \in 0..N /\ 1 \in 0..N /\ 2 \in 0..N /\ 3 \in 0..N
      /\ after[1] = Visited(g, o, root, after[0]) /\ after[2] = Visited(g, o, root, after[1])
      /\ after[3] = Visited(g, o, root, after[2])
  <2>1. 1 \in 1..N /\ 2 \in 1..N /\ 3 \in 1..N /\ 1 - 1 = 0 /\ 2 - 1 = 1 /\ 3 - 1 = 2
    BY <1>2
  <2> QED
    BY <1>2, <1>6, <2>1
<1>8. Whole(g, root, o, after[1]) /\ Root(w, after[1])
  <2>1. ~Stopped(Started(root))
    BY <1>1, StartedIs
  <2>2. after[1] = Graph!Visit(g, o, root, Started(root))
    BY <1>6, <1>7, <2>1 DEF Visited
  <2> QED
    BY <1>3, <1>5, <1>7, <2>2
<1>9. PICK i \in 1..Len(after[1].queue) : i <= 2 /\ after[1].queue[i][1] = Graph!PathFile
  BY <1>8 DEF Root, Early
<1>10. Graph!PathFile[1] # "message"
  BY DEF Graph!PathFile
<1> DEFINE a == after[1]
           b == after[2]
           c == after[3]
<1>11. /\ a.queue \in Seq(Nodes(g, root) \X Nat) /\ Len(a.queue) \in Nat
       /\ Cardinality(a.nodes) = 1 /\ ~a.full
  <2>1. a \in States(g, root) /\ Len(a.queue) \in Nat
    BY <1>1, <1>8, Numbers
  <2>2. a.nodes = {root} /\ ~a.full
    BY <1>8 DEF Root
  <2> HIDE DEF a
  <2> QED
    BY <2>1, <2>2, FS_Singleton DEF States
<1>12. a.queue # <<>>
  BY <1>9, <1>11
<1>13. /\ Whole(g, root, o, b) /\ VisitKept(g, root, o, a, b) /\ ~b.full
       /\ Cardinality(b.nodes) <= 2
       /\ Head(a.queue)[1][1] # "message" => Head(a.queue)[1] \in b.nodes
  <2>1. ~Stopped(a) /\ Cardinality(a.nodes) <= 2
    BY <1>11, <1>12 DEF Stopped
  <2>2. b = Graph!Visit(g, o, root, a)
    BY <1>7, <2>1 DEF Visited
  <2> HIDE DEF a, b
  <2>3. Whole(g, root, o, a)
    BY <1>8 DEF a
  <2>4. /\ Whole(g, root, o, b) /\ VisitKept(g, root, o, a, b) /\ ~b.full
        /\ Cardinality(b.nodes) <= Cardinality(a.nodes) + 1
        /\ Head(a.queue)[1][1] # "message" => Head(a.queue)[1] \in b.nodes
    BY <1>1, <2>1, <2>2, <2>3, NotFullYet
  <2> QED
    BY <1>11, <2>4
<1>14. ASSUME i = 1
       PROVE  Graph!PathFile \in after[2].nodes
  <2>1. Head(a.queue) = a.queue[1]
    BY <1>11, <1>12
  <2>2. Graph!PathFile \in b.nodes
    BY <1>9, <1>10, <1>13, <1>14, <2>1
  <2> QED
    BY <2>2
<1>15. ASSUME i = 2
       PROVE  Graph!PathFile \in after[3].nodes
  <2> HIDE DEF a, b, c
  <2>1. /\ Len(Tail(a.queue)) \in Nat /\ 1 \in 1..Len(Tail(a.queue)) /\ Tail(a.queue)[1] = a.queue[2]
    BY <1>9, <1>11, <1>12, <1>15 DEF a
  <2>2. b.queue \in Seq(Nodes(g, root) \X Nat) /\ Len(b.queue) \in Nat
    BY <1>1, <1>13, Numbers DEF States
  <2>3. Begins(Tail(a.queue), b.queue)
    BY <1>13 DEF VisitKept
  <2>4. 1 \in 1..Len(b.queue) /\ b.queue[1][1] = Graph!PathFile
    BY <1>9, <1>15, <2>1, <2>2, <2>3 DEF Begins, a
  <2>5. b.queue # <<>> /\ Head(b.queue)[1] = Graph!PathFile
    BY <2>2, <2>4
  <2>6. ~Stopped(b)
    BY <1>13, <2>5 DEF Stopped
  <2>7. c = Graph!Visit(g, o, root, b)
    BY <1>7, <2>6 DEF Visited, b, c
  <2>8. Graph!PathFile \in c.nodes
    BY <1>1, <1>10, <1>13, <2>5, <2>6, <2>7, NotFullYet
  <2> QED
    BY <2>8 DEF c
<1>16. Graph!PathFile \in after[2].nodes \/ Graph!PathFile \in after[3].nodes
  BY <1>9, <1>14, <1>15
<1>17. ASSUME NEW n \in 1..N
       PROVE  after[n - 1].nodes \subseteq after[n].nodes
  <2>1. n - 1 \in 0..N
    BY <1>2, <1>17
  <2>2. Whole(g, root, o, after[n - 1]) /\ after[n] = Visited(g, o, root, after[n - 1])
    BY <1>5, <1>6, <2>1
  <2>3. CASE Stopped(after[n - 1])
    BY <2>2, <2>3 DEF Visited
  <2>4. CASE ~Stopped(after[n - 1])
    <3>1. VisitKept(g, root, o, after[n - 1], Graph!Visit(g, o, root, after[n - 1]))
      BY <1>1, <2>2, <2>4, VisitedKeeps
    <3> QED
      BY <2>2, <2>4, <3>1 DEF Visited, VisitKept
  <2> QED
    BY <2>3, <2>4
<1>18. Graph!PathFile \in after[3].nodes
  <2>1. after[2].nodes \subseteq after[3].nodes
    <3>1. 3 \in 1..N /\ 3 - 1 = 2
      BY <1>2
    <3>2. after[3 - 1].nodes \subseteq after[3].nodes
      BY <1>17, <3>1
    <3> QED
      BY <3>1, <3>2
  <2> QED
    BY <1>16, <2>1
<1>19. \A n \in 0..N : n \in {k \in 0..N : k >= 3 => Graph!PathFile \in after[k].nodes}
  <2> DEFINE T == {k \in 0..N : k >= 3 => Graph!PathFile \in after[k].nodes}
  <2>1. 0 \in T
    BY <1>7
  <2>2. ASSUME NEW n \in 1..N, n - 1 \in T
        PROVE  n \in T
    <3>1. n \in 0..N /\ n \in Nat
      BY <1>2, <2>2
    <3>2. CASE n = 3
      BY <1>18, <3>1, <3>2
    <3>3. CASE n # 3
      <4>1. n >= 3 => n - 1 >= 3
        BY <3>1, <3>3
      <4>2. n >= 3 => Graph!PathFile \in after[n - 1].nodes
        BY <2>2, <4>1
      <4>3. after[n - 1].nodes \subseteq after[n].nodes
        BY <1>17, <2>2
      <4> QED
        BY <3>1, <4>2, <4>3
    <3> QED
      BY <3>2, <3>3
  <2>3. \A n \in 1..N : n - 1 \in T => n \in T
    BY <2>2
  <2>4. \A n \in 0..N : n \in T
    <3> HIDE DEF T
    <3> QED BY <1>2, <2>1, <2>3, UpTo
  <2> QED
    BY <2>4
<1>20. Graph!PathFile \in after[N].nodes
  BY <1>2, <1>19
<1> QED
  BY <1>6, <1>20 DEF g

\* Every bound a traversal is given is such a bound,
LEMMA OptionsAre ==
  ASSUME NEW s \in Works \cup {None}
  PROVE  /\ \A p \in Options : [p EXCEPT !.scope = s] \in Bounds
         /\ [Default EXCEPT !.scope = s] \in Bounds /\ Wide([Default EXCEPT !.scope = s], s)
<1>1. Options \subseteq Bounds /\ Default \in Options
  <2>1. Default \in Bounds
    BY DEF Default, Bounds
  <2>2. [Default EXCEPT !.depth = 2, !.bytes = 8] \in Bounds
    <3>1. \A p \in Bounds : \A d \in Nat, b \in Nat \ {0} : [p EXCEPT !.depth = d, !.bytes = b] \in Bounds
      BY DEF Bounds
    <3>2. 2 \in Nat /\ 8 \in Nat \ {0}
      OBVIOUS
    <3> QED
      BY <2>1, <3>1, <3>2
  <2>3. [Default EXCEPT !.edges = 5, !.messages = 0] \in Bounds
    BY <2>1 DEF Bounds
  <2> QED
    BY <2>1, <2>2, <2>3 DEF Options
<1>2. \A p \in Bounds : [p EXCEPT !.scope = s] \in Bounds
  BY DEF Bounds
<1>3. Wide([Default EXCEPT !.scope = s], s)
  BY DEF Default, Wide
<1> QED
  BY <1>1, <1>2, <1>3

\* so what a traversal of the graph of the records has is as promised.
LEMMA ContextKept ==
  ASSUME GraphInv
  PROVE  ContextIsOwn
<1> DEFINE g == Graph!Graph(order, records, present)
<1>1. order \in Graph!SetToSeqs(Works) /\ records \in SUBSET Graph!Refreshed
  BY DEF GraphInv, Graph!TypeOK
<1>2. \A graph \in Graph!Graphs : graph = g
  BY DEF Graph!Graphs, Graph!Current
<1>3. IsGraph(g)
  BY <1>1, GraphIs
<1>4. Graph!TraversalIsExact(Options)
  <2>1. ASSUME NEW w \in Works, NEW p \in Options, NEW s \in {None, w}
        PROVE  Exact(g, Graph!WorkNode(w), [p EXCEPT !.scope = s])
    <3>1. [p EXCEPT !.scope = s] \in Bounds
      BY OptionsAre
    <3>2. Graph!WorkNode(w)[1] # "message"
      BY DEF Graph!WorkNode
    <3> HIDE DEF g
    <3> QED
      BY <1>3, <3>1, <3>2, TraverseIsExact
  <2> HIDE DEF g
  <2>2. \A w \in Works : \A o \in {[p EXCEPT !.scope = s] : p \in Options, s \in {None, w}} :
            Exact(g, Graph!WorkNode(w), o)
    <3> DEFINE h(p, s) == [p EXCEPT !.scope = s]
    <3>1. ASSUME NEW w \in Works, NEW p \in Options, NEW s \in {None, w}
          PROVE  Exact(g, Graph!WorkNode(w), h(p, s))
      BY <2>1
    <3> HIDE DEF h
    <3>2. ASSUME NEW w \in Works, NEW o \in {h(p, s) : p \in Options, s \in {None, w}}
          PROVE  Exact(g, Graph!WorkNode(w), o)
      <4>1. PICK p \in Options, s \in {None, w} : o = h(p, s)
        OBVIOUS
      <4> QED
        BY <3>1, <4>1
    <3>3. \A w \in Works : \A o \in {h(p, s) : p \in Options, s \in {None, w}} :
             Exact(g, Graph!WorkNode(w), o)
      BY <3>2
    <3> QED
      BY <3>3 DEF h
  <2> QED
    BY <1>2, <2>2, SameCount DEF Graph!TraversalIsExact, Exact
<1>5. Graph!UnrelatedStaysOut(Default)
  <2>1. ASSUME NEW w \in Works
        PROVE  \A n \in Graph!Traverse(g, Graph!WorkNode(w), [Default EXCEPT !.scope = w]).nodes :
                  Own(records, w, n)
    <3> DEFINE o == [Default EXCEPT !.scope = w]
    <3>1. o \in Bounds /\ o.scope = w /\ o.depth = 3
      BY OptionsAre DEF Wide
    <3> HIDE DEF o
    <3>2. \A n \in Graph!Traverse(g, Graph!WorkNode(w), o).nodes : Own(records, w, n)
      BY <1>1, <3>1, KeepsToTheWork
    <3> QED
      BY <3>2 DEF o
  <2>2. \A w, c : c \in Conversations /\ Joins(records, c, w) => c \in Graph!About(w)
    BY DEF Joins, Graph!About
  <2> HIDE DEF g
  <2> QED
    BY <1>2, <2>1, <2>2 DEF Graph!UnrelatedStaysOut, Own
<1>6. Graph!OwnFilesAreFound(Default)
  <2>1. ASSUME NEW r \in records, r.kind = "file",
               \A w \in Works \ {r.work} : Graph!Artifact("file", w) \notin records
        PROVE  Graph!PathFile
                  \in Graph!Traverse(g, Graph!WorkNode(r.work), [Default EXCEPT !.scope = r.work]).nodes
    <3> DEFINE w == r.work
               o == [Default EXCEPT !.scope = w]
    <3>1. w \in Works /\ Graph!Artifact("file", w) \in records
      BY <1>1, <2>1, RecordIs
    <3>2. o \in Bounds /\ Wide(o, w)
      BY <3>1, OptionsAre
    <3>3. \A v \in Works \ {w} : Graph!Artifact("file", v) \notin records
      BY <2>1
    <3> HIDE DEF w, o
    <3>4. Graph!PathFile \in Graph!Traverse(g, Graph!WorkNode(w), o).nodes
      BY <1>1, <3>1, <3>2, <3>3, FileIsFound
    <3> QED
      BY <3>4 DEF w, o
  <2> HIDE DEF g
  <2> QED
    BY <1>2, <2>1 DEF Graph!OwnFilesAreFound
<1> QED
  BY <1>4, <1>5, <1>6 DEF ContextIsOwn

\* ContextIsOwn: a traversal of the context graph has what is near, joined to its root by
\* edges it has, or says that it was cut; the context of a Work has no other Work, no
\* record of one and no message of a conversation the Work has nothing to do with, and
\* it has the file the Work attached, unless another Work attached the same path.
THEOREM ContextIsKept == LibrarySpec => []ContextIsOwn
<1>1. Start => GraphInv
  BY GraphInit DEF Start
<1>2. GraphInv /\ [Step]_library => GraphInv'
  BY GraphStep, GraphStutters DEF Step, library, graphVars
<1> QED
  BY <1>1, <1>2, ContextKept, PTL DEF LibrarySpec
=============================================================================
