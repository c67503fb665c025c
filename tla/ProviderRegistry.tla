--------------------------- MODULE ProviderRegistry ---------------------------
(***************************************************************************)
(* Provider profiles, the recipients that refer to them and the keys kept   *)
(* for them in the Keychain: the store's calls                              *)
(* (crates/combe-state/src/work_feltdb.rs) as the window's dialogs          *)
(* (crates/combe/src/window.rs) and the commands combe provider and combe   *)
(* recipient (cli.rs) string them together.                                 *)
(*                                                                          *)
(* A dialog or a command reads records, then writes them in calls of their  *)
(* own; others run in between.  A call that fails ends what it is part of.  *)
(***************************************************************************)
EXTENDS FiniteSets

CONSTANTS
    Profiles, Recipients,  \* identifiers; each is given out once
    Window, Commands,      \* the application, and processes of the command line
    None

VARIABLES
    profiles, recipients,  \* the stored records
    keys,    \* profiles whose reference openai/<id> has a key
    job,     \* what each process is in
    gone,    \* identifiers of deleted records
    raced,   \* a recipient was put in while its profile was being deleted
    torn     \* profiles a job on which ended between the record and the key, whose key
             \* a command changed, or whose edit an older copy overwrote

vars == <<profiles, recipients, keys, job, gone, raced, torn>>
store == <<profiles, recipients>>

Procs == {Window} \cup Commands
Creds == {"none", "own", "other"}   \* credential_ref: openai/<id>, or any other
Profile(cred, enabled) == [cred |-> cred, enabled |-> enabled]
Recipient(f, enabled)  == [profile |-> f, enabled |-> enabled]

\* op, the next call, the records it is about, the copy it works on, the recipients
\* still to be deleted; whether the version it read is still the record's.
Job(op, at, f, r) ==
    [op |-> op, at |-> at, f |-> f, r |-> r, copy |-> None, deps |-> {}, current |-> FALSE]

Init ==
    /\ profiles = [f \in Profiles |-> None]
    /\ recipients = [r \in Recipients |-> None]
    /\ keys = {} /\ gone = {} /\ torn = {}
    /\ job = [p \in Procs |-> None]
    /\ raced = FALSE

Stored(f)  == f # None /\ profiles[f] # None
Exists(r)  == r # None /\ recipients[r] # None
Taken(id)  == id \in gone \/ \E p \in Procs : job[p] # None /\ id \in {job[p].f, job[p].r}
Dependents(f) == {r \in Recipients : Exists(r) /\ recipients[r].profile = f}

Go(p, next)   == job' = [job EXCEPT ![p] = next]
Step(p, at)   == Go(p, [job[p] EXCEPT !.at = at])
At(p, at)     == job[p] # None /\ job[p].at = at

\* A record that is written has another version from then on.
Wrote(p, next, id) ==
    job' = [q \in Procs |-> IF q = p THEN next
                            ELSE IF job[q] = None \/ id \notin {job[q].f, job[q].r} THEN job[q]
                            ELSE [job[q] EXCEPT !.current = FALSE]]

-----------------------------------------------------------------------------
(* What a dialog or a command begins with. *)

Idle(p) == job[p] = None

\* create_provider_and_recipient: the key first.
NewProvider(f, r) ==
    /\ Idle(Window) /\ ~Stored(f) /\ ~Taken(f) /\ ~Exists(r) /\ ~Taken(r)
    /\ \/ /\ keys' = keys \cup {f}
          /\ Go(Window, [Job("new", "create", f, r) EXCEPT !.copy = Profile("own", TRUE)])
       \/ /\ UNCHANGED keys
          /\ Go(Window, [Job("new", "create", f, r) EXCEPT !.copy = Profile("none", TRUE)])
    /\ UNCHANGED <<store, gone, raced, torn>>

\* provider create
NewProfile(p, f, cred) ==
    /\ p \in Commands /\ Idle(p) /\ ~Stored(f) /\ ~Taken(f) /\ cred # "own"
    /\ Go(p, [Job("new", "create", f, None) EXCEPT !.copy = Profile(cred, TRUE)])
    /\ UNCHANGED <<store, keys, gone, raced, torn>>

\* edit_provider, with or without a new key.
EditProvider(f, withKey) ==
    /\ Idle(Window) /\ Stored(f)
    /\ LET cred == IF withKey /\ profiles[f].cred = "none" THEN "own" ELSE profiles[f].cred
       IN Go(Window, [Job("edit", IF withKey /\ cred = "own" THEN "set_key" ELSE "version", f, None)
                        EXCEPT !.copy = [profiles[f] EXCEPT !.cred = cred]])
    /\ UNCHANGED <<store, keys, gone, raced, torn>>

\* manage_provider: Disable, Enable; provider enable, disable.
ToggleProvider(p, f) ==
    /\ Idle(p) /\ Stored(f)
    /\ Go(p, [Job("edit", "version", f, None) EXCEPT !.copy = [profiles[f] EXCEPT !.enabled = ~@]])
    /\ UNCHANGED <<store, keys, gone, raced, torn>>

\* delete_provider_in_ui: the recipients that were named, then the profile; a command
\* deletes the profile only.
DeleteProvider(p, f) ==
    /\ Idle(p) /\ Stored(f)
    /\ LET deps == IF p = Window THEN Dependents(f) ELSE {}
       IN Go(p, [Job("delete", IF deps = {} THEN "list" ELSE "next", f, None)
                    EXCEPT !.deps = deps, !.copy = profiles[f]])
    /\ UNCHANGED <<store, keys, gone, raced, torn>>

\* create_recipient_for_profile; recipient create.
NewRecipient(p, r, f) ==
    /\ Idle(p) /\ ~Exists(r) /\ ~Taken(r) /\ Stored(f)
    /\ Go(p, Job("recipient", "validate", f, r))
    /\ UNCHANGED <<store, keys, gone, raced, torn>>

ToggleRecipient(p, r) ==
    /\ Idle(p) /\ Exists(r)
    /\ Go(p, [Job("toggle", "validate", recipients[r].profile, r)
                EXCEPT !.copy = [recipients[r] EXCEPT !.enabled = ~@]])
    /\ UNCHANGED <<store, keys, gone, raced, torn>>

\* manage_recipient: Delete Recipient; recipient delete.
DeleteRecipient(p, r) ==
    /\ Idle(p) /\ Exists(r)
    /\ Go(p, Job("drop", "delete_recipient", None, r))
    /\ UNCHANGED <<store, keys, gone, raced, torn>>

\* provider credential-set, credential-delete.
KeyCommand(f) ==
    /\ keys' = IF f \in keys THEN keys \ {f} ELSE keys \cup {f}
    /\ torn' = torn \cup {f}
    /\ UNCHANGED <<store, job, gone, raced>>

-----------------------------------------------------------------------------
(* The calls. *)

SetKey(p) ==
    /\ At(p, "set_key")
    /\ keys' = keys \cup {job[p].f}
    /\ Step(p, "version")
    /\ UNCHANGED <<store, gone, raced, torn>>

CreateProfile(p) ==
    /\ At(p, "create")
    /\ profiles' = [profiles EXCEPT ![job[p].f] = job[p].copy]
    /\ IF job[p].r = None THEN Go(p, None) ELSE Step(p, "validate")
    /\ UNCHANGED <<recipients, keys, gone, raced, torn>>

\* update_profile, update_recipient: the version that is read is the one expected.
ReadVersion(p) ==
    /\ At(p, "version")
    /\ IF job[p].r = None THEN Stored(job[p].f) ELSE Exists(job[p].r)
    /\ Go(p, [job[p] EXCEPT !.at = "commit", !.current = TRUE])
    /\ UNCHANGED <<store, keys, gone, raced, torn>>

AtVersion(p) == job[p].current

\* A command's enable or disable writes the copy it began with, and with it a reference
\* the window has meanwhile replaced.
Overwrites(p) ==
    p # Window /\ Stored(job[p].f) /\ job[p].copy.cred # profiles[job[p].f].cred

CommitProfile(p) ==
    /\ At(p, "commit") /\ job[p].r = None /\ AtVersion(p)
    /\ profiles' = [profiles EXCEPT ![job[p].f] = job[p].copy]
    /\ torn' = IF Overwrites(p) THEN torn \cup {job[p].f} ELSE torn
    /\ Wrote(p, None, job[p].f)
    /\ UNCHANGED <<recipients, keys, gone, raced>>

CommitRecipient(p) ==
    /\ At(p, "commit") /\ job[p].r # None /\ AtVersion(p)
    /\ recipients' = [recipients EXCEPT ![job[p].r] = job[p].copy]
    /\ Wrote(p, None, job[p].r)
    /\ UNCHANGED <<profiles, keys, gone, raced, torn>>

\* validate_recipient
Validate(p) ==
    /\ At(p, "validate") /\ Stored(job[p].f)
    /\ Step(p, IF job[p].op = "toggle" THEN "version" ELSE "insert")
    /\ UNCHANGED <<store, keys, gone, raced, torn>>

\* A profile is being deleted once its recipients were listed.
Deleting(f) == \E p \in Procs : job[p] # None /\ job[p].f = f /\ job[p].at \in {"get", "delete"}
Inserting(f) == \E p \in Procs : job[p] # None /\ job[p].f = f /\ job[p].at = "insert"

InsertRecipient(p) ==
    /\ At(p, "insert")
    /\ recipients' = [recipients EXCEPT ![job[p].r] = Recipient(job[p].f, TRUE)]
    /\ raced' = (raced \/ Deleting(job[p].f))
    /\ Go(p, None)
    /\ UNCHANGED <<profiles, keys, gone, torn>>

\* delete_provider_in_ui: the next of the recipients.
NextDependent(p, r) ==
    /\ At(p, "next") /\ r \in job[p].deps
    /\ Go(p, [job[p] EXCEPT !.at = "delete_recipient", !.r = r])
    /\ UNCHANGED <<store, keys, gone, raced, torn>>

\* delete_recipient: one that is gone ends the job.
RemoveRecipient(p) ==
    /\ At(p, "delete_recipient") /\ Exists(job[p].r)
    /\ recipients' = [recipients EXCEPT ![job[p].r] = None]
    /\ gone' = gone \cup {job[p].r}
    /\ LET left == job[p].deps \ {job[p].r}
       IN Wrote(p, IF job[p].op = "drop" THEN None
                   ELSE [job[p] EXCEPT !.deps = left, !.r = None,
                                       !.at = IF left = {} THEN "list" ELSE "next"], job[p].r)
    /\ UNCHANGED <<profiles, keys, raced, torn>>

Unused(f) == Dependents(f) = {}

\* delete_profile
ListRecipients(p) ==
    /\ At(p, "list") /\ Unused(job[p].f)
    /\ Step(p, "get")
    /\ UNCHANGED <<store, keys, gone, raced, torn>>

GetProfile(p) ==
    /\ At(p, "get") /\ Stored(job[p].f)
    /\ Step(p, "delete")
    /\ UNCHANGED <<store, keys, gone, raced, torn>>

RemoveProfile(p) ==
    /\ At(p, "delete")
    /\ profiles' = [profiles EXCEPT ![job[p].f] = None]
    /\ gone' = gone \cup {job[p].f}
    /\ raced' = (raced \/ Inserting(job[p].f))
    /\ torn' = IF p = Window THEN torn ELSE torn \cup {job[p].f}
    /\ Wrote(p, IF p = Window THEN [job[p] EXCEPT !.at = "delete_key"] ELSE None, job[p].f)
    /\ UNCHANGED <<recipients, keys>>

DeleteKey(p) ==
    /\ At(p, "delete_key")
    /\ keys' = IF job[p].copy.cred = "own" THEN keys \ {job[p].f} ELSE keys
    /\ Go(p, None)
    /\ UNCHANGED <<store, gone, raced, torn>>

\* MUTANT of Undone: the key stays.
UndoneNot(p) == keys

\* A failed creation takes its key away again.
Undone(p) ==
    IF job[p].op = "new" /\ job[p].copy.cred = "own" THEN keys \ {job[p].f} ELSE keys

\* Whether the record and the key may differ when the job ends here.
Half(p) ==
    \/ job[p].op = "new" /\ job[p].at \in {"validate", "insert"}
    \/ job[p].op = "edit" /\ job[p].at \in {"version", "commit"} /\ p = Window
    \/ job[p].at = "delete_key"

\* A call finds what it does not expect, or cannot be made; the job ends.
Refuse(p) ==
    /\ job[p] # None
    /\ keys' = Undone(p)
    /\ torn' = IF Half(p) THEN torn \cup {job[p].f} ELSE torn
    /\ Go(p, None)
    /\ UNCHANGED <<store, gone, raced>>

\* The process ends.
Crash(p) ==
    /\ job[p] # None
    /\ torn' = IF Half(p) \/ job[p].op = "new" THEN torn \cup {job[p].f} ELSE torn
    /\ Go(p, None)
    /\ UNCHANGED <<store, keys, gone, raced>>

Next ==
    \/ \E f \in Profiles :
        \/ \E r \in Recipients : NewProvider(f, r)
        \/ \E withKey \in BOOLEAN : EditProvider(f, withKey)
        \/ KeyCommand(f)
        \/ \E p \in Procs :
            \/ \E cred \in Creds : NewProfile(p, f, cred)
            \/ ToggleProvider(p, f) \/ DeleteProvider(p, f)
            \/ \E r \in Recipients : NewRecipient(p, r, f)
    \/ \E p \in Procs :
        \/ \E r \in Recipients : ToggleRecipient(p, r) \/ DeleteRecipient(p, r) \/ NextDependent(p, r)
        \/ SetKey(p) \/ CreateProfile(p) \/ ReadVersion(p) \/ CommitProfile(p) \/ CommitRecipient(p)
        \/ Validate(p) \/ InsertRecipient(p) \/ RemoveRecipient(p)
        \/ ListRecipients(p) \/ GetProfile(p) \/ RemoveProfile(p) \/ DeleteKey(p)
        \/ Refuse(p) \/ Crash(p)

Spec == Init /\ [][Next]_vars

-----------------------------------------------------------------------------
(* Properties *)

ProfileRecord   == [cred: Creds, enabled: BOOLEAN]
RecipientRecord == [profile: Profiles, enabled: BOOLEAN]
Jobs == [op: {"new", "edit", "recipient", "toggle", "drop", "delete"},
         at: {"create", "validate", "insert", "set_key", "version", "commit", "next",
              "delete_recipient", "list", "get", "delete", "delete_key"},
         f: Profiles \cup {None}, r: Recipients \cup {None},
         copy: ProfileRecord \cup RecipientRecord \cup {None},
         deps: SUBSET Recipients, current: BOOLEAN]

\* Every variable has its type.
TypeOK ==
    /\ profiles \in [Profiles -> ProfileRecord \cup {None}]
    /\ recipients \in [Recipients -> RecipientRecord \cup {None}]
    /\ job \in [Procs -> Jobs \cup {None}]
    /\ keys \subseteq Profiles /\ torn \subseteq Profiles
    /\ gone \subseteq Profiles \cup Recipients /\ raced \in BOOLEAN

\* "Each Recipient references exactly one Provider profile" (docs/DESIGN.md:87): the
\* profile of every recipient is stored.
RecipientsHaveProfiles ==
    \A r \in Recipients : Exists(r) => Stored(recipients[r].profile)

\* They are, unless a recipient was made while its profile was being deleted: each
\* call looks, then writes, and neither sees the other.
ProfilesGoUnusedUnlessRaced == RecipientsHaveProfiles \/ raced

\* An update that was begun before a record was deleted does not bring it back.
DeletedStaysDeleted == \A id \in gone : ~(id \in Profiles /\ Stored(id)) /\ ~(id \in Recipients /\ Exists(id))

\* While no dialog is open, the Keychain has the key of a profile exactly if its
\* record says so: one that could not be created leaves none behind, and deleting a
\* provider in the window "removes the provider configuration and its Keychain
\* credential" (window.rs:3447).  Left out are the profiles whose key a command set or
\* deleted, those a command deleted, those to which a command wrote back an older copy
\* than the window's edit, and those on which a call failed between the two.
KeysFollowProfiles ==
    job[Window] = None =>
        \A f \in Profiles \ torn : f \in keys <=> Stored(f) /\ profiles[f].cred = "own"
=============================================================================
