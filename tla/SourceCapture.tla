------------------------------ MODULE SourceCapture ------------------------------
(***************************************************************************)
(* How the content of a source directory is taken while somebody works in  *)
(* it.  createImmutableLocalSnapshot (scripts/immutable-local-snapshot.mjs)*)
(* walks the tree twice, copies in the first walk and compares content and *)
(* metadata; captureImmutableLocalIdentity does the same without a copy.   *)
(* The server's resolver (apps/server/src/local-acquisition.ts) walks it   *)
(* three times, copies in the second walk and compares the content of the  *)
(* first and the third.                                                    *)
(*                                                                         *)
(* A file is read between two looks at its metadata and refused when they  *)
(* differ, so reading one entry is one step.  Limits, unsafe names and     *)
(* types, input/output errors: any call may fail at any step.  A version   *)
(* stands for the metadata a walk records; every change gives a new one.   *)
(***************************************************************************)
EXTENDS Naturals, Sequences, FiniteSets

CONSTANTS
    EntryNames,  \* entries of the directory
    EntryContents,
    MaxChanges,  \* bound: changes of the source
    MaxCalls     \* bound: captures

VARIABLES
    protocol,  \* "snapshot", "identity" or "resolver"
    source,    \* the entries: content and version (ctime)
    root,      \* version of the directory: entries added and removed
    pc,        \* "idle", "walk", "freeze", "manifest"
    todo,      \* entries the walk has still to read
    walks,     \* the walks so far, the last one under way
    opened,    \* sourceInitial: the directory's version when it was opened
    seen,      \* history: what the source held since the capture began
    store,     \* snapshots published: tree, manifest, and history
    changes, calls

vars == <<protocol, source, root, pc, todo, walks, opened, seen, store, changes, calls>>

Content(entries) == [n \in DOMAIN entries |-> entries[n].content]
Empty == << >>     \* no entries read yet
Last == walks[Len(walks)]

Walks == IF protocol = "resolver" THEN 3 ELSE 2
\* The walk that copies, or that the identity is made of.
Copied == walks[IF protocol = "resolver" THEN 2 ELSE 1]

\* Mutant of Unchanged: only the directory is looked at again.
UnchangedRoot == root = opened

\* canonicalJson(captured) of two walks with their metadata; the digests of two captureSourceState.
Unchanged ==
    IF protocol = "resolver"
    THEN Content(walks[1]) = Content(walks[3])
    ELSE walks[1] = walks[2] /\ root = opened

\* The destination is a fixed name for a snapshot and the manifest's digest for the resolver.
Exists ==
    IF protocol = "resolver" THEN \E s \in store : s.tree = Content(Copied)
                             ELSE store # {}

Init ==
    /\ protocol \in {"snapshot", "identity", "resolver"}
    /\ source \in [EntryNames -> [content : EntryContents, version : {0}]]
    /\ root = 0 /\ opened = 0
    /\ pc = "idle" /\ todo = {} /\ walks = <<>>
    /\ seen = {} /\ store = {}
    /\ changes = 0 /\ calls = 0

Working == <<protocol, source, root, changes>>

Begin ==
    /\ pc = "idle" /\ calls < MaxCalls
    /\ calls' = calls + 1
    /\ pc' = "walk" /\ walks' = <<Empty>> /\ todo' = DOMAIN source
    /\ opened' = root /\ seen' = {Content(source)}
    /\ UNCHANGED <<Working, store>>

Stop == pc' = "idle" /\ todo' = {} /\ walks' = <<>> /\ seen' = {} /\ opened' = 0

\* lstat of a listed name, or the entry's content.
Read(n) ==
    /\ pc = "walk" /\ n \in todo
    /\ IF n \in DOMAIN source
         THEN /\ walks' = [walks EXCEPT ![Len(walks)] =
                             [m \in DOMAIN @ \cup {n} |->
                                IF m = n THEN source[n] ELSE @[m]]]
              /\ todo' = todo \ {n}
              /\ UNCHANGED <<pc, seen, opened>>
         ELSE Stop
    /\ UNCHANGED <<Working, store, calls>>

NextWalk ==
    /\ pc = "walk" /\ todo = {} /\ Len(walks) < Walks
    /\ walks' = Append(walks, Empty) /\ todo' = DOMAIN source
    /\ UNCHANGED <<Working, pc, seen, opened, store, calls>>

Compare ==
    /\ pc = "walk" /\ todo = {} /\ Len(walks) = Walks
    /\ IF Unchanged
         THEN /\ pc' = "freeze" /\ UNCHANGED <<todo, walks, seen, opened>>
         ELSE Stop
    /\ UNCHANGED <<Working, store, calls>>

Snapshot == [tree |-> Content(Copied), manifest |-> FALSE, by |-> calls,
             instants |-> seen, protocol |-> protocol]

\* The tree is renamed to its place: refused when something is there.  An identity is a
\* result, not a directory.
Publish ==
    /\ pc = "freeze"
    /\ IF protocol # "identity" /\ Exists
         THEN Stop /\ UNCHANGED store
         ELSE /\ store' = store \cup {[Snapshot EXCEPT !.manifest = protocol # "snapshot"]}
              /\ IF protocol = "snapshot"
                   THEN pc' = "manifest" /\ UNCHANGED <<todo, walks, seen, opened>>
                   ELSE Stop
    /\ UNCHANGED <<Working, calls>>

\* The manifest follows in a rename of its own, after which the tree stays.
PublishManifest ==
    /\ pc = "manifest"
    /\ store' = {IF s.by = calls THEN [s EXCEPT !.manifest = TRUE] ELSE s : s \in store}
    /\ Stop
    /\ UNCHANGED <<Working, calls>>

\* Any refusal or error.  When the manifest cannot be renamed the tree is removed again,
\* unless the removal of the read-only tree throws too.
Fail ==
    /\ pc # "idle"
    /\ store' \in {store} \cup IF pc = "manifest" THEN {{s \in store : s.by # calls}} ELSE {}
    /\ Stop
    /\ UNCHANGED <<Working, calls>>

Crash ==
    /\ pc # "idle" /\ Stop
    /\ UNCHANGED <<Working, store, calls>>

\* Somebody writes, adds or removes an entry.
Change ==
    /\ pc = "walk" /\ changes < MaxChanges
    /\ changes' = changes + 1
    /\ \E n \in EntryNames :
        \/ \E c \in EntryContents :
             /\ source' = [m \in DOMAIN source \cup {n} |->
                             IF m = n THEN [content |-> c, version |-> changes'] ELSE source[m]]
             /\ root' = IF n \in DOMAIN source THEN root ELSE changes'
        \/ /\ n \in DOMAIN source
           /\ source' = [m \in DOMAIN source \ {n} |-> source[m]]
           /\ root' = changes'
    /\ seen' = seen \cup {Content(source')}
    /\ UNCHANGED <<protocol, pc, todo, walks, opened, store, calls>>

Next ==
    \/ Begin \/ (\E n \in EntryNames : Read(n)) \/ NextWalk \/ Compare \/ Publish
    \/ PublishManifest \/ Fail \/ Crash \/ Change

Spec == Init /\ [][Next]_vars

-----------------------------------------------------------------------------
\* A snapshot or an identity is what the source held at one instant of the
\* capture, however the source changes meanwhile; what the resolver publishes is
\* made of contents that each entry had at some instant (inspectTree twice and
\* their comparison; captureSourceState around captureWorkingManifest).
SnapshotIsAnInstant ==
    \A s \in store :
        IF s.protocol = "resolver"
        THEN \A n \in DOMAIN s.tree :
                \E i \in s.instants : n \in DOMAIN i /\ i[n] = s.tree[n]
        ELSE s.tree \in s.instants
=============================================================================
