--------------------------------- MODULE Suite ---------------------------------
(***************************************************************************)
(* suite.py: a release is frozen into a directory as three files, one      *)
(* after the other, and loaded by whoever finds them there. The lines of   *)
(* items.jsonl and envs.jsonl are those of the variable release, in order; *)
(* of a file being written, some lines and a part of the next can be seen. *)
(***************************************************************************)
EXTENDS Naturals, Sequences, FiniteSets, SequencesExt, FiniteSetsExt, Functions

CONSTANTS
    None,
    Torn    \* a manifest that is not JSON

File == [lines : Nat, torn : BOOLEAN]

ASSUME SuiteAssumption ==
    /\ None # Torn
    /\ {None, Torn} \cap (File \cup [items : File, envs : File]) = {}

VARIABLES
    release,    \* what is frozen: None, or its items [id, env] and envs
    writer,     \* the step of write_suite, "off" before, "done" after
                \* it, or "killed"
    items,      \* items.jsonl: None, or [lines, torn]
    envs,       \* envs.jsonl, likewise
    manifest,   \* manifest.json: None, Torn, or the checksums it has
    loader      \* load_suite: where it is and what it has read

files == <<items, envs, manifest>>
suiteVars == <<release, writer, files, loader>>

Empty == [lines |-> 0, torn |-> FALSE]
Sha == [items |-> items, envs |-> envs]

SuiteInit ==
    /\ release = None
    /\ writer = "off"
    /\ items = None /\ envs = None /\ manifest = None
    /\ loader = [pc |-> "off", items |-> None, envs |-> None, sha |-> None,
                 filtered |-> FALSE]

-----------------------------------------------------------------------------
(* write_suite *)

\* More of a file whose n lines are being written reaches the disk.
Grown(file, n) ==
    {[lines |-> k, torn |-> b] : k \in file.lines..n, b \in BOOLEAN} \
    ({file} \cup {[lines |-> n, torn |-> TRUE]})
Whole(n) == [lines |-> n, torn |-> FALSE]

\* Mutant of Ordered: the environments are written first.
OrderedEnvsFirst == <<"envs", "items", "manifest">>

Ordered == <<"items", "envs", "manifest">>

After(step) ==
    LET x == CHOOSE x \in 1..3 : Ordered[x] = step
    IN  IF x = 3 THEN "done" ELSE Ordered[x + 1]

WriteItems ==
    /\ writer = "items"
    /\ \/ items = None /\ items' = Empty /\ UNCHANGED writer
       \/ items # None /\ items' \in Grown(items, Len(release.items)) /\ UNCHANGED writer
       \/ items # None /\ items' = Whole(Len(release.items)) /\ writer' = After("items")
    /\ UNCHANGED <<release, envs, manifest, loader>>

WriteEnvs ==
    /\ writer = "envs"
    /\ \/ envs = None /\ envs' = Empty /\ UNCHANGED writer
       \/ envs # None /\ envs' \in Grown(envs, Len(release.envs)) /\ UNCHANGED writer
       \/ envs # None /\ envs' = Whole(Len(release.envs)) /\ writer' = After("envs")
    /\ UNCHANGED <<release, items, manifest, loader>>

WriteManifest ==
    /\ writer = "manifest"
    /\ \/ manifest = None /\ manifest' = Torn /\ UNCHANGED writer
       \/ manifest = Torn /\ manifest' = Sha /\ writer' = After("manifest")
    /\ UNCHANGED <<release, items, envs, loader>>

-----------------------------------------------------------------------------
(* load_suite and Suite.filter *)

ReadItems ==
    /\ loader.pc = "off"
    /\ items # None /\ envs # None      \* else no suite directory
    /\ loader' = IF items.torn THEN [loader EXCEPT !.pc = "refused"]
                 ELSE [loader EXCEPT !.pc = "envs",
                                     !.items = SubSeq(release.items, 1, items.lines)]
    /\ UNCHANGED <<release, writer, files>>

ReadEnvs ==
    /\ loader.pc = "envs"
    /\ loader' = IF envs.torn THEN [loader EXCEPT !.pc = "refused"]
                 ELSE [loader EXCEPT !.pc = "manifest",
                                     !.envs = ToSet(SubSeq(release.envs, 1, envs.lines))]
    /\ UNCHANGED <<release, writer, files>>

\* What the manifest says of the files agrees with them, and what it counts
\* with what was read.
Verified ==
    /\ manifest = Sha
    /\ Len(loader.items) = Len(release.items)
    /\ Cardinality(loader.envs) = Len(release.envs)

Referenced(l) == \A x \in DOMAIN l.items : l.items[x].env \in l.envs

\* The manifest is read, the files checked and the checksum taken from either.
ReadManifest ==
    /\ loader.pc = "manifest"
    /\ loader' = IF (manifest # None /\ ~Verified) \/ ~Referenced(loader)
                 THEN [loader EXCEPT !.pc = "refused"]
                 ELSE [loader EXCEPT !.pc = "loaded", !.sha = Sha]
    /\ UNCHANGED <<release, writer, files>>

\* A narrowed view, by a number of items or by environments; items keep the
\* places they have in the release.
Filter ==
    /\ loader.pc = "loaded"
    /\ ~loader.filtered
    /\ \E kept \in {1..n : n \in 0..Len(loader.items)} \cup
                   {{x \in DOMAIN loader.items : loader.items[x].env = e} : e \in loader.envs} :
          loader' = [loader EXCEPT !.items = Restrict(@, kept), !.filtered = TRUE,
                        !.envs = {loader.items[x].env : x \in kept} \cap @]
    /\ UNCHANGED <<release, writer, files>>

\* A load that failed is tried again.
Retry ==
    /\ loader.pc = "refused"
    /\ loader' = [pc |-> "off", items |-> None, envs |-> None, sha |-> None,
                  filtered |-> FALSE]
    /\ UNCHANGED <<release, writer, files>>

SuiteNext ==
    \/ WriteItems \/ WriteEnvs \/ WriteManifest
    \/ ReadItems \/ ReadEnvs \/ ReadManifest \/ Filter \/ Retry

-----------------------------------------------------------------------------
(* "Loading verifies it, because a suite edited after the fact silently     *)
(* invalidates every stored result": while a new directory is being written *)
(* and after the writer was killed anywhere, with or without a manifest,    *)
(* what load_suite accepts is the whole release under the checksum the      *)
(* whole release has; what is less than it is marked as filtered; and every *)
(* item comes with its environment.                                         *)
LoadedIsWhole ==
    loader.pc = "loaded" =>
       /\ loader.sha = [items |-> Whole(Len(release.items)), envs |-> Whole(Len(release.envs))]
       /\ ~loader.filtered => /\ loader.items = release.items
                              /\ loader.envs = ToSet(release.envs)
       /\ \A x \in DOMAIN loader.items : loader.items[x].env \in loader.envs
=============================================================================
