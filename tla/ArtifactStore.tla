---------------------------- MODULE ArtifactStore ----------------------------
(***************************************************************************)
(* The artifact store shared by the workers (FSStore: one file per content *)
(* digest), the references to it in Redis, and the garbage collector that  *)
(* an operator runs (artifact_gc.gc).  A file is "old" when its mtime is   *)
(* older than the collector's min_age; the collector fixes its cutoff when *)
(* it starts, so files do not grow old under a running one.                *)
(***************************************************************************)
EXTENDS Naturals, Sequences, FiniteSets

CONSTANTS
    Contents,           \* what a document can contain
    Jobs

Kinds    == <<"text", "chunks">>        \* in the order of put and of SCAN
Digests  == Contents \X {"text", "chunks"}
Keys     == Jobs \X {"text", "chunks"}
NoDigest == <<"none", "none">>

ASSUME StoreAssumption == NoDigest \notin Digests

VARIABLES
    file,               \* per digest: "none", "fresh" or "old"
    ref,                \* Redis: orchestrator:job:{id}:text and :chunks
    reused,             \* ghost: keys whose put met a file that was old
    gc,                 \* what the collector is at
    patterns,           \* the key patterns it has scanned
    live,               \* the digests it found referenced
    orphans             \* the files it is going to remove

gcVars == <<gc, patterns, live, orphans>>
storeVars == <<file, ref, reused, gcVars>>

StoreInit ==
    /\ file = [d \in Digests |-> "none"]
    /\ ref = [k \in Keys |-> NoDigest]
    /\ reused = {}
    /\ gc = "idle" /\ patterns = {} /\ live = {} /\ orphans = {}

---------------------------------------------------------------------------
(* FSStore.                                                                *)

(* put: an existing file is left as it is, its mtime included.             *)
PutArtifact(d) == file' = [file EXCEPT ![d] = IF @ = "none" THEN "fresh" ELSE @]

(* SET of the key that names the artifact.                                 *)
SetRef(k, d, old) ==
    /\ ref' = [ref EXCEPT ![k] = d]
    /\ reused' = IF old THEN reused \cup {k} ELSE reused \ {k}

(* resolve: None when the artifact is missing.                             *)
Resolves(k) == ref[k] # NoDigest /\ file[ref[k]] # "none"

(* The keys of a job go: deleted by DeleteJob or expired by their TTL.     *)
DropRefs(j) ==
    /\ ref' = [k \in Keys |-> IF k[1] = j THEN NoDigest ELSE ref[k]]
    /\ reused' = {k \in reused : k[1] # j}

---------------------------------------------------------------------------
(* artifact_gc.gc.                                                         *)

GcStarts ==
    /\ gc = "idle"
    /\ gc' = "collect"
    /\ patterns' = {} /\ live' = {} /\ orphans' = {}
    /\ UNCHANGED <<file, ref, reused>>

(* collect_live_refs: one key pattern, its GETs in one pipeline.           *)
GcCollects(kind) ==
    /\ gc = "collect"
    /\ kind \notin patterns
    /\ kind = "chunks" => "text" \in patterns
    /\ patterns' = patterns \cup {kind}
    /\ live' = live \cup ({ref[k] : k \in {x \in Keys : x[2] = kind}} \ {NoDigest})
    /\ UNCHANGED <<file, ref, reused, gc, orphans>>

(* Mutant: the minimum age is not looked at.                               *)
GcScansAll ==
    /\ gc = "collect" /\ patterns = {"text", "chunks"}
    /\ gc' = "delete"
    /\ orphans' = {d \in Digests : file[d] # "none" /\ d \notin live}
    /\ UNCHANGED <<file, ref, reused, patterns, live>>

(* scan_store; the orphans that are older than the cutoff are eligible.    *)
GcScans ==
    /\ gc = "collect" /\ patterns = {"text", "chunks"}
    /\ gc' = "delete"
    /\ orphans' = {d \in Digests : file[d] = "old" /\ d \notin live}
    /\ UNCHANGED <<file, ref, reused, patterns, live>>

GcDeletes(d) ==
    /\ gc = "delete"
    /\ d \in orphans
    /\ orphans' = orphans \ {d}
    /\ file' = [file EXCEPT ![d] = "none"]
    /\ UNCHANGED <<ref, reused, gc, patterns, live>>

(* All orphans removed, or a dry run.                                      *)
GcEnds ==
    /\ gc = "delete"
    /\ gc' = "idle"
    /\ patterns' = {} /\ live' = {} /\ orphans' = {}
    /\ UNCHANGED <<file, ref, reused>>

GcNext ==
    \/ GcStarts \/ GcScans \/ GcEnds
    \/ \E kind \in {"text", "chunks"} : GcCollects(kind)
    \/ \E d \in Digests : GcDeletes(d)

(* More than min_age goes by.                                              *)
FilesAge ==
    /\ gc = "idle"
    /\ file' = [d \in Digests |-> IF file[d] = "fresh" THEN "old" ELSE file[d]]
    /\ UNCHANGED <<ref, reused, gcVars>>

StoreTypeOK ==
    /\ file \in [Digests -> {"none", "fresh", "old"}]
    /\ ref \in [Keys -> Digests \cup {NoDigest}]
    /\ reused \subseteq Keys
    /\ gc \in {"idle", "collect", "delete"}
    /\ patterns \subseteq {"text", "chunks"}
    /\ live \subseteq Digests /\ orphans \subseteq Digests
=============================================================================
