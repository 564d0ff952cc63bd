----------------------------- MODULE ImageCache -----------------------------
(***************************************************************************)
(* The images of the fabricated pages: handleImage serves an image from    *)
(* the store on disk or has one generated, stores it and serves it;        *)
(* ImageStore writes a file of its own beside the final one and renames    *)
(* it. Requests for the same prompt are not coordinated: several of them   *)
(* may miss, generate and store at the same time. The process may stop     *)
(* between any two steps; the disk keeps what it has.                      *)
(***************************************************************************)
EXTENDS Naturals, FiniteSets

CONSTANTS
    Requests,       \* requests in progress at the same time
    Hashes,         \* hashes of the prompts
    Images,         \* generated images: complete byte sequences
    Formats,        \* Images -> the format its magic bytes show
    None,           \* no file
    MaxTrouble      \* bound: failures of the disk, and crashes

ASSUME FormatsAssumption == Formats \in [Images -> {"png", "jpeg", "webp", "unknown"}]
ASSUME TroubleAssumption == MaxTrouble \in Nat

VARIABLES
    at,         \* request -> where its handler is, or the status it answered
    hash,       \* request -> the hash of its prompt; None: a path refused
    data,       \* request -> the bytes it holds
    final,      \* hash -> the file under its final name
    tmp,        \* request -> its temporary file
    orphans,    \* temporary files nobody will remove: <<hash, content>>
    browser,    \* <<hash, bytes, content type>> served, kept for ever
    trouble,    \* failures of the disk and crashes so far
    litter      \* history: a crash or a failed removal left a file behind

disk == <<final, tmp, orphans>>
vars == <<at, hash, data, final, tmp, orphans, browser, trouble, litter>>

\* A file whose writing was cut short.
Partial == "partial"

Contents == Images \cup {Partial}

\* Images are told from what is not one.
ASSUME ContentsAssumption == None \notin Contents /\ Partial \notin Images

Statuses == {"200", "400", "414", "500", "502"}

Places == {"idle", "get", "generate", "mkdir", "writing", "rename", "serve"} \cup Statuses

TypeOK ==
    /\ at \in [Requests -> Places]
    /\ hash \in [Requests -> Hashes \cup {None}]
    /\ data \in [Requests -> Contents \cup {None}]
    /\ final \in [Hashes -> Contents \cup {None}]
    /\ tmp \in [Requests -> Contents \cup {None}]
    /\ orphans \subseteq Hashes \X Contents
    /\ browser \subseteq Hashes \X Contents \X {"image/png", "image/jpeg", "image/webp"}
    /\ trouble \in 0 .. MaxTrouble
    /\ litter \in BOOLEAN

Init ==
    /\ at = [r \in Requests |-> "idle"]
    /\ hash = [r \in Requests |-> None]
    /\ data = [r \in Requests |-> None]
    /\ final = [h \in Hashes |-> None]
    /\ tmp = [r \in Requests |-> None]
    /\ orphans = {}
    /\ browser = {}
    /\ trouble = 0
    /\ litter = FALSE

GoTo(r, place) == at' = [at EXCEPT ![r] = place]

Trouble == trouble < MaxTrouble /\ trouble' = trouble + 1

SniffImageMime(bytes) ==
    CASE bytes \in Images /\ Formats[bytes] = "jpeg" -> "image/jpeg"
      [] bytes \in Images /\ Formats[bytes] = "webp" -> "image/webp"
      [] OTHER                                       -> "image/png"

WriteImage(r, bytes) ==
    /\ browser' = browser \cup {<<hash[r], bytes, SniffImageMime(bytes)>>}
    /\ GoTo(r, "200")

-----------------------------------------------------------------------------
(* handleImage *)

\* A path that is too long, one that gives no prompt, or a prompt.
Arrive(r) ==
    /\ at[r] = "idle"
    /\ \/ GoTo(r, "414") /\ UNCHANGED hash
       \/ GoTo(r, "400") /\ UNCHANGED hash
       \/ \E h \in Hashes : GoTo(r, "get") /\ hash' = [hash EXCEPT ![r] = h]
    /\ UNCHANGED <<data, disk, browser, trouble, litter>>

\* Variants: a missing file is served like any other; the store is not asked.
GetUnchecked(r) ==
    /\ at[r] = "get"
    /\ WriteImage(r, final[hash[r]])
    /\ UNCHANGED <<hash, data, disk, trouble, litter>>

GetNothing(r) ==
    /\ at[r] = "get"
    /\ GoTo(r, "generate")
    /\ UNCHANGED <<hash, data, disk, browser, trouble, litter>>

\* ImageStore.Get: the file under its final name, if there is one.
Get(r) ==
    /\ at[r] = "get"
    /\ IF final[hash[r]] # None
       THEN WriteImage(r, final[hash[r]])
       ELSE GoTo(r, "generate") /\ UNCHANGED browser
    /\ UNCHANGED <<hash, data, disk, trouble, litter>>

GetFails(r) ==
    /\ at[r] = "get"
    /\ Trouble
    /\ GoTo(r, "500")
    /\ UNCHANGED <<hash, data, disk, browser, litter>>

\* The model answers with some image, or not at all within a minute.
Generate(r) ==
    /\ at[r] = "generate"
    /\ \/ \E i \in Images : data' = [data EXCEPT ![r] = i] /\ GoTo(r, "mkdir")
       \/ GoTo(r, "502") /\ UNCHANGED data
    /\ UNCHANGED <<hash, disk, browser, trouble, litter>>

\* The error of a Put is logged; the bytes are served all the same.
Serve(r) ==
    /\ at[r] = "serve"
    /\ WriteImage(r, data[r])
    /\ UNCHANGED <<hash, data, disk, trouble, litter>>

Finish(r) ==
    /\ at[r] \in Statuses
    /\ GoTo(r, "idle")
    /\ hash' = [hash EXCEPT ![r] = None]
    /\ data' = [data EXCEPT ![r] = None]
    /\ UNCHANGED <<disk, browser, trouble, litter>>

-----------------------------------------------------------------------------
(* ImageStore.Put *)

\* Variant: the bytes are written under the final name.
OpenFinal(r) ==
    /\ at[r] = "mkdir"
    /\ final' = [final EXCEPT ![hash[r]] = Partial]
    /\ tmp' = [tmp EXCEPT ![r] = Partial]
    /\ GoTo(r, "writing")
    /\ UNCHANGED <<hash, data, orphans, browser, trouble, litter>>

\* Variant: one temporary name for each hash, taken like a lock.
OpenTmpLocked(r) ==
    /\ at[r] = "mkdir"
    /\ ~ \E o \in orphans : o[1] = hash[r]
    /\ tmp' = [tmp EXCEPT ![r] = Partial]
    /\ GoTo(r, "writing")
    /\ UNCHANGED <<hash, data, final, orphans, browser, trouble, litter>>

\* The shard directory is there, the temporary file is created under a random
\* name of its own and being written.
OpenTmp(r) ==
    /\ at[r] = "mkdir"
    /\ tmp' = [tmp EXCEPT ![r] = Partial]
    /\ GoTo(r, "writing")
    /\ UNCHANGED <<hash, data, final, orphans, browser, trouble, litter>>

MkdirFails(r) ==
    /\ at[r] = "mkdir"
    /\ Trouble
    /\ GoTo(r, "serve")
    /\ UNCHANGED <<hash, data, disk, browser, litter>>

WriteTmp(r) ==
    /\ at[r] = "writing"
    /\ tmp' = [tmp EXCEPT ![r] = data[r]]
    /\ GoTo(r, "rename")
    /\ UNCHANGED <<hash, data, final, orphans, browser, trouble, litter>>

Rename(r) ==
    /\ at[r] = "rename"
    /\ final' = [final EXCEPT ![hash[r]] = tmp[r]]
    /\ tmp' = [tmp EXCEPT ![r] = None]
    /\ GoTo(r, "serve")
    /\ UNCHANGED <<hash, data, orphans, browser, trouble, litter>>

\* Variant: the temporary file stays when its writing fails.
PutFailsUntidily(r) ==
    /\ at[r] \in {"writing", "rename"}
    /\ Trouble
    /\ tmp' = [tmp EXCEPT ![r] = None]
    /\ orphans' = orphans \cup {<<hash[r], tmp[r]>>}
    /\ GoTo(r, "serve")
    /\ UNCHANGED <<hash, data, final, browser, litter>>

\* The writing or the renaming fails; the temporary file is removed, and the
\* removal, whose error is ignored, may fail as well.
PutFails(r) ==
    /\ at[r] \in {"writing", "rename"}
    /\ Trouble
    /\ tmp' = [tmp EXCEPT ![r] = None]
    /\ \/ UNCHANGED <<orphans, litter>>
       \/ orphans' = orphans \cup {<<hash[r], tmp[r]>>} /\ litter' = TRUE
    /\ GoTo(r, "serve")
    /\ UNCHANGED <<hash, data, final, browser>>

\* The process stops and starts again. Requests are gone, files are not.
Crash ==
    /\ Trouble
    /\ orphans' = orphans \cup {<<hash[r], tmp[r]>> : r \in {s \in Requests : tmp[s] # None}}
    /\ litter' = (litter \/ \E r \in Requests : tmp[r] # None)
    /\ at' = [r \in Requests |-> "idle"]
    /\ hash' = [r \in Requests |-> None]
    /\ data' = [r \in Requests |-> None]
    /\ tmp' = [r \in Requests |-> None]
    /\ UNCHANGED <<final, browser>>

-----------------------------------------------------------------------------
HandlerStep(r) == Get(r) \/ Generate(r) \/ OpenTmp(r) \/ WriteTmp(r) \/ Rename(r) \/ Serve(r)

Next == \/ \E r \in Requests :
              \/ Arrive(r)
              \/ HandlerStep(r)
              \/ GetFails(r)
              \/ MkdirFails(r)
              \/ PutFails(r)
              \/ Finish(r)
        \/ Crash

Spec == Init /\ [][Next]_vars

\* Handlers that run keep running; the call of the model has a timeout.
FairSpec == Spec /\ \A r \in Requests : WF_vars(HandlerStep(r))

-----------------------------------------------------------------------------
(* Properties *)

\* A browser never keeps half an image for a year, although readers do not
\* wait for writers and a writer may fail or stop in the middle
\* (ImageStore.Put: "The write is atomic").
OnlyWholeImages ==
    /\ \A h \in Hashes : final[h] # Partial
    /\ \A served \in browser : served[2] \in Images

\* A file left behind is the work of a crash or of a removal that failed, never
\* of a handler that ended (the cleanups of Put).
NoLitterWithoutCause == orphans # {} => litter

InFlight(h) == {r \in Requests : hash[r] = h /\ at[r] \in {"generate", "mkdir", "writing", "rename"}}

\* Only requests that missed before an image was stored can replace it: once
\* it is stored and they have ended, it stays, whoever asks for it, across
\* crashes too. So all later visitors see the same image.
StoredImageStays ==
    [][\A h \in Hashes : final[h] # None /\ InFlight(h) = {}
          => final'[h] = final[h] /\ InFlight(h)' = {}]_vars

\* Every request is answered, unless the process stops.
Answered ==
    \A r \in Requests : at[r] = "get" ~> at[r] \in Statuses \cup {"idle"}

\* The claim of llm.Client.Image on its caller: "the caller always serves them
\* as image/png".
AlwaysServedAsPNG ==
    \A served \in browser : served[3] = "image/png"
=============================================================================
