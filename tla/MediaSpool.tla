----------------------------- MODULE MediaSpool -----------------------------
(***************************************************************************)
(* Media transfers staged on disk: SendMedia and PostStatusMedia encrypt   *)
(* the caller's chunks into an unnamed file and hand it to the library's   *)
(* CDN upload; DownloadMedia lets the library decrypt into such a file and *)
(* streams it back.  All files share one byte budget, an atomic counter.   *)
(* A call's future may be dropped at any await (the client went away); the *)
(* blocking thread an upload waits for then runs on by itself, and so may  *)
(* a thread of the library that was given the file.                        *)
(***************************************************************************)
EXTENDS Integers, Sequences, FiniteSets, Functions

CONSTANTS
  Upload, Download,   \* the calls, each made at most once
  Casts,              \* the sets of calls that are in flight together
  SpoolMaxes,         \* media_spool_max_bytes to try, 0 = unlimited
  MediaMax,           \* media_max_bytes
  Block, Mac,         \* the cipher's block (16) and MAC (10)
  CIPHERTEXT_OVERHEAD,
  CHUNK_SIZE,         \* of a download's frames
  Depth,              \* of a download's channel
  U64Max              \* where the counter saturates and wraps

Transfer == Upload \cup Download

ASSUME SizesAssumption ==
  /\ MediaMax \in Nat /\ Block \in Nat \ {0} /\ Mac \in Nat /\ U64Max \in Nat
  /\ CIPHERTEXT_OVERHEAD = Block + Mac
  /\ SpoolMaxes \subseteq Nat
  /\ Upload \cap Download = {}
  /\ Casts \subseteq SUBSET Transfer

VARIABLES
  cast,         \* the calls of this behaviour, settled
  max_bytes,    \* SpoolBudget, settled
  held,         \* SpoolBudget
  at,           \* where each call is
  reserved,     \* SpoolReservation of each call, 0 when it has none
  disk,         \* bytes of the call's file, 0 when nobody has it open
  size,         \* upload: plaintext so far; download: limit of BoundedFile
  task,         \* upload: the blocking task: none, write, seal, ok, err
  header,       \* upload: what converting it (quote included) will say, settled
  readers,      \* upload: CDN attempts, each <<from, offset, first byte read>>
  position,     \* download: of BoundedFile
  chan, got,    \* download: frames in the channel, and received
  offset,       \* download: of stream_spooled, -1 before the meta frame
  gone,         \* calls whose client went away
  library       \* dropped calls whose file a thread of the library has

vars == <<cast, max_bytes, held, at, reserved, disk, size, task, header, readers,
          position, chan, got, offset, gone, library>>
upVars == <<task, header, readers>>
downVars == <<position, chan, got, offset>>

Init ==
  /\ cast \in Casts /\ max_bytes \in SpoolMaxes /\ held = 0
  /\ at = [t \in Transfer |-> "new"]
  /\ reserved = [t \in Transfer |-> 0] /\ disk = [t \in Transfer |-> 0]
  /\ size = [t \in Transfer |-> 0]
  /\ task = [u \in Upload |-> "none"]
  /\ header \in {[u \in Upload |-> IF u \in bad THEN "bad" ELSE "good"] :
                  bad \in {b \in SUBSET (Upload \cap cast) : Cardinality(b) <= 1}}
  /\ readers = [u \in Upload |-> {}]
  /\ position = [d \in Download |-> 0] /\ offset = [d \in Download |-> -1]
  /\ chan = [d \in Download |-> <<>>] /\ got = [d \in Download |-> <<>>]
  /\ gone = {} /\ library = {}

-----------------------------------------------------------------------------
(* budget.rs *)

saturating_add(a, b) == IF a + b > U64Max THEN U64Max ELSE a + b

Fits(bytes) == max_bytes = 0 \/ saturating_add(held, bytes) <= max_bytes

(* claim, try_reserve, try_grow: one compare and swap.                     *)
Claim(t, bytes) ==
  /\ Fits(bytes)
  /\ held' = saturating_add(held, bytes)
  /\ reserved' = [reserved EXCEPT ![t] = @ + bytes]

(* Mutant: the counter keeps the bytes. *)
KeepsBytes(t) == held' = held /\ reserved' = [reserved EXCEPT ![t] = 0]

(* Drop of the reservation; fetch_sub wraps.                               *)
Release(t) ==
  /\ held' = (held - reserved[t]) % (U64Max + 1)
  /\ reserved' = [reserved EXCEPT ![t] = 0]

Detached(t) == t \in Upload /\ task[t] \in {"write", "seal"}

To(t, place) == at' = [at EXCEPT ![t] = place]

(* A call ends: its locals are dropped, the file among them unless a       *)
(* blocking task has it.                                                   *)
Ends(t, how) ==
  /\ To(t, how)
  /\ Release(t)
  /\ disk' = [disk EXCEPT ![t] = IF Detached(t) THEN @ ELSE 0]

-----------------------------------------------------------------------------
(* media_stream.rs and upload.rs *)

(* read_header, the account, the kind, then begin_upload: any of them may  *)
(* refuse.  The reservation starts empty.                                  *)
begin_upload(u) ==
  /\ at[u] = "new" /\ u \in cast
  /\ \/ To(u, "stream") /\ Claim(u, 0)
     \/ To(u, "refused") /\ UNCHANGED <<held, reserved>>
  /\ UNCHANGED <<cast, max_bytes, disk, size, gone, library, upVars, downVars>>

shortfall(u, needed) == IF needed > reserved[u] THEN needed - reserved[u] ELSE 0

(* push: the budget is asked for the plaintext so far, then the stage goes *)
(* to a blocking task.                                                     *)
push(u, n) ==
  /\ size' = [size EXCEPT ![u] = @ + n]
  /\ IF Fits(shortfall(u, size[u] + n))
     THEN /\ Claim(u, shortfall(u, size[u] + n))
          /\ task' = [task EXCEPT ![u] = "write"] /\ To(u, "push")
          /\ UNCHANGED disk
     ELSE Ends(u, "refused") /\ UNCHANGED task

(* finish: what padding and MAC may add is reserved first.                 *)
finish(u) ==
  /\ IF Fits(shortfall(u, size[u] + CIPHERTEXT_OVERHEAD))
     THEN /\ Claim(u, shortfall(u, size[u] + CIPHERTEXT_OVERHEAD))
          /\ task' = [task EXCEPT ![u] = "seal"] /\ To(u, "finish")
          /\ UNCHANGED disk
     ELSE Ends(u, "refused") /\ UNCHANGED task
  /\ UNCHANGED size

(* One frame of stage_upload: bytes, a second header, an error, the end.   *)
(* A frame with no part is skipped.                                        *)
stage_upload(u) ==
  /\ at[u] = "stream"
  /\ \/ \E n \in 0 .. MediaMax + 1 :
          IF size[u] + n > MediaMax THEN Ends(u, "refused") /\ UNCHANGED <<size, task>>
          ELSE push(u, n)
     \/ Ends(u, "refused") /\ UNCHANGED <<size, task>>
     \/ finish(u)
  /\ UNCHANGED <<cast, max_bytes, header, readers, gone, library, downVars>>

(* The blocking task.  The encryptor writes whole blocks as it gets them,  *)
(* and at the end the padded last block and the MAC.  An error drops the   *)
(* file in the task; what it returns is dropped when nobody waits for it.  *)
Blocks(bytes) == bytes - (bytes % Block)

TaskEnds(u, len, how) ==
  /\ task' = [task EXCEPT ![u] = how]
  /\ disk' = [disk EXCEPT ![u] = len]
  /\ UNCHANGED <<cast, max_bytes, held, at, reserved, size, header, readers, gone, library, downVars>>

run_blocking(u) ==
  \/ /\ task[u] = "write"
     /\ TaskEnds(u, Blocks(size[u]), "ok") \/ TaskEnds(u, 0, "err")
  \/ /\ task[u] = "seal"
     /\ TaskEnds(u, Blocks(size[u]) + Block + Mac, "ok") \/ TaskEnds(u, 0, "err")
  \/ /\ task[u] \in {"ok", "err"} /\ u \in gone
     /\ TaskEnds(u, 0, "none")

(* The rest of the header converts, and the quote of a SendMedia decodes.  *)
HeaderConverts(u) == header[u] = "good"

(* The awaits in push and finish return; then the rest of the header is    *)
(* converted and the quote checked, before the CDN sees a byte.            *)
Resume(u) ==
  /\ at[u] \in {"push", "finish"} /\ task[u] \in {"ok", "err"}
  /\ task' = [task EXCEPT ![u] = "none"]
  /\ IF task[u] = "err" THEN Ends(u, "failed")
     ELSE IF at[u] = "finish" /\ ~HeaderConverts(u) THEN Ends(u, "refused")
     ELSE /\ To(u, IF at[u] = "push" THEN "stream" ELSE "cdn")
          /\ UNCHANGED <<held, reserved, disk>>
  /\ UNCHANGED <<cast, max_bytes, size, header, readers, gone, library, downVars>>

(* ciphertext.rs: an attempt of the library asks for a reader at an        *)
(* offset, the start or where the server resumes; every reader has a       *)
(* position of its own.  A read is short or takes the rest.                *)

reader_from(u, from) == <<from, from, -1>>

OpenReader(u) ==
  /\ at[u] = "cdn" /\ Cardinality(readers[u]) < 2
  /\ \E from \in {0, size[u]} :
       readers' = [readers EXCEPT ![u] = @ \cup {reader_from(u, from)}]
  /\ UNCHANGED <<cast, max_bytes, held, at, reserved, disk, size, task, header, gone, library, downVars>>

ReadAt(u) ==
  /\ at[u] = "cdn" \/ u \in library
  /\ \E r \in readers[u] :
       /\ r[2] < disk[u]
       /\ \E n \in {1, disk[u] - r[2]} :
            readers' = [readers EXCEPT ![u] =
              (@ \ {r}) \cup {<<r[1], r[2] + n, IF r[3] = -1 THEN r[2] ELSE r[3]>>}]
  /\ UNCHANGED <<cast, max_bytes, held, at, reserved, disk, size, task, header, gone, library, downVars>>

(* upload_staged: the reservation is held until the upload ends; then the  *)
(* message goes out.                                                       *)
upload_staged(u) ==
  /\ at[u] = "cdn"
  /\ Ends(u, "send") \/ Ends(u, "failed")
  /\ readers' = [readers EXCEPT ![u] = {}]
  /\ UNCHANGED <<cast, max_bytes, size, task, header, gone, library, downVars>>

send_message(u) ==
  /\ at[u] = "send"
  /\ To(u, "done") \/ To(u, "failed")
  /\ UNCHANGED <<cast, max_bytes, held, reserved, disk, size, gone, library, upVars, downVars>>

-----------------------------------------------------------------------------
(* media_transfer.rs and download.rs *)

(* The size limit, then the budget; a descriptor with no length reserves   *)
(* the most a download may be.  The file is made by a blocking task.       *)
download(d) ==
  /\ at[d] = "new" /\ d \in cast
  /\ \E file_length \in 0 .. MediaMax + 1 :
       LET reserve == IF file_length = 0 THEN MediaMax ELSE file_length
       IN IF file_length > MediaMax \/ ~Fits(reserve)
          THEN To(d, "refused") /\ UNCHANGED <<held, reserved, size>>
          ELSE /\ Claim(d, reserve) /\ size' = [size EXCEPT ![d] = reserve]
               /\ To(d, "create")
  /\ UNCHANGED <<cast, max_bytes, disk, gone, library, upVars, downVars>>

(* The file exists or not; then the descriptor is checked.                 *)
begin_download(d) ==
  /\ at[d] = "create"
  /\ \/ To(d, "fetch") /\ UNCHANGED <<held, reserved, disk>>
     \/ Ends(d, "failed")
  /\ UNCHANGED <<cast, max_bytes, size, gone, library, upVars, downVars>>

(* BoundedFile: a write past the limit is refused, a short one advances by *)
(* what was written.                                                       *)
write(d) ==
  /\ at[d] = "fetch" \/ d \in library
  /\ \E n \in 1 .. MediaMax + 1 :
       /\ position[d] + n <= size[d]
       /\ \E written \in 1 .. n :
            /\ position' = [position EXCEPT ![d] = @ + written]
            /\ disk' = [disk EXCEPT ![d] = IF position[d] + written > @ THEN position[d] + written ELSE @]
  /\ UNCHANGED <<cast, max_bytes, held, at, reserved, size, gone, library, chan, got, offset, upVars>>

(* The library starts over: seek to 0 and truncate.                        *)
seek(d) ==
  /\ (at[d] = "fetch" \/ d \in library) /\ position[d] > 0
  /\ position' = [position EXCEPT ![d] = 0] /\ disk' = [disk EXCEPT ![d] = 0]
  /\ UNCHANGED <<cast, max_bytes, held, at, reserved, size, gone, library, chan, got, offset, upVars>>

(* download_to_writer returns: verified and sealed, or not.  A refused     *)
(* write is one way it fails.                                              *)
seal(d) ==
  /\ at[d] = "fetch"
  /\ \/ To(d, "serve") /\ UNCHANGED <<held, reserved, disk>>
     \/ Ends(d, "failed")
  /\ UNCHANGED <<cast, max_bytes, size, gone, library, upVars, downVars>>

(* stream_spooled: the meta frame, then one frame per chunk; a failed read *)
(* sends its error and ends.                                               *)
NextFrame(d) ==
  IF offset[d] = -1 THEN {<<"meta", disk[d]>>}
  ELSE {<<"chunk", IF disk[d] - offset[d] < CHUNK_SIZE THEN disk[d] - offset[d] ELSE CHUNK_SIZE>>,
        <<"error", 0>>}

(* Mutant: the end of the client is not noticed. *)
StreamsOn(d) ==
  /\ at[d] = "serve"
  /\ \/ /\ offset[d] >= disk[d]
        /\ Ends(d, "done") /\ UNCHANGED <<chan, offset>>
     \/ /\ offset[d] < disk[d] /\ Len(chan[d]) < Depth
        /\ \E frame \in NextFrame(d) :
             /\ chan' = [chan EXCEPT ![d] = Append(@, frame)]
             /\ offset' = [offset EXCEPT ![d] = IF @ = -1 THEN 0 ELSE @ + CHUNK_SIZE]
             /\ IF frame[1] = "error" THEN Ends(d, "done")
                ELSE UNCHANGED <<held, at, reserved, disk>>
  /\ UNCHANGED <<cast, max_bytes, size, gone, library, position, got, upVars>>

stream_spooled(d) ==
  /\ at[d] = "serve"
  /\ \/ /\ offset[d] >= disk[d] \/ d \in gone
        /\ Ends(d, "done") /\ UNCHANGED <<chan, offset>>
     \/ /\ offset[d] < disk[d] /\ d \notin gone /\ Len(chan[d]) < Depth
        /\ \E frame \in NextFrame(d) :
             /\ chan' = [chan EXCEPT ![d] = Append(@, frame)]
             /\ offset' = [offset EXCEPT ![d] = IF @ = -1 THEN 0 ELSE @ + CHUNK_SIZE]
             /\ IF frame[1] = "error" THEN Ends(d, "done")
                ELSE UNCHANGED <<held, at, reserved, disk>>
  /\ UNCHANGED <<cast, max_bytes, size, gone, library, position, got, upVars>>

(* The client takes a frame.                                               *)
Receive(d) ==
  /\ chan[d] # <<>> /\ d \notin gone
  /\ got' = [got EXCEPT ![d] = Append(@, Head(chan[d]))]
  /\ chan' = [chan EXCEPT ![d] = Tail(@)]
  /\ UNCHANGED <<cast, max_bytes, held, at, reserved, disk, size, gone, library, position, offset, upVars>>

-----------------------------------------------------------------------------
(* The client goes away.  A call in its handler is dropped where it awaits *)
(* (an upload's blocking task keeps the file); a download being served     *)
(* runs in a task of its own and finds out at its next send.  The writer   *)
(* of a fetch, or a reader of an upload, has moved into the library: it is *)
(* dropped with the call, or a thread that nobody waits for has it.        *)
Leave(t) ==
  /\ t \notin gone /\ at[t] \notin {"new", "refused", "failed"}
  /\ at[t] = "done" => t \in Download
  /\ gone' = gone \cup {t}
  /\ IF at[t] \in {"serve", "done"} THEN UNCHANGED <<held, at, reserved, disk, readers, library>>
     ELSE /\ To(t, "failed") /\ Release(t)
          /\ library' \in {library} \cup
               IF at[t] \in {"fetch", "cdn"} THEN {library \cup {t}} ELSE {}
          /\ disk' = [disk EXCEPT ![t] = IF Detached(t) \/ t \in library' THEN @ ELSE 0]
          /\ readers' = [u \in Upload |-> IF u = t /\ t \notin library' THEN {} ELSE readers[u]]
  /\ task' = [u \in Upload |-> IF u = t /\ ~Detached(u) THEN "none" ELSE task[u]]
  /\ UNCHANGED <<cast, max_bytes, size, header, downVars>>

(* The library's thread is done with the file, if it ever is.              *)
LibraryEnds(t) ==
  /\ t \in library /\ library' = library \ {t}
  /\ disk' = [disk EXCEPT ![t] = 0]
  /\ readers' = [u \in Upload |-> IF u = t THEN {} ELSE readers[u]]
  /\ UNCHANGED <<cast, max_bytes, held, at, reserved, size, task, header, gone, downVars>>

UploadNext(u) ==
  \/ begin_upload(u) \/ stage_upload(u) \/ run_blocking(u) \/ Resume(u)
  \/ OpenReader(u) \/ ReadAt(u) \/ upload_staged(u) \/ send_message(u)

DownloadNext(d) ==
  \/ download(d) \/ begin_download(d) \/ write(d) \/ seek(d) \/ seal(d)
  \/ stream_spooled(d) \/ Receive(d)

Next ==
  \/ \E u \in Upload : UploadNext(u)
  \/ \E d \in Download : DownloadNext(d)
  \/ \E t \in Transfer : Leave(t) \/ LibraryEnds(t)

(* The blocking threads of this code finish, and the spawned stream is     *)
(* scheduled; of the library's threads nothing is assumed.                 *)
Spec ==
  /\ Init /\ [][Next]_vars
  /\ \A u \in Upload : WF_vars(run_blocking(u)) /\ WF_vars(Resume(u))
  /\ \A d \in Download : WF_vars(stream_spooled(d))

-----------------------------------------------------------------------------
Places == {"new", "refused", "failed", "done", "stream", "push", "finish", "cdn",
           "send", "create", "fetch", "serve"}

TypeOK ==
  /\ cast \in Casts /\ max_bytes \in SpoolMaxes /\ held \in 0 .. U64Max
  /\ at \in [Transfer -> Places]
  /\ reserved \in [Transfer -> Nat] /\ disk \in [Transfer -> Nat] /\ size \in [Transfer -> 0 .. MediaMax]
  /\ task \in [Upload -> {"none", "write", "seal", "ok", "err"}]
  /\ header \in [Upload -> {"good", "bad"}]
  /\ \A d \in Download : position[d] \in 0 .. MediaMax /\ Len(chan[d]) <= Depth
  /\ gone \subseteq Transfer /\ library \subseteq gone

(* The counter is the sum of the reservations alive, whatever way each     *)
(* transfer before ended, so nothing is refused that would fit and the     *)
(* transfers together never hold more than media_spool_max_bytes.          *)
Accounted ==
  max_bytes # 0 =>
    /\ held = FoldFunction(LAMBDA a, b : a + b, 0, reserved)
    /\ held <= max_bytes

(* A transfer's file never outgrows its own reservation: neither between   *)
(* push and the padding, nor when the CDN sends more than the descriptor   *)
(* said, nor over a retried fetch.  The one exception is a file that       *)
(* outlives its dropped call, in the upload's blocking task or in a thread *)
(* of the library, and it keeps to the size limit.                         *)
Orphaned(t) == t \in library \/ (t \in Upload \cap gone /\ task[t] # "none")

Covered ==
  \A t \in Transfer :
    \/ disk[t] <= reserved[t]
    \/ Orphaned(t) /\ disk[t] <= MediaMax + CIPHERTEXT_OVERHEAD

(* Every attempt of the CDN upload starts at the byte the server asked     *)
(* for, also when an earlier attempt stopped half way.                     *)
AttemptsStartRight == \A u \in Upload : \A r \in readers[u] : r[3] \in {-1, r[1]}

(* The CDN sees bytes, and a message goes out, only for a call whose       *)
(* header and quote were found good and whose whole stream was within the  *)
(* limit; and the CDN upload reads a finished file.                        *)
CheckedBeforeCdn ==
  \A u \in Upload : at[u] \in {"cdn", "send"} =>
    /\ header[u] = "good"
    /\ size[u] <= MediaMax
    /\ at[u] = "cdn" => disk[u] > size[u] + Mac /\ task[u] = "none"

(* What a client has received of a download is the meta frame, then the    *)
(* file from its start in full chunks but the last, and after an error     *)
(* nothing; a stream that ended without one carried the whole file.        *)
Bytes(frames) == FoldFunction(LAMBDA f, n : f[2] + n, 0, SelectSeq(frames, LAMBDA f : f[1] = "chunk"))

Streamed ==
  \A d \in Download :
    LET all == got[d] \o chan[d]
    IN all # <<>> =>
      /\ at[d] \in {"serve", "done"} /\ all[1][1] = "meta"
      /\ \A i \in 2 .. Len(all) : all[i][1] # "meta"
      /\ \A i \in 1 .. Len(all) - 1 : all[i][1] # "error"
      /\ (at[d] = "done" /\ d \notin gone /\ all[Len(all)][1] # "error") => Bytes(all) = all[1][2]

(* After its client left, a transfer gives back its bytes, and its file    *)
(* unless a thread of the library has it.                                  *)
LeftIsFreed ==
  \A t \in Transfer : t \in gone ~> (reserved[t] = 0 /\ (disk[t] = 0 \/ t \in library))

(* A dropped upload has closed its file.                                   *)
DropCloses == \A u \in Upload : at[u] \in {"failed", "refused"} => disk[u] = 0
=============================================================================
