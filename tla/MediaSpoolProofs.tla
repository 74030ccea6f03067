-------------------------- MODULE MediaSpoolProofs --------------------------
(***************************************************************************)
(* Proofs about MediaSpool, for any number of transfers at a time, any     *)
(* budget, limit, block and chunk size, and clients that leave anywhere:   *)
(* a file keeps to what its transfer reserved, the CDN sees only what was  *)
(* checked, and every CDN attempt reads from where it was asked to.        *)
(***************************************************************************)
EXTENDS MediaSpool, TLAPS

(* What an upload has reserved and written, by where it is.  An upload that *)
(* is over has no file, unless its client left and a blocking task, or a     *)
(* thread of the library, has it.                                            *)
UploadInv(u) ==
  /\ at[u] \in {"new", "refused", "failed", "done", "stream", "push", "finish", "cdn", "send"}
  /\ at[u] \in {"new", "stream"} => task[u] = "none"
  /\ at[u] = "new" => size[u] = 0 /\ disk[u] = 0
  /\ at[u] \in {"stream", "push"} => size[u] <= reserved[u] /\ disk[u] <= size[u]
  /\ at[u] = "push" => task[u] \in {"write", "ok", "err"}
  /\ at[u] \in {"finish", "cdn"} =>
       /\ size[u] + CIPHERTEXT_OVERHEAD <= reserved[u]
       /\ disk[u] <= size[u] + CIPHERTEXT_OVERHEAD
  /\ at[u] = "finish" =>
       /\ task[u] \in {"seal", "ok", "err"}
       /\ task[u] = "ok" => disk[u] > size[u] + Mac
  /\ at[u] \in {"cdn", "send"} => task[u] = "none" /\ header[u] = "good"
  /\ at[u] = "cdn" => disk[u] > size[u] + Mac
  /\ at[u] \in {"refused", "failed", "done", "send"} =>
       \/ task[u] = "none" /\ disk[u] = 0
       \/ u \in gone /\ disk[u] <= MediaMax + CIPHERTEXT_OVERHEAD
            /\ (task[u] # "none" \/ u \in library)
  /\ u \in gone => at[u] = "failed"
  /\ u \in library => u \in gone /\ task[u] = "none"

(* A reader that has read nothing is where it was opened. *)
ReaderInv(u) ==
  \A r \in readers[u] : r[1] \in Nat /\ (r[3] = r[1] \/ (r[3] = -1 /\ r[2] = r[1]))

(* A download's file is bounded by its limit, which is what it reserved;    *)
(* the limit still binds a thread of the library once the call is dropped.  *)
DownloadInv(d) ==
  /\ at[d] \in {"new", "refused", "failed", "done", "create", "fetch", "serve"}
  /\ at[d] \in {"create", "fetch"} => reserved[d] = size[d] /\ position[d] <= size[d]
  /\ at[d] = "new" => position[d] = 0 /\ reserved[d] = 0
  /\ d \notin library => disk[d] <= reserved[d]
  /\ d \in library => at[d] = "failed" /\ disk[d] <= size[d] /\ position[d] <= size[d]
  /\ d \notin library /\ at[d] \in {"new", "create", "refused", "failed", "done"} => disk[d] = 0

Types ==
  /\ at \in [Transfer -> Places]
  /\ reserved \in [Transfer -> Nat] /\ disk \in [Transfer -> Nat]
  /\ size \in [Transfer -> 0 .. MediaMax]
  /\ task \in [Upload -> {"none", "write", "seal", "ok", "err"}]
  /\ header \in [Upload -> {"good", "bad"}]
  /\ position \in [Download -> Nat]
  /\ DOMAIN readers = Upload
  /\ gone \subseteq Transfer

SpoolInv ==
  /\ Types
  /\ \A u \in Upload : UploadInv(u) /\ ReaderInv(u)
  /\ \A d \in Download : DownloadInv(d)

-----------------------------------------------------------------------------
(* A step of one transfer leaves the facts about the others alone. *)

OnlyOf(t) ==
  /\ header' = header
  /\ \A x \in Transfer \ {t} :
       /\ at'[x] = at[x] /\ reserved'[x] = reserved[x] /\ disk'[x] = disk[x]
       /\ size'[x] = size[x] /\ (x \in gone' <=> x \in gone)
       /\ (x \in library' <=> x \in library)
  /\ \A u \in Upload \ {t} : task'[u] = task[u] /\ readers'[u] = readers[u]
  /\ \A d \in Download \ {t} : position'[d] = position[d]

(* A step of one transfer leaves the others as they were.                  *)
LEMMA UploadStep ==
  ASSUME SpoolInv, NEW u \in Upload, Types', OnlyOf(u), UploadInv(u)', ReaderInv(u)'
  PROVE  SpoolInv'
  <1>1. u \in Transfer /\ u \notin Download
    BY Zenon, SizesAssumption DEF Transfer
  <1>2. ASSUME NEW v \in Upload PROVE UploadInv(v)' /\ ReaderInv(v)'
    <2>1. CASE v = u
      BY Zenon, <2>1
    <2>2. CASE v # u
      <3>1. v \in Transfer \ {u} /\ v \in Upload \ {u}
        BY Zenon, <2>2 DEF Transfer
      <3>2. /\ at'[v] = at[v] /\ reserved'[v] = reserved[v] /\ disk'[v] = disk[v]
            /\ size'[v] = size[v] /\ (v \in gone' <=> v \in gone)
        /\ (v \in library' <=> v \in library)
            /\ task'[v] = task[v] /\ readers'[v] = readers[v] /\ header'[v] = header[v]
        BY Zenon, <3>1 DEF OnlyOf
      <3>3. UploadInv(v) /\ ReaderInv(v)
        BY Zenon DEF SpoolInv
      <3>4. UploadInv(v)'
        BY Zenon, <3>2, <3>3 DEF UploadInv
      <3>5. ReaderInv(v)'
        BY Zenon, <3>2, <3>3 DEF ReaderInv
      <3> QED
        BY Zenon, <3>4, <3>5
    <2> QED
      BY Zenon, <2>1, <2>2
  <1>3. ASSUME NEW d \in Download PROVE DownloadInv(d)'
    <2>1. d \in Transfer \ {u} /\ d \in Download \ {u}
      BY Zenon, <1>1 DEF Transfer
    <2>2. /\ at'[d] = at[d] /\ reserved'[d] = reserved[d] /\ disk'[d] = disk[d]
          /\ size'[d] = size[d] /\ position'[d] = position[d]
          /\ (d \in library' <=> d \in library)
      BY Zenon, <2>1 DEF OnlyOf
    <2> QED
      BY Zenon, <2>2 DEF SpoolInv, DownloadInv
  <1> QED
    BY Zenon, <1>2, <1>3 DEF SpoolInv

LEMMA DownloadStep ==
  ASSUME SpoolInv, NEW d \in Download, Types', OnlyOf(d), DownloadInv(d)'
  PROVE  SpoolInv'
  <1>1. d \in Transfer /\ d \notin Upload
    BY Zenon, SizesAssumption DEF Transfer
  <1>2. ASSUME NEW v \in Upload PROVE UploadInv(v)' /\ ReaderInv(v)'
    <2>1. v \in Transfer \ {d} /\ v \in Upload \ {d}
      BY Zenon, <1>1 DEF Transfer
    <2>2. /\ at'[v] = at[v] /\ reserved'[v] = reserved[v] /\ disk'[v] = disk[v]
          /\ size'[v] = size[v] /\ (v \in gone' <=> v \in gone)
        /\ (v \in library' <=> v \in library)
          /\ task'[v] = task[v] /\ readers'[v] = readers[v] /\ header'[v] = header[v]
      BY Zenon, <2>1 DEF OnlyOf
    <2>3. UploadInv(v) /\ ReaderInv(v)
      BY Zenon DEF SpoolInv
    <2>4. UploadInv(v)'
      BY Zenon, <2>2, <2>3 DEF UploadInv
    <2>5. ReaderInv(v)'
      BY Zenon, <2>2, <2>3 DEF ReaderInv
    <2> QED
      BY Zenon, <2>4, <2>5
  <1>3. ASSUME NEW e \in Download PROVE DownloadInv(e)'
    <2>1. CASE e = d
      BY Zenon, <2>1
    <2>2. CASE e # d
      <3>1. e \in Transfer \ {d} /\ e \in Download \ {d}
        BY Zenon, <2>2 DEF Transfer
      <3>2. /\ at'[e] = at[e] /\ reserved'[e] = reserved[e] /\ disk'[e] = disk[e]
            /\ size'[e] = size[e] /\ position'[e] = position[e]
            /\ (e \in library' <=> e \in library)
        BY Zenon, <3>1 DEF OnlyOf
      <3> QED
        BY Zenon, <3>2 DEF SpoolInv, DownloadInv
    <2> QED
      BY Zenon, <2>1, <2>2
  <1> QED
    BY Zenon, <1>2, <1>3 DEF SpoolInv

-----------------------------------------------------------------------------
(* What claiming, ending and the blocks of the cipher come to. *)

LEMMA BlocksBound ==
  ASSUME NEW n \in Nat
  PROVE  Blocks(n) \in Nat /\ Blocks(n) <= n /\ Blocks(n) + Block > n
  <1>1. n % Block \in 0 .. Block - 1 /\ n % Block <= n
    BY SizesAssumption
  <1> QED
    BY <1>1, SizesAssumption DEF Blocks

LEMMA ClaimEffect ==
  ASSUME Types, NEW t \in Transfer, NEW bytes \in Nat, Claim(t, bytes)
  PROVE  /\ reserved' \in [Transfer -> Nat] /\ reserved'[t] = reserved[t] + bytes
         /\ \A x \in Transfer \ {t} : reserved'[x] = reserved[x]
  BY DEF Types, Claim

LEMMA EndsEffect ==
  ASSUME Types, NEW t \in Transfer, NEW how \in Places, Ends(t, how)
  PROVE  /\ at' \in [Transfer -> Places] /\ at'[t] = how
         /\ reserved' \in [Transfer -> Nat] /\ reserved'[t] = 0
         /\ disk' \in [Transfer -> Nat]
         /\ disk'[t] = (IF Detached(t) THEN disk[t] ELSE 0)
         /\ \A x \in Transfer \ {t} :
              at'[x] = at[x] /\ reserved'[x] = reserved[x] /\ disk'[x] = disk[x]
  <1>1. disk[t] \in Nat
    BY Zenon DEF Types
  <1> QED
    BY Zenon, <1>1 DEF Types, Ends, To, Release

LEMMA LeavesEffect ==
  ASSUME Types, NEW t \in Transfer, To(t, "failed"), Release(t),
         disk' = [disk EXCEPT ![t] = IF Detached(t) \/ t \in library' THEN @ ELSE 0]
  PROVE  /\ at' \in [Transfer -> Places] /\ at'[t] = "failed"
         /\ reserved' \in [Transfer -> Nat] /\ reserved'[t] = 0
         /\ disk' \in [Transfer -> Nat]
         /\ disk'[t] = (IF Detached(t) \/ t \in library' THEN disk[t] ELSE 0)
         /\ \A x \in Transfer \ {t} :
              at'[x] = at[x] /\ reserved'[x] = reserved[x] /\ disk'[x] = disk[x]
  <1>1. disk[t] \in Nat /\ "failed" \in Places
    BY Zenon DEF Types, Places
  <1> QED
    BY Zenon, <1>1 DEF Types, To, Release

LEMMA Shortfall ==
  ASSUME Types, NEW u \in Upload, NEW needed \in Nat
  PROVE  shortfall(u, needed) \in Nat /\ reserved[u] + shortfall(u, needed) >= needed
  <1>1. reserved[u] \in Nat
    BY Zenon DEF Types, Transfer
  <1> QED
    BY <1>1 DEF shortfall

-----------------------------------------------------------------------------
(* The steps of an upload. *)

(* The facts an upload's step starts from. *)
UploadFacts(u) ==
  /\ Types /\ UploadInv(u) /\ ReaderInv(u) /\ u \in Transfer
  /\ reserved[u] \in Nat /\ disk[u] \in Nat /\ size[u] \in 0 .. MediaMax

(* What the invariant says of one upload.                                  *)
LEMMA UploadHas ==
  ASSUME SpoolInv, NEW u \in Upload
  PROVE  UploadFacts(u)
  BY Zenon DEF SpoolInv, UploadFacts, Types, Transfer

(* The steps of an upload.                                                 *)
LEMMA BeginUpload ==
  ASSUME SpoolInv, NEW u \in Upload, begin_upload(u)
  PROVE  SpoolInv'
  <1> UploadFacts(u)
    BY Zenon, UploadHas
  <1>1. \/ Claim(u, 0) /\ To(u, "stream")
        \/ UNCHANGED reserved /\ To(u, "refused")
    BY Zenon DEF begin_upload
  <1>2. /\ reserved' \in [Transfer -> Nat] /\ reserved'[u] = reserved[u]
        /\ \A x \in Transfer \ {u} : reserved'[x] = reserved[x]
    <2>1. CASE Claim(u, 0)
      BY <2>1, ClaimEffect DEF UploadFacts
    <2>2. CASE UNCHANGED reserved
      BY Zenon, <2>2 DEF UploadFacts, Types
    <2> QED
      BY Zenon, <1>1, <2>1, <2>2
  <1>3. /\ at' \in [Transfer -> Places] /\ at'[u] \in {"stream", "refused"}
        /\ \A x \in Transfer \ {u} : at'[x] = at[x]
    BY Zenon, <1>1 DEF To, UploadFacts, Types, Places
  <1>4. UNCHANGED <<disk, size, gone, library, task, header, readers, position>> /\ at[u] = "new"
    BY Zenon DEF begin_upload, upVars, downVars
  <1>5. Types'
    BY Zenon, <1>2, <1>3, <1>4 DEF UploadFacts, Types
  <1>6. OnlyOf(u)
    BY Zenon, <1>2, <1>3, <1>4 DEF OnlyOf
  <1>7. UploadInv(u)'
    BY <1>2, <1>3, <1>4 DEF UploadFacts, UploadInv
  <1>8. ReaderInv(u)'
    BY Zenon, <1>4 DEF UploadFacts, ReaderInv
  <1> QED
    BY Zenon, <1>5, <1>6, <1>7, <1>8, UploadStep

(* An upload that ends while no blocking task has its file. *)
LEMMA UploadEnds ==
  ASSUME SpoolInv, NEW u \in Upload, NEW how \in {"refused", "failed", "send"}, Ends(u, how),
         task[u] \notin {"write", "seal"}, u \notin gone,
         task' \in [Upload -> {"none", "write", "seal", "ok", "err"}], task'[u] = "none",
         \A v \in Upload \ {u} : task'[v] = task[v] /\ readers'[v] = readers[v],
         DOMAIN readers' = Upload, readers'[u] \in {readers[u], {}},
         how = "send" => header[u] = "good",
         UNCHANGED <<size, gone, library, header, position>>
  PROVE  SpoolInv'
  <1> UploadFacts(u)
    BY Zenon, UploadHas
  <1>1. how \in Places /\ ~Detached(u)
    BY Zenon DEF Places, Detached
  <1>2. /\ at' \in [Transfer -> Places] /\ at'[u] = how
        /\ reserved' \in [Transfer -> Nat] /\ reserved'[u] = 0
        /\ disk' \in [Transfer -> Nat] /\ disk'[u] = 0
        /\ \A x \in Transfer \ {u} :
             at'[x] = at[x] /\ reserved'[x] = reserved[x] /\ disk'[x] = disk[x]
    BY Zenon, <1>1, EndsEffect DEF UploadFacts
  <1>3. Types'
    BY Zenon, <1>2 DEF UploadFacts, Types
  <1>4. OnlyOf(u)
    BY Zenon, <1>2 DEF OnlyOf
  <1>5. UploadInv(u)'
    <2>1. u \notin gone' /\ u \notin library'
      BY Zenon DEF UploadFacts, UploadInv
    <2> QED
      BY Zenon, <1>2, <2>1 DEF UploadInv
  <1>6. ReaderInv(u)'
    BY Zenon DEF UploadFacts, ReaderInv
  <1> QED
    BY Zenon, <1>3, <1>4, <1>5, <1>6, UploadStep

(* The budget grew to what is needed next, and a blocking task has the file. *)
LEMMA UploadGrows ==
  ASSUME SpoolInv, NEW u \in Upload, at[u] = "stream", NEW needed \in Nat,
         Claim(u, shortfall(u, needed)), NEW job \in {"write", "seal"},
         task' = [task EXCEPT ![u] = job],
         To(u, IF job = "write" THEN "push" ELSE "finish"),
         size' \in [Transfer -> 0 .. MediaMax], size'[u] >= size[u],
         \A x \in Transfer \ {u} : size'[x] = size[x],
         needed = IF job = "write" THEN size'[u] ELSE size'[u] + CIPHERTEXT_OVERHEAD,
         UNCHANGED <<disk, gone, library, header, readers, position>>
  PROVE  SpoolInv'
  <1> UploadFacts(u)
    BY Zenon, UploadHas
  <1>1. /\ reserved' \in [Transfer -> Nat] /\ reserved'[u] >= needed
        /\ \A x \in Transfer \ {u} : reserved'[x] = reserved[x]
    <2>1. shortfall(u, needed) \in Nat /\ reserved[u] + shortfall(u, needed) >= needed
      BY Zenon, Shortfall DEF UploadFacts
    <2> QED
      BY Zenon, <2>1, ClaimEffect DEF UploadFacts
  <1>2. /\ at' \in [Transfer -> Places]
        /\ at'[u] = IF job = "write" THEN "push" ELSE "finish"
        /\ \A x \in Transfer \ {u} : at'[x] = at[x]
    BY Zenon DEF To, UploadFacts, Types, Places
  <1>3. /\ task' \in [Upload -> {"none", "write", "seal", "ok", "err"}] /\ task'[u] = job
        /\ \A v \in Upload \ {u} : task'[v] = task[v]
    BY Zenon DEF UploadFacts, Types
  <1>4. Types'
    BY Zenon, <1>1, <1>2, <1>3 DEF UploadFacts, Types
  <1>5. OnlyOf(u)
    BY Zenon, <1>1, <1>2, <1>3 DEF OnlyOf
  <1>6. UploadInv(u)'
    <2>1. size'[u] \in Nat /\ size[u] \in Nat /\ reserved'[u] \in Nat
      BY <1>1 DEF UploadFacts
    <2> QED
      BY <1>1, <1>2, <1>3, <2>1, SizesAssumption DEF UploadFacts, UploadInv
  <1>7. ReaderInv(u)'
    BY Zenon DEF UploadFacts, ReaderInv
  <1> QED
    BY Zenon, <1>4, <1>5, <1>6, <1>7, UploadStep

LEMMA StageUpload ==
  ASSUME SpoolInv, NEW u \in Upload, stage_upload(u)
  PROVE  SpoolInv'
  <1> UploadFacts(u)
    BY Zenon, UploadHas
  <1>1. /\ at[u] = "stream" /\ task[u] = "none" /\ u \notin gone
        /\ UNCHANGED <<header, readers, gone, library, position>>
    BY Zenon DEF stage_upload, downVars, UploadFacts, UploadInv
  <1>2. ASSUME Ends(u, "refused"), UNCHANGED <<size, task>> PROVE SpoolInv'
    BY Zenon, <1>1, <1>2, UploadEnds DEF UploadFacts, Types
  <1>3. ASSUME NEW n \in 0 .. MediaMax + 1, size[u] + n <= MediaMax, push(u, n) PROVE SpoolInv'
    <2>1. /\ size' \in [Transfer -> 0 .. MediaMax] /\ size'[u] = size[u] + n
          /\ \A x \in Transfer \ {u} : size'[x] = size[x]
      BY <1>3, SizesAssumption DEF push, UploadFacts, Types
    <2>2. size[u] + n \in Nat
      BY SizesAssumption DEF UploadFacts
    <2>3. CASE Fits(shortfall(u, size[u] + n))
      <3>1. /\ Claim(u, shortfall(u, size[u] + n)) /\ task' = [task EXCEPT ![u] = "write"]
            /\ To(u, "push") /\ UNCHANGED disk
        BY Zenon, <1>3, <2>3 DEF push
      <3>2. size'[u] >= size[u]
        BY <2>1, SizesAssumption DEF UploadFacts
      <3> DEFINE job == "write"
      <3>3. job \in {"write", "seal"} /\ To(u, IF job = "write" THEN "push" ELSE "finish")
        BY Zenon, <3>1
      <3> QED
        BY Zenon, <1>1, <2>1, <2>2, <3>1, <3>2, <3>3, UploadGrows
    <2>4. CASE ~Fits(shortfall(u, size[u] + n))
      <3>1. Ends(u, "refused") /\ UNCHANGED task
        BY Zenon, <1>3, <2>4 DEF push
      <3>2. /\ at' \in [Transfer -> Places] /\ at'[u] = "refused"
            /\ reserved' \in [Transfer -> Nat] /\ reserved'[u] = 0
            /\ disk' \in [Transfer -> Nat] /\ disk'[u] = 0
            /\ \A x \in Transfer \ {u} :
                 at'[x] = at[x] /\ reserved'[x] = reserved[x] /\ disk'[x] = disk[x]
        BY Zenon, <1>1, <3>1, EndsEffect DEF UploadFacts, Places, Detached
      <3>3. Types'
        BY Zenon, <1>1, <2>1, <3>1, <3>2 DEF UploadFacts, Types
      <3>4. OnlyOf(u)
        BY Zenon, <1>1, <2>1, <3>1, <3>2 DEF OnlyOf
      <3>5. UploadInv(u)' /\ ReaderInv(u)'
        BY Zenon, <1>1, <3>1, <3>2 DEF UploadFacts, UploadInv, ReaderInv
      <3> QED
        BY Zenon, <3>3, <3>4, <3>5, UploadStep
    <2> QED
      BY Zenon, <2>3, <2>4
  <1>4. ASSUME finish(u) PROVE SpoolInv'
    <2> DEFINE needed == size[u] + CIPHERTEXT_OVERHEAD
    <2>1. needed \in Nat
      BY SizesAssumption DEF UploadFacts
    <2>2. CASE Fits(shortfall(u, needed))
      <3>1. /\ Claim(u, shortfall(u, needed)) /\ task' = [task EXCEPT ![u] = "seal"]
            /\ To(u, "finish") /\ UNCHANGED <<disk, size>>
        BY Zenon, <1>4, <2>2 DEF finish
      <3>2. size' \in [Transfer -> 0 .. MediaMax] /\ size'[u] >= size[u]
        BY <3>1, SizesAssumption DEF UploadFacts, Types
      <3>3. needed = size'[u] + CIPHERTEXT_OVERHEAD
        BY Zenon, <3>1
      <3> HIDE DEF needed
      <3> DEFINE job == "seal"
      <3>4. job \in {"write", "seal"} /\ To(u, IF job = "write" THEN "push" ELSE "finish")
        BY Zenon, <3>1
      <3> QED
        BY Zenon, <1>1, <2>1, <3>1, <3>2, <3>3, <3>4, UploadGrows
    <2>3. CASE ~Fits(shortfall(u, needed))
      <3>1. Ends(u, "refused") /\ UNCHANGED <<size, task>>
        BY Zenon, <1>4, <2>3 DEF finish
      <3> QED
        BY Zenon, <3>1, <1>2
    <2> QED
      BY Zenon, <2>2, <2>3
  <1>5. \/ \E n \in 0 .. MediaMax + 1 : size[u] + n <= MediaMax /\ push(u, n)
        \/ Ends(u, "refused") /\ UNCHANGED <<size, task>>
        \/ finish(u)
    BY SizesAssumption DEF stage_upload, UploadFacts
  <1> QED
    BY Zenon, <1>2, <1>3, <1>4, <1>5

LEMMA RunBlocking ==
  ASSUME SpoolInv, NEW u \in Upload, run_blocking(u)
  PROVE  SpoolInv'
  <1> UploadFacts(u)
    BY Zenon, UploadHas
  <1>1. PICK len \in Nat, how \in {"ok", "err", "none"} :
          /\ TaskEnds(u, len, how)
          /\ len <= size[u] + CIPHERTEXT_OVERHEAD
          /\ task[u] = "write" => len <= size[u] /\ how # "none"
          /\ task[u] = "seal" => how # "none" /\ (how = "ok" => len > size[u] + Mac)
          /\ task[u] \in {"ok", "err"} => u \in gone /\ len = 0 /\ how = "none"
          /\ task[u] # "none"
    <2>1. /\ size[u] \in Nat /\ Blocks(size[u]) \in Nat /\ Blocks(size[u]) <= size[u]
          /\ Blocks(size[u]) + Block > size[u]
      BY BlocksBound DEF UploadFacts
    <2>2. CASE task[u] = "write"
      BY <2>1, <2>2, SizesAssumption DEF run_blocking
    <2>3. CASE task[u] = "seal"
      <3>1. \/ TaskEnds(u, Blocks(size[u]) + Block + Mac, "ok") \/ TaskEnds(u, 0, "err")
        BY Zenon, <2>3 DEF run_blocking
      <3>2. /\ Blocks(size[u]) + Block + Mac \in Nat
            /\ Blocks(size[u]) + Block + Mac <= size[u] + CIPHERTEXT_OVERHEAD
            /\ Blocks(size[u]) + Block + Mac > size[u] + Mac
            /\ 0 <= size[u] + CIPHERTEXT_OVERHEAD
        BY <2>1, SizesAssumption
      <3> QED
        BY Zenon, <2>3, <3>1, <3>2
    <2>4. CASE task[u] \in {"ok", "err"}
      BY <2>1, <2>4, SizesAssumption DEF run_blocking
    <2> QED
      BY Zenon, <2>2, <2>3, <2>4 DEF run_blocking
  <1>2. UNCHANGED <<at, reserved, size, header, readers, gone, library, position>>
    BY Zenon, <1>1 DEF TaskEnds, downVars
  <1>3. /\ task' \in [Upload -> {"none", "write", "seal", "ok", "err"}] /\ task'[u] = how
        /\ \A v \in Upload \ {u} : task'[v] = task[v]
        /\ disk' \in [Transfer -> Nat] /\ disk'[u] = len
        /\ \A x \in Transfer \ {u} : disk'[x] = disk[x]
    BY Zenon, <1>1 DEF TaskEnds, UploadFacts, Types
  <1>4. Types'
    BY Zenon, <1>2, <1>3 DEF UploadFacts, Types
  <1>5. OnlyOf(u)
    BY Zenon, <1>2, <1>3 DEF OnlyOf
  <1>6. UploadInv(u)'
    <2>1. at[u] \in {"push", "finish", "refused", "failed", "done", "send"}
      BY Zenon, <1>1 DEF UploadFacts, UploadInv
    <2>2. CASE at[u] = "push"
      BY Zenon, <1>1, <1>2, <1>3, <2>2, SizesAssumption DEF UploadFacts, UploadInv
    <2>3. CASE at[u] = "finish"
      BY Zenon, <1>1, <1>2, <1>3, <2>3, SizesAssumption DEF UploadFacts, UploadInv
    <2>4. CASE at[u] \in {"refused", "failed", "done", "send"}
      <3>1. u \in gone /\ at[u] = "failed" /\ u \notin library
        BY Zenon, <1>1, <2>4 DEF UploadFacts, UploadInv
      <3>2. len <= MediaMax + CIPHERTEXT_OVERHEAD /\ (how = "none" => len = 0)
        BY <1>1, SizesAssumption DEF UploadFacts, Types
      <3> QED
        BY Zenon, <1>2, <1>3, <3>1, <3>2 DEF UploadInv
    <2> QED
      BY Zenon, <2>1, <2>2, <2>3, <2>4
  <1>7. ReaderInv(u)'
    BY Zenon, <1>2 DEF UploadFacts, ReaderInv
  <1> QED
    BY Zenon, <1>4, <1>5, <1>6, <1>7, UploadStep

LEMMA ResumeUpload ==
  ASSUME SpoolInv, NEW u \in Upload, Resume(u)
  PROVE  SpoolInv'
  <1> UploadFacts(u)
    BY Zenon, UploadHas
  <1>1. /\ at[u] \in {"push", "finish"} /\ task[u] \in {"ok", "err"} /\ u \notin gone
        /\ UNCHANGED <<size, header, readers, gone, library, position>>
        /\ task' \in [Upload -> {"none", "write", "seal", "ok", "err"}] /\ task'[u] = "none"
        /\ \A v \in Upload \ {u} : task'[v] = task[v]
    BY Zenon DEF Resume, downVars, UploadFacts, UploadInv, Types
  <1>2. CASE \E how \in {"refused", "failed"} : Ends(u, how)
    BY Zenon, <1>1, <1>2, UploadEnds DEF UploadFacts, Types
  <1>3. CASE /\ task[u] = "ok" /\ (at[u] = "finish" => header[u] = "good")
             /\ To(u, IF at[u] = "push" THEN "stream" ELSE "cdn")
             /\ UNCHANGED <<held, reserved, disk>>
    <2>1. /\ at' \in [Transfer -> Places]
          /\ at'[u] = IF at[u] = "push" THEN "stream" ELSE "cdn"
          /\ \A x \in Transfer \ {u} : at'[x] = at[x]
      BY Zenon, <1>3 DEF To, UploadFacts, Types, Places
    <2>2. Types'
      BY Zenon, <1>1, <1>3, <2>1 DEF UploadFacts, Types
    <2>3. OnlyOf(u)
      BY Zenon, <1>1, <1>3, <2>1 DEF OnlyOf
    <2>4. UploadInv(u)' /\ ReaderInv(u)'
      BY Zenon, <1>1, <1>3, <2>1 DEF UploadFacts, UploadInv, ReaderInv
    <2> QED
      BY Zenon, <2>2, <2>3, <2>4, UploadStep
  <1> QED
    BY Zenon, <1>1, <1>2, <1>3 DEF Resume, HeaderConverts

(* The readers of an upload at the CDN. *)
LEMMA ReadersStep ==
  ASSUME SpoolInv, NEW u \in Upload, NEW set, readers' = [readers EXCEPT ![u] = set],
         \A r \in set : r[1] \in Nat /\ (r[3] = r[1] \/ (r[3] = -1 /\ r[2] = r[1])),
         UNCHANGED <<at, reserved, disk, size, task, header, gone, library, position>>
  PROVE  SpoolInv'
  <1> UploadFacts(u)
    BY Zenon, UploadHas
  <1>1. DOMAIN readers' = Upload /\ readers'[u] = set
        /\ \A v \in Upload \ {u} : readers'[v] = readers[v]
    BY Zenon DEF UploadFacts, Types
  <1>2. Types'
    BY Zenon, <1>1 DEF UploadFacts, Types
  <1>3. OnlyOf(u)
    BY Zenon, <1>1 DEF OnlyOf
  <1>4. UploadInv(u)'
    BY Zenon DEF UploadFacts, UploadInv
  <1>5. ReaderInv(u)'
    BY Zenon, <1>1 DEF ReaderInv
  <1> QED
    BY Zenon, <1>2, <1>3, <1>4, <1>5, UploadStep

LEMMA OpensReader ==
  ASSUME SpoolInv, NEW u \in Upload, OpenReader(u)
  PROVE  SpoolInv'
  <1> UploadFacts(u)
    BY Zenon, UploadHas
  <1>0. PICK from \in {0, size[u]} :
          readers' = [readers EXCEPT ![u] = @ \cup {reader_from(u, from)}]
    BY Zenon DEF OpenReader
  <1>1. from \in Nat /\ readers' = [readers EXCEPT ![u] = readers[u] \cup {reader_from(u, from)}]
    BY <1>0 DEF UploadFacts
  <1> DEFINE set == readers[u] \cup {reader_from(u, from)}
  <1>2. \A r \in set : r[1] \in Nat /\ (r[3] = r[1] \/ (r[3] = -1 /\ r[2] = r[1]))
    BY <1>1 DEF UploadFacts, ReaderInv, reader_from
  <1>3. UNCHANGED <<at, reserved, disk, size, task, header, gone, library, position>>
    BY Zenon DEF OpenReader, downVars
  <1>4. readers' = [readers EXCEPT ![u] = set]
    BY Zenon, <1>1
  <1> HIDE DEF set
  <1> QED
    BY Zenon, <1>2, <1>3, <1>4, ReadersStep

LEMMA ReadsAt ==
  ASSUME SpoolInv, NEW u \in Upload, ReadAt(u)
  PROVE  SpoolInv'
  <1> UploadFacts(u)
    BY Zenon, UploadHas
  <1>0. PICK r \in readers[u] : \E n \in {1, disk[u] - r[2]} :
          readers' = [readers EXCEPT ![u] = (readers[u] \ {r}) \cup
                        {<<r[1], r[2] + n, IF r[3] = -1 THEN r[2] ELSE r[3]>>}]
    BY Zenon DEF ReadAt, UploadFacts, Types
  <1>1. PICK n \in {1, disk[u] - r[2]} :
          readers' = [readers EXCEPT ![u] = (readers[u] \ {r}) \cup
                        {<<r[1], r[2] + n, IF r[3] = -1 THEN r[2] ELSE r[3]>>}]
    BY Zenon, <1>0
  <1> DEFINE new == <<r[1], r[2] + n, IF r[3] = -1 THEN r[2] ELSE r[3]>>
             set == (readers[u] \ {r}) \cup {new}
  <1>2. new[1] \in Nat /\ new[3] = new[1]
    BY DEF UploadFacts, ReaderInv
  <1>3. \A q \in set : q[1] \in Nat /\ (q[3] = q[1] \/ (q[3] = -1 /\ q[2] = q[1]))
    BY Zenon, <1>2 DEF UploadFacts, ReaderInv
  <1>4. UNCHANGED <<at, reserved, disk, size, task, header, gone, library, position>>
    BY Zenon DEF ReadAt, downVars
  <1>5. readers' = [readers EXCEPT ![u] = set]
    BY Zenon, <1>1
  <1> HIDE DEF set
  <1> QED
    BY Zenon, <1>3, <1>4, <1>5, ReadersStep

LEMMA UploadsStaged ==
  ASSUME SpoolInv, NEW u \in Upload, upload_staged(u)
  PROVE  SpoolInv'
  <1> UploadFacts(u)
    BY Zenon, UploadHas
  <1>1. PICK how \in {"send", "failed"} : Ends(u, how)
    BY Zenon DEF upload_staged
  <1>2. /\ at[u] = "cdn" /\ task[u] = "none" /\ u \notin gone /\ header[u] = "good"
        /\ UNCHANGED <<size, task, gone, library, header, position>>
        /\ DOMAIN readers' = Upload /\ readers'[u] = {}
        /\ \A v \in Upload \ {u} : readers'[v] = readers[v]
    BY Zenon DEF upload_staged, downVars, UploadFacts, UploadInv, Types
  <1> QED
    BY Zenon, <1>1, <1>2, UploadEnds DEF UploadFacts, Types

LEMMA SendsMessage ==
  ASSUME SpoolInv, NEW u \in Upload, send_message(u)
  PROVE  SpoolInv'
  <1> UploadFacts(u)
    BY Zenon, UploadHas
  <1>1. /\ at[u] = "send"
        /\ UNCHANGED <<reserved, disk, size, gone, library, task, header, readers, position>>
        /\ at' \in [Transfer -> Places] /\ at'[u] \in {"done", "failed"}
        /\ \A x \in Transfer \ {u} : at'[x] = at[x]
    BY Zenon DEF send_message, upVars, downVars, To, UploadFacts, Types, Places
  <1>2. Types'
    BY Zenon, <1>1 DEF UploadFacts, Types
  <1>3. OnlyOf(u)
    BY Zenon, <1>1 DEF OnlyOf
  <1>4. UploadInv(u)' /\ ReaderInv(u)'
    BY Zenon, <1>1 DEF UploadFacts, UploadInv, ReaderInv
  <1> QED
    BY Zenon, <1>2, <1>3, <1>4, UploadStep

-----------------------------------------------------------------------------
(* The steps of a download. *)

DownloadFacts(d) ==
  /\ Types /\ DownloadInv(d) /\ d \in Transfer /\ d \notin Upload /\ ~Detached(d)
  /\ reserved[d] \in Nat /\ disk[d] \in Nat /\ size[d] \in 0 .. MediaMax /\ position[d] \in Nat

(* What the invariant says of one download.                                *)
LEMMA DownloadHas ==
  ASSUME SpoolInv, NEW d \in Download
  PROVE  DownloadFacts(d)
  BY Zenon, SizesAssumption DEF SpoolInv, DownloadFacts, Types, Transfer, Detached

LEMMA NotInLibrary ==
  ASSUME SpoolInv, NEW d \in Download, at[d] # "failed"
  PROVE  d \notin library
  BY Zenon DEF SpoolInv, DownloadInv

(* A download that ends closes its file. *)
LEMMA DownloadEnds ==
  ASSUME SpoolInv, NEW d \in Download, NEW how \in {"failed", "done"}, Ends(d, how),
         d \notin library, UNCHANGED <<size, task, header, readers, position, library>>,
         gone' \subseteq Transfer, \A x \in Transfer \ {d} : x \in gone' <=> x \in gone
  PROVE  SpoolInv'
  <1> DownloadFacts(d)
    BY Zenon, DownloadHas
  <1>1. /\ at' \in [Transfer -> Places] /\ at'[d] = how
        /\ reserved' \in [Transfer -> Nat] /\ reserved'[d] = 0
        /\ disk' \in [Transfer -> Nat] /\ disk'[d] = 0
        /\ \A x \in Transfer \ {d} :
             at'[x] = at[x] /\ reserved'[x] = reserved[x] /\ disk'[x] = disk[x]
    BY Zenon, EndsEffect DEF DownloadFacts, Places
  <1>2. Types'
    BY Zenon, <1>1 DEF DownloadFacts, Types
  <1>3. OnlyOf(d)
    BY Zenon, <1>1 DEF OnlyOf
  <1>4. DownloadInv(d)'
    BY <1>1 DEF DownloadInv
  <1> QED
    BY Zenon, <1>2, <1>3, <1>4, DownloadStep

(* A step that moves the download on and touches neither budget nor file. *)
LEMMA DownloadMoves ==
  ASSUME SpoolInv, NEW d \in Download, NEW place \in {"fetch", "serve"}, To(d, place),
         at[d] = IF place = "fetch" THEN "create" ELSE "fetch",
         UNCHANGED <<reserved, disk, size, gone, library, task, header, readers, position>>
  PROVE  SpoolInv'
  <1> DownloadFacts(d)
    BY Zenon, DownloadHas
  <1>1. /\ at' \in [Transfer -> Places] /\ at'[d] = place
        /\ \A x \in Transfer \ {d} : at'[x] = at[x]
    BY Zenon DEF To, DownloadFacts, Types, Places
  <1>2. Types'
    BY Zenon, <1>1 DEF DownloadFacts, Types
  <1>3. OnlyOf(d)
    BY Zenon, <1>1 DEF OnlyOf
  <1>4. DownloadInv(d)'
    BY Zenon, <1>1 DEF DownloadFacts, DownloadInv
  <1> QED
    BY Zenon, <1>2, <1>3, <1>4, DownloadStep

(* The steps of a download.                                                *)
LEMMA Downloads ==
  ASSUME SpoolInv, NEW d \in Download, download(d)
  PROVE  SpoolInv'
  <1> DownloadFacts(d)
    BY Zenon, DownloadHas
  <1>1. at[d] = "new" /\ UNCHANGED <<disk, gone, library, task, header, readers, position>>
    BY Zenon DEF download, upVars, downVars
  <1>2. CASE To(d, "refused") /\ UNCHANGED <<held, reserved, size>>
    <2>1. /\ at' \in [Transfer -> Places] /\ at'[d] = "refused"
          /\ \A x \in Transfer \ {d} : at'[x] = at[x]
      BY Zenon, <1>2 DEF To, DownloadFacts, Types, Places
    <2>2. Types'
      BY Zenon, <1>1, <1>2, <2>1 DEF DownloadFacts, Types
    <2>3. OnlyOf(d)
      BY Zenon, <1>1, <1>2, <2>1 DEF OnlyOf
    <2>4. DownloadInv(d)'
      BY Zenon, <1>1, <1>2, <2>1 DEF DownloadFacts, DownloadInv
    <2> QED
      BY Zenon, <2>2, <2>3, <2>4, DownloadStep
  <1>3. ASSUME NEW reserve \in 0 .. MediaMax, Claim(d, reserve),
               size' = [size EXCEPT ![d] = reserve], To(d, "create"), reserved[d] = 0
        PROVE  SpoolInv'
    <2>1. /\ reserved' \in [Transfer -> Nat] /\ reserved'[d] = reserve
          /\ \A x \in Transfer \ {d} : reserved'[x] = reserved[x]
      BY <1>3, ClaimEffect, SizesAssumption DEF DownloadFacts
    <2>2. /\ at' \in [Transfer -> Places] /\ at'[d] = "create"
          /\ \A x \in Transfer \ {d} : at'[x] = at[x]
      BY Zenon, <1>3 DEF To, DownloadFacts, Types, Places
    <2>3. /\ size' \in [Transfer -> 0 .. MediaMax] /\ size'[d] = reserve
          /\ \A x \in Transfer \ {d} : size'[x] = size[x]
      BY Zenon, <1>3 DEF DownloadFacts, Types
    <2>4. Types'
      BY Zenon, <1>1, <2>1, <2>2, <2>3 DEF DownloadFacts, Types
    <2>5. OnlyOf(d)
      BY Zenon, <1>1, <2>1, <2>2, <2>3 DEF OnlyOf
    <2>6. DownloadInv(d)'
      BY <1>1, <2>1, <2>2, <2>3, SizesAssumption DEF DownloadFacts, DownloadInv
    <2> QED
      BY Zenon, <2>4, <2>5, <2>6, DownloadStep
  <1>4. reserved[d] = 0
    BY Zenon, <1>1 DEF DownloadFacts, DownloadInv
  <1>5. \/ To(d, "refused") /\ UNCHANGED <<held, reserved, size>>
        \/ \E reserve \in 0 .. MediaMax :
             Claim(d, reserve) /\ size' = [size EXCEPT ![d] = reserve] /\ To(d, "create")
    BY SizesAssumption DEF download
  <1> QED
    BY Zenon, <1>2, <1>3, <1>4, <1>5

LEMMA BeginDownload ==
  ASSUME SpoolInv, NEW d \in Download, begin_download(d)
  PROVE  SpoolInv'
  <1>1. at[d] = "create" /\ UNCHANGED <<size, gone, library, task, header, readers, position>>
    BY Zenon DEF begin_download, upVars, downVars
  <1>2. CASE To(d, "fetch") /\ UNCHANGED <<held, reserved, disk>>
    BY Zenon, <1>1, <1>2, DownloadMoves
  <1>3. CASE Ends(d, "failed")
    BY Zenon, <1>1, <1>3, NotInLibrary, DownloadEnds DEF SpoolInv, Types
  <1> QED
    BY Zenon, <1>2, <1>3 DEF begin_download

LEMMA Seals ==
  ASSUME SpoolInv, NEW d \in Download, seal(d)
  PROVE  SpoolInv'
  <1>1. at[d] = "fetch" /\ UNCHANGED <<size, gone, library, task, header, readers, position>>
    BY Zenon DEF seal, upVars, downVars
  <1>2. CASE To(d, "serve") /\ UNCHANGED <<held, reserved, disk>>
    BY Zenon, <1>1, <1>2, DownloadMoves
  <1>3. CASE Ends(d, "failed")
    BY Zenon, <1>1, <1>3, NotInLibrary, DownloadEnds DEF SpoolInv, Types
  <1> QED
    BY Zenon, <1>2, <1>3 DEF seal

(* A write within the limit, or a restart of the fetch. *)
LEMMA FileStep ==
  ASSUME SpoolInv, NEW d \in Download, at[d] = "fetch" \/ d \in library, NEW pos \in Nat, NEW len \in Nat,
         pos <= size[d], len <= size[d],
         position' = [position EXCEPT ![d] = pos], disk' = [disk EXCEPT ![d] = len],
         UNCHANGED <<at, reserved, size, gone, library, task, header, readers>>
  PROVE  SpoolInv'
  <1> DownloadFacts(d)
    BY Zenon, DownloadHas
  <1>1. /\ position' \in [Download -> Nat] /\ position'[d] = pos
        /\ \A e \in Download \ {d} : position'[e] = position[e]
        /\ disk' \in [Transfer -> Nat] /\ disk'[d] = len
        /\ \A x \in Transfer \ {d} : disk'[x] = disk[x]
    BY Zenon DEF DownloadFacts, Types
  <1>2. Types'
    BY Zenon, <1>1 DEF DownloadFacts, Types
  <1>3. OnlyOf(d)
    BY Zenon, <1>1 DEF OnlyOf
  <1>4. DownloadInv(d)'
    BY Zenon, <1>1 DEF DownloadFacts, DownloadInv
  <1> QED
    BY Zenon, <1>2, <1>3, <1>4, DownloadStep

LEMMA Writes ==
  ASSUME SpoolInv, NEW d \in Download, write(d) \/ seek(d)
  PROVE  SpoolInv'
  <1> DownloadFacts(d)
    BY Zenon, DownloadHas
  <1>1. /\ at[d] = "fetch" \/ d \in library
        /\ UNCHANGED <<at, reserved, size, gone, library, task, header, readers>>
    BY Zenon DEF write, seek, upVars
  <1>2. disk[d] <= size[d]
    BY Zenon, <1>1 DEF DownloadFacts, DownloadInv
  <1>3. CASE write(d)
    <2>1. PICK n \in 1 .. MediaMax + 1 : /\ position[d] + n <= size[d]
             /\ \E written \in 1 .. n :
                  /\ position' = [position EXCEPT ![d] = position[d] + written]
                  /\ disk' = [disk EXCEPT ![d] = IF position[d] + written > disk[d]
                                                 THEN position[d] + written ELSE disk[d]]
      BY Zenon, <1>3 DEF write, DownloadFacts, Types
    <2>2. PICK written \in 1 .. n :
             /\ position' = [position EXCEPT ![d] = position[d] + written]
             /\ disk' = [disk EXCEPT ![d] = IF position[d] + written > disk[d]
                                            THEN position[d] + written ELSE disk[d]]
      BY Zenon, <2>1
    <2> DEFINE pos == position[d] + written
               len == IF pos > disk[d] THEN pos ELSE disk[d]
    <2>3. pos \in Nat /\ len \in Nat /\ pos <= size[d] /\ len <= size[d]
      BY <1>2, <2>1, <2>2, SizesAssumption DEF DownloadFacts
    <2>4. position' = [position EXCEPT ![d] = pos] /\ disk' = [disk EXCEPT ![d] = len]
      BY Zenon, <2>2
    <2> HIDE DEF pos, len
    <2> QED
      BY Zenon, <1>1, <2>3, <2>4, FileStep
  <1>4. CASE seek(d)
    <2>1. position' = [position EXCEPT ![d] = 0] /\ disk' = [disk EXCEPT ![d] = 0]
      BY Zenon, <1>4 DEF seek
    <2>2. 0 <= size[d]
      BY DEF DownloadFacts
    <2> QED
      BY Zenon, <1>1, <2>1, <2>2, FileStep
  <1> QED
    BY Zenon, <1>3, <1>4

LEMMA Unmoved ==
  ASSUME SpoolInv, UNCHANGED <<at, reserved, disk, size, task, header, readers, position, gone, library>>
  PROVE  SpoolInv'
  BY DEF SpoolInv, Types, UploadInv, ReaderInv, DownloadInv

LEMMA Streams ==
  ASSUME SpoolInv, NEW d \in Download, stream_spooled(d)
  PROVE  SpoolInv'
  <1>1. UNCHANGED <<size, gone, library, task, header, readers, position>>
    BY Zenon DEF stream_spooled, upVars
  <1>2. CASE Ends(d, "done")
    <2>1. at[d] = "serve"
      BY Zenon DEF stream_spooled
    <2> QED
      BY Zenon, <1>1, <1>2, <2>1, NotInLibrary, DownloadEnds DEF SpoolInv, Types
  <1>3. CASE UNCHANGED <<held, at, reserved, disk>>
    BY Zenon, <1>1, <1>3, Unmoved
  <1> QED
    BY Zenon, <1>2, <1>3 DEF stream_spooled

-----------------------------------------------------------------------------
(* The client leaves.  A download being served, or over, is not touched; an *)
(* upload's blocking task keeps its file, and so may the library.           *)
LEMMA UploadLeft ==
  ASSUME SpoolInv, NEW u \in Upload, Leave(u)
  PROVE  SpoolInv'
  <1> UploadFacts(u)
    BY Zenon, UploadHas
  <1>1. /\ u \notin gone /\ u \notin library /\ gone' = gone \cup {u}
        /\ at[u] \in {"stream", "push", "finish", "cdn", "send"}
        /\ UNCHANGED <<size, header, position>>
    BY Zenon, SizesAssumption DEF Leave, downVars, UploadFacts, UploadInv
  <1>2. /\ To(u, "failed") /\ Release(u)
        /\ library' = library \/ (at[u] = "cdn" /\ library' = library \cup {u})
        /\ disk' = [disk EXCEPT ![u] = IF Detached(u) \/ u \in library' THEN @ ELSE 0]
        /\ readers' = [v \in Upload |-> IF v = u /\ u \notin library' THEN {} ELSE readers[v]]
    BY Zenon, <1>1 DEF Leave
  <1>3. task' = [v \in Upload |-> IF v = u /\ ~Detached(v) THEN "none" ELSE task[v]]
    BY Zenon DEF Leave
  <1>4. /\ at' \in [Transfer -> Places] /\ at'[u] = "failed"
        /\ reserved' \in [Transfer -> Nat] /\ reserved'[u] = 0
        /\ disk' \in [Transfer -> Nat]
        /\ disk'[u] = (IF Detached(u) \/ u \in library' THEN disk[u] ELSE 0)
        /\ \A x \in Transfer \ {u} :
             at'[x] = at[x] /\ reserved'[x] = reserved[x] /\ disk'[x] = disk[x]
    BY Zenon, <1>2, LeavesEffect DEF UploadFacts
  <1>5. /\ task' \in [Upload -> {"none", "write", "seal", "ok", "err"}]
        /\ task'[u] = (IF Detached(u) THEN task[u] ELSE "none")
        /\ \A v \in Upload \ {u} : task'[v] = task[v] /\ readers'[v] = readers[v]
        /\ DOMAIN readers' = Upload /\ readers'[u] \in {{}, readers[u]}
    BY Zenon, <1>2, <1>3 DEF UploadFacts, Types
  <1>6. Types'
    BY Zenon, <1>1, <1>4, <1>5 DEF UploadFacts, Types
  <1>7. OnlyOf(u)
    BY Zenon, <1>1, <1>2, <1>4, <1>5 DEF OnlyOf
  <1>8. UploadInv(u)'
    <2>1. disk[u] <= MediaMax + CIPHERTEXT_OVERHEAD \/ at[u] = "send"
      BY <1>1, SizesAssumption DEF UploadFacts, UploadInv
    <2>2. /\ Detached(u) => task[u] # "none" /\ at[u] # "send" /\ u \notin library'
          /\ u \in library' => at[u] = "cdn"
      BY Zenon, <1>1, <1>2 DEF Detached, UploadFacts, UploadInv
    <2>3. u \in gone'
      BY Zenon, <1>1
    <2>4. \/ task'[u] = "none" /\ disk'[u] = 0
          \/ disk'[u] <= MediaMax + CIPHERTEXT_OVERHEAD /\ (task'[u] # "none" \/ u \in library')
      BY Zenon, <1>4, <1>5, <2>1, <2>2
    <2>5. u \in library' => task'[u] = "none"
      BY Zenon, <1>5, <2>2
    <2> QED
      BY Zenon, <1>4, <2>3, <2>4, <2>5 DEF UploadInv
  <1>9. ReaderInv(u)'
    BY Zenon, <1>5 DEF UploadFacts, ReaderInv
  <1> QED
    BY Zenon, <1>6, <1>7, <1>8, <1>9, UploadStep

LEMMA DownloadLeft ==
  ASSUME SpoolInv, NEW d \in Download, Leave(d)
  PROVE  SpoolInv'
  <1> DownloadFacts(d)
    BY Zenon, DownloadHas
  <1>1. /\ gone' \subseteq Transfer /\ (\A x \in Transfer \ {d} : x \in gone' <=> x \in gone)
        /\ UNCHANGED <<size, header, position>>
    BY Zenon DEF Leave, downVars, DownloadFacts, Types
  <1>2. task' = task
    BY DEF Leave, DownloadFacts, Types
  <1>3. CASE at[d] \in {"serve", "done"}
    <2>1. UNCHANGED <<at, reserved, disk, readers, library>>
      BY Zenon, <1>3 DEF Leave
    <2>2. Types'
      BY Zenon, <1>1, <1>2, <2>1 DEF DownloadFacts, Types
    <2>3. OnlyOf(d)
      BY Zenon, <1>1, <1>2, <2>1 DEF OnlyOf
    <2>4. DownloadInv(d)'
      BY Zenon, <1>1, <2>1 DEF DownloadFacts, DownloadInv
    <2> QED
      BY Zenon, <2>2, <2>3, <2>4, DownloadStep
  <1>4. CASE at[d] \notin {"serve", "done"}
    <2>1. /\ To(d, "failed") /\ Release(d)
          /\ library' = library \/ (at[d] = "fetch" /\ library' = library \cup {d})
          /\ disk' = [disk EXCEPT ![d] = IF Detached(d) \/ d \in library' THEN @ ELSE 0]
          /\ readers' = [v \in Upload |-> IF v = d /\ d \notin library' THEN {} ELSE readers[v]]
      BY Zenon, <1>4 DEF Leave, DownloadFacts, DownloadInv
    <2>2. \A v \in Upload : readers'[v] = readers[v]
      BY Zenon, <2>1 DEF DownloadFacts
    <2>3. /\ at' \in [Transfer -> Places] /\ at'[d] = "failed"
          /\ reserved' \in [Transfer -> Nat] /\ reserved'[d] = 0
          /\ disk' \in [Transfer -> Nat]
          /\ disk'[d] = (IF d \in library' THEN disk[d] ELSE 0)
          /\ \A x \in Transfer \ {d} :
               at'[x] = at[x] /\ reserved'[x] = reserved[x] /\ disk'[x] = disk[x]
      BY Zenon, <2>1, LeavesEffect DEF DownloadFacts
    <2>4. Types'
      BY Zenon, <1>1, <1>2, <2>1, <2>3 DEF DownloadFacts, Types
    <2>5. OnlyOf(d)
      BY Zenon, <1>1, <1>2, <2>1, <2>2, <2>3 DEF OnlyOf
    <2>6. DownloadInv(d)'
      <3>0. at[d] # "failed" /\ d \notin library
        BY Zenon, NotInLibrary DEF Leave
      <3>1. d \in library' => disk[d] <= size[d] /\ position[d] <= size[d]
        BY Zenon, <2>1, <3>0 DEF DownloadFacts, DownloadInv
      <3>2. /\ d \in library' => disk'[d] <= size'[d] /\ position'[d] <= size'[d]
            /\ d \notin library' => disk'[d] = 0 /\ disk'[d] <= reserved'[d]
        BY <1>1, <2>3, <3>1
      <3> QED
        BY Zenon, <2>3, <3>2 DEF DownloadInv
    <2> QED
      BY Zenon, <2>4, <2>5, <2>6, DownloadStep
  <1> QED
    BY Zenon, <1>3, <1>4

(* A thread of the library lets go of the file. *)
LEMMA LibraryLetsGo ==
  ASSUME SpoolInv, NEW t \in Transfer, LibraryEnds(t)
  PROVE  SpoolInv'
  <1>1. /\ t \in library /\ library' = library \ {t}
        /\ UNCHANGED <<at, reserved, size, task, header, gone, position>>
    BY Zenon DEF LibraryEnds, downVars
  <1>2. /\ disk' \in [Transfer -> Nat] /\ disk'[t] = 0
        /\ \A x \in Transfer \ {t} : disk'[x] = disk[x]
    BY Zenon DEF LibraryEnds, SpoolInv, Types
  <1>3. /\ DOMAIN readers' = Upload
        /\ \A v \in Upload : readers'[v] = IF v = t THEN {} ELSE readers[v]
    BY Zenon DEF LibraryEnds
  <1>4. Types'
    BY Zenon, <1>1, <1>2, <1>3 DEF SpoolInv, Types
  <1>5. OnlyOf(t)
    BY Zenon, <1>1, <1>2, <1>3 DEF OnlyOf
  <1>6. CASE t \in Upload
    <2> UploadFacts(t)
      BY Zenon, <1>6, UploadHas
    <2>1. at[t] = "failed" /\ task[t] = "none" /\ t \in gone /\ t \notin library'
      BY Zenon, <1>1 DEF UploadFacts, UploadInv
    <2>2. UploadInv(t)'
      BY Zenon, <1>1, <1>2, <2>1 DEF UploadInv
    <2>3. ReaderInv(t)'
      BY Zenon, <1>3, <1>6 DEF ReaderInv
    <2> QED
      BY Zenon, <1>4, <1>5, <1>6, <2>2, <2>3, UploadStep
  <1>7. CASE t \in Download
    <2> DownloadFacts(t)
      BY Zenon, <1>7, DownloadHas
    <2>1. at[t] = "failed" /\ t \notin library' /\ disk'[t] <= reserved'[t]
      BY <1>1, <1>2 DEF DownloadFacts, DownloadInv
    <2>2. DownloadInv(t)'
      BY Zenon, <1>1, <1>2, <2>1 DEF DownloadInv
    <2> QED
      BY Zenon, <1>4, <1>5, <1>7, <2>2, DownloadStep
  <1> QED
    BY Zenon, <1>6, <1>7 DEF Transfer

-----------------------------------------------------------------------------
(* SpoolInv is inductive. *)

(* The invariant is inductive.                                             *)
LEMMA SpoolInit == Init => SpoolInv
  <1> SUFFICES ASSUME Init PROVE SpoolInv
    OBVIOUS
  <1>1. Types
    BY SizesAssumption DEF Init, Types, Places, Transfer
  <1>2. ASSUME NEW u \in Upload PROVE UploadInv(u) /\ ReaderInv(u)
    BY Zenon, SizesAssumption DEF Init, UploadInv, ReaderInv, Transfer
  <1>3. ASSUME NEW d \in Download PROVE DownloadInv(d)
    BY SizesAssumption DEF Init, DownloadInv, Transfer
  <1> QED
    BY Zenon, <1>1, <1>2, <1>3 DEF SpoolInv

LEMMA SpoolNext == SpoolInv /\ [Next]_vars => SpoolInv'
  <1> SUFFICES ASSUME SpoolInv, [Next]_vars PROVE SpoolInv'
    OBVIOUS
  <1>1. ASSUME NEW u \in Upload, UploadNext(u) PROVE SpoolInv'
    BY Zenon, <1>1, BeginUpload, StageUpload, RunBlocking, ResumeUpload, OpensReader, ReadsAt,
       UploadsStaged, SendsMessage DEF UploadNext
  <1>2. ASSUME NEW d \in Download, DownloadNext(d) PROVE SpoolInv'
    <2>1. CASE Receive(d)
      BY Zenon, <2>1, Unmoved DEF Receive, upVars
    <2> QED
      BY Zenon, <1>2, <2>1, Downloads, BeginDownload, Writes, Seals, Streams DEF DownloadNext
  <1>3. ASSUME NEW t \in Transfer, Leave(t) \/ LibraryEnds(t) PROVE SpoolInv'
    BY Zenon, <1>3, UploadLeft, DownloadLeft, LibraryLetsGo DEF Transfer
  <1>4. CASE UNCHANGED vars
    BY Zenon, <1>4, Unmoved DEF vars
  <1> QED
    BY Zenon, <1>1, <1>2, <1>3, <1>4 DEF Next

(* Reservation, file, blocking task and place of every transfer agree, in    *)
(* every step of push, finish, download, stream_spooled and of a client      *)
(* leaving.                                                                  *)
THEOREM SpoolInvariant == Spec => []SpoolInv
  BY SpoolInit, SpoolNext, PTL DEF Spec

(* A transfer's file never outgrows its reservation, but for a file that     *)
(* outlives its dropped call, in the blocking write of an upload or in a     *)
(* thread of the library: it keeps to media_max_bytes and the cipher's       *)
(* overhead (upload.rs push and finish, download.rs write).                  *)
THEOREM FilesAreCovered == Spec => []Covered
  <1>1. ASSUME SpoolInv PROVE Covered
    <2>1. ASSUME NEW u \in Upload
          PROVE  \/ disk[u] <= reserved[u]
                 \/ Orphaned(u) /\ disk[u] <= MediaMax + CIPHERTEXT_OVERHEAD
      <3> UploadFacts(u)
        BY Zenon, <1>1, UploadHas
      <3>1. CASE at[u] \in {"new", "stream", "push", "finish", "cdn"}
        BY <3>1, SizesAssumption DEF UploadFacts, UploadInv
      <3>2. CASE at[u] \in {"refused", "failed", "done", "send"}
        BY <3>2 DEF UploadFacts, UploadInv, Orphaned
      <3> QED
        BY Zenon, <3>1, <3>2 DEF UploadFacts, UploadInv
    <2>2. ASSUME NEW d \in Download
          PROVE  \/ disk[d] <= reserved[d]
                 \/ Orphaned(d) /\ disk[d] <= MediaMax + CIPHERTEXT_OVERHEAD
      <3> DownloadFacts(d)
        BY Zenon, <1>1, DownloadHas
      <3>1. CASE d \in library
        BY <3>1, SizesAssumption DEF DownloadFacts, DownloadInv, Orphaned
      <3> QED
        BY Zenon, <3>1 DEF DownloadFacts, DownloadInv
    <2> QED
      BY Zenon, <2>1, <2>2 DEF Covered, Transfer
  <1> QED
    BY <1>1, SpoolInvariant, PTL

(* The CDN sees only a finished file within the limit whose header and quote *)
(* were found good (messaging_service.rs send_media, media_transfer.rs).     *)
THEOREM CdnSeesChecked == Spec => []CheckedBeforeCdn
  <1>1. ASSUME SpoolInv PROVE CheckedBeforeCdn
    <2> SUFFICES ASSUME NEW u \in Upload, at[u] \in {"cdn", "send"}
                 PROVE  /\ header[u] = "good" /\ size[u] <= MediaMax
                        /\ at[u] = "cdn" => disk[u] > size[u] + Mac /\ task[u] = "none"
      BY Zenon DEF CheckedBeforeCdn
    <2> QED
      BY <1>1, UploadHas, SizesAssumption DEF UploadFacts, UploadInv
  <1> QED
    BY <1>1, SpoolInvariant, PTL

(* Every attempt of the CDN upload reads from the byte it was opened at      *)
(* (ciphertext.rs reader_from).                                              *)
THEOREM AttemptsReadFromTheirStart == Spec => []AttemptsStartRight
  <1>1. SpoolInv => AttemptsStartRight
    BY Zenon DEF SpoolInv, ReaderInv, AttemptsStartRight
  <1> QED
    BY <1>1, SpoolInvariant, PTL
=============================================================================
