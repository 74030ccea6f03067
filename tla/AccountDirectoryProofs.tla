----------------------- MODULE AccountDirectoryProofs -----------------------
(***************************************************************************)
(* Proofs about AccountDirectory, for any number of references, calls and   *)
(* streams, any capacity of created_tx and any bounds.                      *)
(***************************************************************************)
EXTENDS AccountDirectory, TLAPS

Creating == {"map", "publish", "send"}
DeletePC == {"stop", "erase", "unmap", "forget"}

CallType == [pc : CallPC, u : Uuid \cup {None}, ref : Ref \cup {None}]
HistRec == [made : SUBSET Uuid, gone : SUBSET Uuid, asked : SUBSET Uuid,
            crossed : SUBSET Ref, late : SUBSET Uuid, unsure : SUBSET Uuid]
HistType ==
  /\ hist \in HistRec
  /\ \A s \in Stream : stream[s].cursor <= Len(created)

(* A daemon that is not loaded has nothing in memory; streams are opened    *)
(* only on a loaded one, in behaviours that have them.                      *)
DownInv ==
  /\ ~up => /\ \A c \in Caller : call[c] = Idle
            /\ handles = {} /\ bots = {}
  /\ ~up \/ ~watched => \A s \in Stream : stream[s].at = "none"

(* Uuids in use have been drawn. *)
Drawn ==
  /\ \A u \in rows \cup handles \cup hist.made \cup hist.gone : u <= minted
  /\ \A r \in Ref : by_external[r] <= minted
  /\ \A c \in Caller : call[c].pc \notin {"idle", "insert"} =>
       call[c].u \in Uuid /\ call[c].u <= minted

(* What a call relies on while it is under way. *)
CallInv(c) ==
  /\ call[c].pc \in Creating \cup DeletePC => call[c].ref = refOf[call[c].u]
  /\ call[c].pc \in Creating =>
       /\ call[c].u \notin hist.made
       /\ \A d \in Caller : call[d].pc \in Creating /\ call[d].u = call[c].u => d = c
  /\ call[c].pc \in {"map", "publish"} =>
       /\ call[c].u \in rows /\ call[c].u \notin handles
       /\ \A d \in Caller : call[d].pc \in DeletePC => call[d].u # call[c].u
  /\ call[c].pc = "send" /\ call[c].u \notin hist.asked =>
       call[c].u \in rows /\ call[c].u \in handles
  /\ call[c].pc \in DeletePC => call[c].u \in hist.asked
  /\ call[c].pc \in {"unmap", "forget"} => call[c].u \notin rows
  /\ call[c].pc = "forget" => \A r \in Ref : by_external[r] # call[c].u

(* What was announced is announced once, and found until a delete. *)
MadeInv ==
  /\ \A i \in 1..Len(created) : created[i] \in hist.made
  /\ \A i, j \in 1..Len(created) : created[i] = created[j] => i = j
  /\ \A u \in hist.made : u \in hist.asked \/ (u \in rows /\ (up => u \in handles))

(* Some call is at one of the steps P for account u. *)
Doing(P, u) == \E c \in Caller : call[c].pc \in P /\ call[c].u = u

(* An account the directory vouches for: its row was not left by a create   *)
(* that went no further.                                                    *)
Trusted(u) == u \notin hist.unsure \/ u \in hist.made \/ Doing(Creating, u)
Present(u) == u \in handles \/ Doing(DeletePC, u)

(* The references: unique among the rows, and mapped to an account that has *)
(* them.                                                                    *)
RowRefs == \A u, v \in rows : refOf[u] = refOf[v] /\ refOf[u] # None => u = v
MapRefs == \A r \in Ref : by_external[r] # None => refOf[by_external[r]] = r

(* The reference of a row, if it was never taken over, is that row's alone, *)
(* and mapped to it unless its create is about to.                          *)
OwnRef(v) ==
  refOf[v] \in Ref \ hist.crossed /\ Trusted(v) =>
    /\ \A u \in Uuid : Present(u) /\ refOf[u] = refOf[v] => u = v
    /\ up => by_external[refOf[v]] = v \/ Doing({"map"}, v)

(* A mapped reference has its row, or is about to be removed, or its row    *)
(* was erased by a delete that went no further.                             *)
LiveRef(r) ==
  up /\ by_external[r] # None =>
    \/ by_external[r] \in rows \/ by_external[r] \in hist.unsure
    \/ Doing({"unmap"}, by_external[r])

RefInv ==
  /\ RowRefs /\ MapRefs
  /\ \A v \in rows : OwnRef(v)
  /\ \A r \in Ref : LiveRef(r)

(* The handles are the rows, but for the calls between the two and the      *)
(* writes whose calls went no further.                                      *)
HandleInv ==
  \A u \in Uuid : u \in hist.unsure \/
    /\ u \in handles => u \in rows \/ Doing({"unmap", "forget"}, u)
    /\ up /\ u \in rows => u \in handles \/ Doing({"map", "publish"}, u)

BotInv ==
  /\ \A c, d \in Caller :
       call[c].pc \in DeletePC /\ call[d].pc = "connect" /\ call[c].u = call[d].u =>
         call[c].u \in hist.late
  /\ \A c \in Caller : call[c].pc = "erase" =>
       call[c].u \notin bots \/ call[c].u \in hist.late
  /\ \A c \in Caller : call[c].pc = "connect" =>
       call[c].u \in rows \/ call[c].u \in hist.late \/ call[c].u \in hist.unsure
  /\ \A u \in bots : u \in rows \/ u \in hist.late \/ u \in hist.unsure

(* The handles whose creation has been announced. *)
Announced(u) == u \in handles /\ ~Doing({"send"}, u)
Awaits(s, u) == \E i \in (stream[s].cursor + 1)..Len(created) : created[i] = u

StreamInv(s) ==
  /\ stream[s].at \notin {"follow", "marking"} =>
       \A u \in Uuid : stream[s].forwarders[u] = 0
  /\ stream[s].at \in {"follow", "marking"} => \A u \in Uuid :
       /\ u \in stream[s].snapshot => stream[s].forwarders[u] = 1
       /\ u \notin stream[s].snapshot =>
            \/ stream[s].forwarders[u] = 0
            \/ /\ stream[s].forwarders[u] = 1
               /\ \E i \in 1..stream[s].cursor : created[i] = u
  /\ stream[s].at = "list" => \A u \in Uuid : Announced(u) =>
       u \in stream[s].snapshot \/ u \in stream[s].todo \/ Awaits(s, u)
  /\ stream[s].at \in {"follow", "marking"} => \A u \in Uuid : Announced(u) =>
       stream[s].forwarders[u] > 0 \/ u \in stream[s].gap \/ Awaits(s, u)

DirInv ==
  /\ TypeOK /\ HistType /\ DownInv /\ Drawn /\ (\A c \in Caller : CallInv(c)) /\ MadeInv
  /\ DeletedStaysGone /\ RefInv /\ HandleInv /\ BotInv /\ \A s \in Stream : StreamInv(s)
-----------------------------------------------------------------------------
(* The assumptions on the constants, and the types of the state.           *)
LEMMA Constants ==
  /\ MaxAccounts \in Nat /\ MaxRestarts \in Nat /\ CreatedCap \in Nat
  /\ Uuid \subseteq Nat /\ None \notin Uuid /\ None \notin Ref /\ None \in Nat
  BY AccountDirectoryAssumption DEF Uuid, None

LEMMA TypeFacts ==
  ASSUME TypeOK
  PROVE  /\ call \in [Caller -> CallType]
         /\ \A c \in Caller : /\ call[c].pc \in CallPC
                              /\ call[c].u \in Uuid \cup {None}
                              /\ call[c].ref \in Ref \cup {None}
  BY Zenon DEF TypeOK, CallType

LEMMA BecomeFacts ==
  ASSUME TypeOK, NEW c \in Caller, NEW v \in CallType, Become(c, v)
  PROVE  /\ call' \in [Caller -> CallType]
         /\ call'[c] = v
         /\ \A d \in Caller : d # c => call'[d] = call[d]
  BY Zenon, TypeFacts DEF Become

(* A call that goes on keeps its account and its reference. *)
LEMMA GoOnFacts ==
  ASSUME TypeOK, NEW c \in Caller, NEW pc \in CallPC,
         Become(c, [call[c] EXCEPT !.pc = pc])
  PROVE  /\ call' \in [Caller -> CallType]
         /\ call'[c].pc = pc /\ call'[c].u = call[c].u /\ call'[c].ref = call[c].ref
         /\ \A d \in Caller : d # c => call'[d] = call[d]
  <1>1. [call[c] EXCEPT !.pc = pc] \in CallType
    BY Zenon, TypeFacts DEF CallType
  <1>2. /\ [call[c] EXCEPT !.pc = pc].pc = pc
        /\ [call[c] EXCEPT !.pc = pc].u = call[c].u
        /\ [call[c] EXCEPT !.pc = pc].ref = call[c].ref
    BY Zenon, TypeFacts DEF CallType
  <1> QED
    BY Zenon, <1>1, <1>2, BecomeFacts

LEMMA IdleFacts ==
  /\ Idle \in CallType /\ Idle.pc = "idle" /\ Idle.u = None /\ Idle.ref = None
  BY Zenon DEF Idle, CallType, CallPC

(* A step that announces nothing new to the streams. *)
LEMMA StreamsKept ==
  ASSUME DirInv, stream' = stream, created' = created,
         \A u \in Uuid : Announced(u)' => Announced(u)
  PROVE  \A s \in Stream : StreamInv(s)'
  BY DEF DirInv, StreamInv, Awaits

(* A step that leaves the rows and the references alone, and starts and     *)
(* ends no call at the steps that touch them.                               *)
LEMMA RefsKept ==
  ASSUME DirInv, UNCHANGED <<rows, refOf, by_external, envVars>>, hist'.crossed = hist.crossed,
         hist'.unsure = hist.unsure,
         \A u \in Uuid : /\ Trusted(u)' => Trusted(u)
                         /\ Present(u)' => Present(u)
                         /\ Doing({"map"}, u) => Doing({"map"}, u)'
                         /\ Doing({"unmap"}, u) => Doing({"unmap"}, u)'
  PROVE  RefInv'
  <1>1. RowRefs' /\ MapRefs'
    BY Zenon DEF DirInv, RefInv, RowRefs, MapRefs
  <1>2. \A v \in rows' : OwnRef(v)'
    BY Zenon DEF DirInv, RefInv, OwnRef, envVars, TypeOK
  <1>3. \A r \in Ref : LiveRef(r)'
    BY Zenon, Constants DEF DirInv, RefInv, LiveRef, envVars, TypeOK
  <1> QED
    BY Zenon, <1>1, <1>2, <1>3 DEF RefInv

-----------------------------------------------------------------------------
(* MapRef preserves the invariant. *)
LEMMA MapRefKeeps ==
  ASSUME DirInv, NEW c \in Caller, MapRef(c)
  PROVE  DirInv'
  <1> USE Constants
  <1>1. /\ call' \in [Caller -> CallType]
        /\ call[c].pc = "map" /\ call'[c].pc = "publish"
        /\ call'[c].u = call[c].u /\ call'[c].ref = call[c].ref
        /\ \A d \in Caller : d # c => call'[d] = call[d]
    BY Zenon, GoOnFacts DEF MapRef, DirInv, CallPC
  <1>2. /\ UNCHANGED <<rows, refOf, minted, handles, created, bots, stream, envVars, hist>>
        /\ call[c].u \in Uuid /\ call[c].u <= minted /\ call[c].u \in rows
        /\ call[c].ref = refOf[call[c].u]
        /\ call[c].u \notin handles
        /\ \A d \in Caller : call[d].pc \in DeletePC => call[d].u # call[c].u
    BY Zenon, <1>1 DEF MapRef, DirInv, Drawn, CallInv, Creating, DeletePC
  <1>3. /\ by_external' \in [Ref -> Uuid \cup {None}]
        /\ \A r \in Ref : r # call[c].ref => by_external'[r] = by_external[r]
        /\ call[c].ref \in Ref => by_external'[call[c].ref] = call[c].u
    BY Zenon, <1>2, TypeFacts DEF MapRef, DirInv, TypeOK
  <1>4. \A u \in Uuid :
          /\ Doing(Creating, u)' <=> Doing(Creating, u)
          /\ Doing(DeletePC, u)' <=> Doing(DeletePC, u)
          /\ u # call[c].u => (Doing({"map"}, u)' <=> Doing({"map"}, u))
          /\ Doing({"unmap"}, u)' <=> Doing({"unmap"}, u)
          /\ Doing({"unmap", "forget"}, u)' <=> Doing({"unmap", "forget"}, u)
          /\ Doing({"map", "publish"}, u)' <=> Doing({"map", "publish"}, u)
          /\ Doing({"send"}, u)' <=> Doing({"send"}, u)
    BY <1>1 DEF Doing, Creating, DeletePC
  <1>5. TypeOK' /\ HistType' /\ DownInv' /\ Drawn'
    <2>1. TypeOK'
      BY Zenon, <1>1, <1>2, <1>3 DEF DirInv, TypeOK, CallType, envVars
    <2>2. HistType'
      BY Zenon, <1>2 DEF DirInv, HistType
    <2>3. DownInv'
      BY Zenon, <1>1, <1>2, IdleFacts DEF DirInv, DownInv, envVars
    <2>4. Drawn'
      BY Zenon, <1>1, <1>2, <1>3 DEF DirInv, Drawn, TypeOK
    <2> QED
      BY Zenon, <2>1, <2>2, <2>3, <2>4
  <1>6. \A d \in Caller : CallInv(d)'
    BY <1>1, <1>2, <1>3 DEF DirInv, CallInv, Creating, DeletePC
  <1>7. MadeInv' /\ DeletedStaysGone'
    BY <1>2, <1>3 DEF DirInv, MadeInv, envVars, DeletedStaysGone, resolve
  <1>8. RefInv'
    <2>1. RowRefs' /\ MapRefs' /\ RowRefs
      BY Zenon, <1>2, <1>3 DEF DirInv, RefInv, RowRefs, MapRefs, TypeOK
    <2>2. ASSUME NEW v \in rows' PROVE OwnRef(v)'
      <3>1. v \in rows /\ OwnRef(v) /\ v \in Uuid
        BY Zenon, <1>2 DEF DirInv, RefInv, TypeOK
      <3>2. Trusted(v)' => Trusted(v)
        BY Zenon, <1>2, <1>4, <3>1 DEF Trusted, envVars
      <3>3. \A u \in Uuid : Present(u)' => Present(u)
        BY Zenon, <1>2, <1>4 DEF Present
      <3>4. refOf[v] \in Ref /\ refOf[v] = call[c].ref => v = call[c].u
        BY Zenon, <1>2, <2>1, <3>1 DEF RowRefs
      <3> QED
        BY Zenon, <3>1, <3>2, <3>3, <3>4, <1>2, <1>3, <1>4 DEF OwnRef, envVars
    <2>3. ASSUME NEW r \in Ref PROVE LiveRef(r)'
      <3>1. LiveRef(r) /\ by_external[r] \in Uuid \cup {None}
        BY Zenon DEF DirInv, RefInv, TypeOK
      <3> QED
        BY Zenon, <3>1, <1>2, <1>3, <1>4 DEF LiveRef, envVars
    <2> QED
      BY Zenon, <2>1, <2>2, <2>3 DEF RefInv
  <1>9. HandleInv' /\ BotInv'
    <2>1. HandleInv'
      BY Zenon, <1>2, <1>4 DEF DirInv, HandleInv, envVars
    <2>2. BotInv'
      BY <1>1, <1>2 DEF DirInv, BotInv, DeletePC, envVars
    <2> QED
      BY Zenon, <2>1, <2>2
  <1>10. \A s \in Stream : StreamInv(s)'
    <2>1. \A u \in Uuid : Announced(u)' => Announced(u)
      BY Zenon, <1>2, <1>4 DEF Announced
    <2> QED
      BY Zenon, <1>2, <2>1, StreamsKept
  <1> QED
    BY Zenon, <1>5, <1>6, <1>7, <1>8, <1>9, <1>10 DEF DirInv

(* AddHandle preserves the invariant. *)
LEMMA AddHandleKeeps ==
  ASSUME DirInv, NEW c \in Caller, AddHandle(c)
  PROVE  DirInv'
  <1> USE Constants
  <1>1. /\ call' \in [Caller -> CallType]
        /\ call[c].pc = "publish" /\ call'[c].pc = "send"
        /\ call'[c].u = call[c].u /\ call'[c].ref = call[c].ref
        /\ \A d \in Caller : d # c => call'[d] = call[d]
    BY Zenon, GoOnFacts DEF AddHandle, DirInv, CallPC
  <1>2. /\ UNCHANGED <<rows, refOf, minted, by_external, created, bots, stream, envVars, hist>>
        /\ handles' = handles \cup {call[c].u}
        /\ call[c].u \in Uuid /\ call[c].u <= minted /\ call[c].u \in rows
        /\ call[c].ref = refOf[call[c].u] /\ call[c].u \notin hist.made
        /\ call[c].u \notin handles
        /\ \A d \in Caller : call[d].pc \in DeletePC => call[d].u # call[c].u
        /\ \A d \in Caller : call[d].pc \in Creating /\ call[d].u = call[c].u => d = c
    BY Zenon, <1>1 DEF AddHandle, DirInv, Drawn, CallInv, Creating, DeletePC
  <1>4. \A u \in Uuid :
          /\ Doing(Creating, u)' <=> Doing(Creating, u)
          /\ Doing(DeletePC, u)' <=> Doing(DeletePC, u)
          /\ Doing({"map"}, u)' <=> Doing({"map"}, u)
          /\ Doing({"unmap"}, u)' <=> Doing({"unmap"}, u)
          /\ Doing({"unmap", "forget"}, u)' <=> Doing({"unmap", "forget"}, u)
          /\ u # call[c].u => (Doing({"map", "publish"}, u)' <=> Doing({"map", "publish"}, u))
          /\ Doing({"send"}, u)' <=> Doing({"send"}, u) \/ u = call[c].u
    BY ZenonT(30), <1>1 DEF Doing, Creating, DeletePC
  <1>5. TypeOK' /\ HistType' /\ DownInv' /\ Drawn'
    <2>1. TypeOK'
      BY Zenon, <1>1, <1>2 DEF DirInv, TypeOK, CallType, envVars
    <2>2. HistType'
      BY Zenon, <1>2 DEF DirInv, HistType
    <2>3. DownInv'
      BY Zenon, <1>1, <1>2, IdleFacts DEF DirInv, DownInv, envVars
    <2>4. Drawn'
      BY Zenon, <1>1, <1>2 DEF DirInv, Drawn, TypeOK
    <2> QED
      BY Zenon, <2>1, <2>2, <2>3, <2>4
  <1>6. \A d \in Caller : CallInv(d)'
    BY <1>1, <1>2 DEF DirInv, CallInv, Creating, DeletePC
  <1>7. MadeInv' /\ DeletedStaysGone'
    BY <1>2 DEF DirInv, MadeInv, envVars, DeletedStaysGone, resolve
  <1>8. RefInv'
    <2>1. RowRefs' /\ MapRefs' /\ RowRefs
      BY Zenon, <1>2 DEF DirInv, RefInv, RowRefs, MapRefs
    <2>2. ASSUME NEW v \in rows' PROVE OwnRef(v)'
      <3>1. v \in rows /\ OwnRef(v) /\ v \in Uuid
        BY Zenon, <1>2 DEF DirInv, RefInv, TypeOK
      <3>2. Trusted(v)' => Trusted(v)
        BY Zenon, <1>2, <1>4, <3>1 DEF Trusted, envVars
      <3>3. \A u \in Uuid : Present(u)' => Present(u) \/ u = call[c].u
        BY Zenon, <1>2, <1>4 DEF Present
      <3>4. refOf[v] \in Ref /\ refOf[v] = refOf[call[c].u] => v = call[c].u
        BY Zenon, <1>2, <2>1, <3>1 DEF RowRefs
      <3> QED
        BY Zenon, <3>1, <3>2, <3>3, <3>4, <1>2, <1>4 DEF OwnRef, envVars
    <2>3. ASSUME NEW r \in Ref PROVE LiveRef(r)'
      <3>1. LiveRef(r) /\ by_external[r] \in Uuid \cup {None}
        BY Zenon DEF DirInv, RefInv, TypeOK
      <3> QED
        BY Zenon, <3>1, <1>2, <1>4 DEF LiveRef, envVars
    <2> QED
      BY Zenon, <2>1, <2>2, <2>3 DEF RefInv
  <1>9. HandleInv' /\ BotInv'
    <2>1. HandleInv'
      BY Zenon, <1>2, <1>4 DEF DirInv, HandleInv, envVars
    <2>2. BotInv'
      BY <1>1, <1>2 DEF DirInv, BotInv, DeletePC, envVars
    <2> QED
      BY Zenon, <2>1, <2>2
  <1>10. \A s \in Stream : StreamInv(s)'
    <2>1. \A u \in Uuid : Announced(u)' => Announced(u)
      BY Zenon, <1>2, <1>4 DEF Announced
    <2> QED
      BY Zenon, <1>2, <2>1, StreamsKept
  <1> QED
    BY Zenon, <1>5, <1>6, <1>7, <1>8, <1>9, <1>10 DEF DirInv

(* SendCreated preserves the invariant. *)
LEMMA SendCreatedKeeps ==
  ASSUME DirInv, NEW c \in Caller, SendCreated(c)
  PROVE  DirInv'
  <1> USE Constants, IdleFacts
  <1>1. /\ call' \in [Caller -> CallType]
        /\ call[c].pc = "send" /\ call'[c] = Idle
        /\ \A d \in Caller : d # c => call'[d] = call[d]
    BY Zenon, BecomeFacts DEF SendCreated, DirInv
  <1>2. /\ UNCHANGED <<rows, refOf, minted, handles, by_external, bots, stream, envVars>>
        /\ call[c].u \in Uuid /\ call[c].u <= minted
        /\ call[c].u \notin hist.made
        /\ call[c].u \notin hist.asked => call[c].u \in rows /\ call[c].u \in handles
        /\ \A d \in Caller : call[d].pc \in Creating /\ call[d].u = call[c].u => d = c
    BY Zenon, <1>1 DEF SendCreated, DirInv, Drawn, CallInv, Creating, DeletePC
  <1>3. /\ created' = Append(created, call[c].u) /\ created \in Seq(Uuid)
        /\ created' \in Seq(Uuid) /\ Len(created') = Len(created) + 1
        /\ Len(created) \in Nat
        /\ \A i \in 1..Len(created) : created'[i] = created[i]
        /\ created'[Len(created) + 1] = call[c].u
    BY <1>2 DEF SendCreated, DirInv, TypeOK
  <1>h. /\ hist' \in HistRec
        /\ hist'.made = hist.made \cup {call[c].u}
        /\ hist'.gone = hist.gone /\ hist'.asked = hist.asked
        /\ hist'.crossed = hist.crossed /\ hist'.late = hist.late /\ hist'.unsure = hist.unsure
    BY Zenon, <1>2 DEF SendCreated, DirInv, HistType, HistRec
  <1>4. \A u \in Uuid :
          /\ Doing(Creating, u)' => Doing(Creating, u)
          /\ Doing(Creating, call[c].u)
          /\ Doing(DeletePC, u)' <=> Doing(DeletePC, u)
          /\ Doing({"map"}, u)' <=> Doing({"map"}, u)
          /\ Doing({"unmap"}, u)' <=> Doing({"unmap"}, u)
          /\ Doing({"unmap", "forget"}, u)' <=> Doing({"unmap", "forget"}, u)
          /\ Doing({"map", "publish"}, u)' <=> Doing({"map", "publish"}, u)
          /\ u # call[c].u => (Doing({"send"}, u)' <=> Doing({"send"}, u))
    BY Zenon, <1>1 DEF Doing, Creating, DeletePC
  <1>5. TypeOK' /\ HistType' /\ DownInv' /\ Drawn'
    <2>1. TypeOK'
      BY Zenon, <1>1, <1>2, <1>3 DEF DirInv, TypeOK, CallType, envVars
    <2>2. HistType'
      BY <1>2, <1>3, <1>h DEF DirInv, HistType, TypeOK
    <2>3. DownInv'
      BY Zenon, <1>1, <1>2 DEF DirInv, DownInv, envVars
    <2>4. Drawn'
      BY Zenon, <1>1, <1>2, <1>h DEF DirInv, Drawn, TypeOK
    <2> QED
      BY Zenon, <2>1, <2>2, <2>3, <2>4
  <1>6. \A d \in Caller : CallInv(d)'
    BY <1>1, <1>2, <1>h DEF DirInv, CallInv, Creating, DeletePC
  <1>7. MadeInv' /\ DeletedStaysGone'
    <2>1. MadeInv'
      BY <1>2, <1>3, <1>h DEF DirInv, MadeInv, envVars
    <2>2. DeletedStaysGone'
      BY Zenon, <1>2, <1>h DEF DirInv, DeletedStaysGone, resolve
    <2> QED
      BY Zenon, <2>1, <2>2
  <1>8. RefInv'
    <2>1. \A u \in Uuid : (Trusted(u)' => Trusted(u)) /\ (Present(u)' => Present(u))
      BY Zenon, <1>2, <1>4, <1>h DEF Trusted, Present, envVars
    <2> QED
      BY Zenon, <1>2, <1>4, <1>h, <2>1, RefsKept
  <1>9. HandleInv' /\ BotInv'
    <2>1. HandleInv'
      BY Zenon, <1>2, <1>4, <1>h DEF DirInv, HandleInv, envVars
    <2>2. BotInv'
      BY <1>1, <1>2, <1>h DEF DirInv, BotInv, DeletePC, envVars
    <2> QED
      BY Zenon, <2>1, <2>2
  <1>10. ASSUME NEW s \in Stream PROVE StreamInv(s)'
    <2>1. /\ stream'[s] = stream[s] /\ stream[s].cursor \in Nat
          /\ stream[s].cursor <= Len(created)
      BY Zenon, <1>2 DEF DirInv, TypeOK, HistType
    <2>2. ASSUME NEW u \in Uuid, Awaits(s, u) \/ u = call[c].u
          PROVE  Awaits(s, u)'
      <3>1. CASE u = call[c].u
        <4>1. Len(created) + 1 \in (stream[s].cursor + 1)..Len(created')
          BY <2>1, <1>3
        <4> QED
          BY Zenon, <2>1, <1>3, <3>1, <4>1 DEF Awaits
      <3>2. CASE Awaits(s, u)
        <4>1. PICK i \in (stream[s].cursor + 1)..Len(created) : created[i] = u
          BY Zenon, <3>2 DEF Awaits
        <4>2. i \in (stream[s].cursor + 1)..Len(created') /\ created'[i] = u
          BY <4>1, <2>1, <1>3
        <4> QED
          BY Zenon, <2>1, <4>2 DEF Awaits
      <3> QED
        BY Zenon, <2>2, <3>1, <3>2
    <2>3. \A i \in 1..stream[s].cursor : created'[i] = created[i]
      BY <2>1, <1>3
    <2>4. \A u \in Uuid : Announced(u)' => Announced(u) \/ u = call[c].u
      BY Zenon, <1>2, <1>4 DEF Announced
    <2>5. StreamInv(s)
      BY Zenon DEF DirInv
    <2>6. stream'[s].at \notin {"follow", "marking"} =>
            \A u \in Uuid : stream'[s].forwarders[u] = 0
      BY Zenon, <2>1, <2>5 DEF StreamInv
    <2>7. stream'[s].at \in {"follow", "marking"} => \A u \in Uuid :
            /\ u \in stream'[s].snapshot => stream'[s].forwarders[u] = 1
            /\ u \notin stream'[s].snapshot =>
                 \/ stream'[s].forwarders[u] = 0
                 \/ /\ stream'[s].forwarders[u] = 1
                    /\ \E i \in 1..stream'[s].cursor : created'[i] = u
      BY ZenonT(30), <2>1, <2>3, <2>5 DEF StreamInv
    <2>8. stream'[s].at = "list" => \A u \in Uuid : Announced(u)' =>
            u \in stream'[s].snapshot \/ u \in stream'[s].todo \/ Awaits(s, u)'
      BY ZenonT(30), <2>1, <2>2, <2>4, <2>5 DEF StreamInv
    <2>9. stream'[s].at \in {"follow", "marking"} => \A u \in Uuid : Announced(u)' =>
            stream'[s].forwarders[u] > 0 \/ u \in stream'[s].gap \/ Awaits(s, u)'
      BY ZenonT(30), <2>1, <2>2, <2>4, <2>5 DEF StreamInv
    <2> QED
      BY Zenon, <2>6, <2>7, <2>8, <2>9 DEF StreamInv
  <1> QED
    BY Zenon, <1>5, <1>6, <1>7, <1>8, <1>9, <1>10 DEF DirInv

-----------------------------------------------------------------------------
(* The steps of a call at which the directory and the table agree on its    *)
(* account.                                                                 *)
Outside == {"idle", "insert", "connect", "stop", "erase"}

(* A step between such positions that leaves the table and the maps alone   *)
(* preserves the invariant, if it does what is said of bots.                *)
LEMMA QuietKeeps ==
  ASSUME DirInv, NEW c \in Caller,
         UNCHANGED <<dirVars, stream, envVars>>,
         call' \in [Caller -> CallType],
         \A d \in Caller : d # c => call'[d] = call[d],
         call[c].pc \in Outside, call'[c].pc \in Outside,
         ~up => call'[c] = Idle /\ bots' = {},
         bots' \subseteq Uuid,
         call'[c].pc \notin {"idle", "insert"} => call'[c].u \in Uuid /\ call'[c].u <= minted,
         call'[c].pc \in DeletePC =>
           /\ call'[c].u \in hist'.asked /\ call'[c].ref = refOf[call'[c].u]
           /\ Present(call'[c].u),
         hist' \in HistRec,
         hist'.made = hist.made, hist'.gone = hist.gone, hist'.crossed = hist.crossed,
         hist'.unsure = hist.unsure,
         hist.asked \subseteq hist'.asked,
         BotInv'
  PROVE  DirInv'
  <1> USE Constants
  <1>1. \A u \in Uuid :
          /\ Doing(Creating, u)' <=> Doing(Creating, u)
          /\ Doing(DeletePC, u)' => Present(u)
          /\ Doing({"map"}, u)' <=> Doing({"map"}, u)
          /\ Doing({"unmap"}, u)' <=> Doing({"unmap"}, u)
          /\ Doing({"unmap", "forget"}, u)' <=> Doing({"unmap", "forget"}, u)
          /\ Doing({"map", "publish"}, u)' <=> Doing({"map", "publish"}, u)
          /\ Doing({"send"}, u)' <=> Doing({"send"}, u)
    BY DEF Doing, Creating, DeletePC, Outside, Present
  <1>2. TypeOK' /\ HistType' /\ DownInv' /\ Drawn'
    <2>1. TypeOK'
      BY Zenon DEF DirInv, TypeOK, CallType, envVars, dirVars
    <2>2. HistType'
      BY Zenon DEF DirInv, HistType, dirVars
    <2>3. DownInv'
      BY Zenon DEF DirInv, DownInv, envVars, dirVars
    <2>4. Drawn'
      BY Zenon DEF DirInv, Drawn, dirVars
    <2> QED
      BY Zenon, <2>1, <2>2, <2>3, <2>4
  <1>3. ASSUME NEW e \in Caller, call[e].pc \in {"map", "publish"}
        PROVE  ~Present(call[e].u)
    BY <1>3 DEF DirInv, CallInv, Present, Doing, DeletePC
  <1>4. \A d \in Caller : CallInv(d)'
    BY <1>3 DEF DirInv, CallInv, Creating, DeletePC, Outside, dirVars
  <1>5. MadeInv' /\ DeletedStaysGone'
    BY DEF DirInv, MadeInv, envVars, dirVars, DeletedStaysGone, resolve
  <1>6. RefInv'
    <2>1. \A u \in Uuid : (Trusted(u)' => Trusted(u)) /\ (Present(u)' => Present(u))
      BY Zenon, <1>1 DEF Trusted, Present, envVars, dirVars
    <2> QED
      BY Zenon, <1>1, <2>1, RefsKept DEF dirVars
  <1>7. HandleInv'
    BY Zenon, <1>1 DEF DirInv, HandleInv, envVars, dirVars
  <1>8. \A s \in Stream : StreamInv(s)'
    <2>1. \A u \in Uuid : Announced(u)' => Announced(u)
      BY Zenon, <1>1 DEF Announced, dirVars
    <2> QED
      BY Zenon, <2>1, StreamsKept DEF dirVars
  <1> QED
    BY Zenon, <1>2, <1>4, <1>5, <1>6, <1>7, <1>8 DEF DirInv

(* BeginCreate preserves the invariant. *)
LEMMA BeginCreateKeeps ==
  ASSUME DirInv, NEW c \in Caller, NEW r \in Ref \cup {None}, BeginCreate(c, r)
  PROVE  DirInv'
  <1> USE Constants, IdleFacts
  <1>1. /\ At("insert", None, r) \in CallType
        /\ At("insert", None, r).pc = "insert"
    BY Zenon DEF At, CallType, CallPC
  <1>2. /\ call' \in [Caller -> CallType] /\ call'[c].pc = "insert" /\ call[c].pc = "idle"
        /\ \A d \in Caller : d # c => call'[d] = call[d]
    BY Zenon, <1>1, BecomeFacts DEF BeginCreate, DirInv
  <1>3. UNCHANGED <<dirVars, bots, stream, envVars, hist>> /\ up
    BY Zenon DEF BeginCreate
  <1>4. BotInv'
    BY <1>2, <1>3 DEF DirInv, BotInv, DeletePC, envVars, dirVars
  <1> QED
    BY Zenon, <1>2, <1>3, <1>4, QuietKeeps DEF Outside, DeletePC, DirInv, HistType, TypeOK

(* A write that has no effect, and a delete dropped while the bot stops. *)
LEMMA NothingKeeps ==
  ASSUME DirInv, NEW c \in Caller, call[c].pc \in {"insert", "erase", "stop"}, Become(c, Idle),
         UNCHANGED <<dirVars, bots, stream, envVars, hist>>
  PROVE  DirInv'
  <1> USE Constants, IdleFacts
  <1>1. /\ call' \in [Caller -> CallType] /\ call'[c] = Idle
        /\ \A d \in Caller : d # c => call'[d] = call[d]
    BY Zenon, BecomeFacts DEF DirInv
  <1>2. BotInv'
    BY <1>1 DEF DirInv, BotInv, DeletePC, envVars, dirVars
  <1> QED
    BY Zenon, <1>1, <1>2, QuietKeeps DEF Outside, DeletePC, DirInv, HistType, TypeOK, DownInv

LEMMA DropCallKeeps ==
  ASSUME DirInv, NEW c \in Caller, DropCall(c)
  PROVE  DirInv'
  BY Zenon, NothingKeeps DEF DropCall

(* BeginConnect, RunBot, BeginDelete and StopBot preserve the invariant. *)
LEMMA BeginConnectKeeps ==
  ASSUME DirInv, NEW c \in Caller, NEW u \in Uuid, BeginConnect(c, u)
  PROVE  DirInv'
  <1> USE Constants, IdleFacts
  <1>1. /\ At("connect", u, None) \in CallType
        /\ At("connect", u, None).pc = "connect" /\ At("connect", u, None).u = u
    BY Zenon DEF At, CallType, CallPC
  <1>2. /\ call' \in [Caller -> CallType] /\ call'[c].pc = "connect" /\ call'[c].u = u
        /\ call[c].pc = "idle"
        /\ \A d \in Caller : d # c => call'[d] = call[d]
    BY Zenon, <1>1, BecomeFacts DEF BeginConnect, DirInv
  <1>3. UNCHANGED <<dirVars, bots, stream, envVars>> /\ up /\ u \in handles /\ u <= minted
    BY Zenon DEF BeginConnect, resolve, DirInv, Drawn
  <1>4. /\ hist' \in HistRec
        /\ hist'.made = hist.made /\ hist'.gone = hist.gone /\ hist'.asked = hist.asked
        /\ hist'.crossed = hist.crossed /\ hist'.unsure = hist.unsure
        /\ hist.late \subseteq hist'.late
        /\ \A d \in Caller : call[d].pc \in DeletePC /\ call[d].u = u => u \in hist'.late
    BY Zenon DEF BeginConnect, DirInv, HistType, HistRec, Deleting, DeletePC
  <1>5. BotInv'
    <2>1. u \in rows \/ u \in hist'.late \/ u \in hist'.unsure
      BY <1>3, <1>4 DEF DirInv, HandleInv, Doing, DeletePC
    <2> QED
      BY <1>2, <1>3, <1>4, <2>1 DEF DirInv, BotInv, DeletePC, envVars, dirVars
  <1> QED
    BY Zenon, <1>2, <1>3, <1>4, <1>5, QuietKeeps DEF Outside, DeletePC, DirInv, TypeOK

(* The steps of connect and delete.                                        *)
LEMMA RunBotKeeps ==
  ASSUME DirInv, NEW c \in Caller, RunBot(c)
  PROVE  DirInv'
  <1> USE Constants, IdleFacts
  <1>1. /\ call' \in [Caller -> CallType] /\ call'[c] = Idle /\ call[c].pc = "connect"
        /\ \A d \in Caller : d # c => call'[d] = call[d]
    BY Zenon, BecomeFacts DEF RunBot, DirInv
  <1>2. /\ UNCHANGED <<dirVars, stream, envVars, hist>>
        /\ bots' \subseteq bots \cup {call[c].u} /\ call[c].u \in Uuid /\ up
        /\ bots' \subseteq Uuid
    BY Zenon, <1>1 DEF RunBot, DirInv, Drawn, DownInv, TypeOK
  <1>3. BotInv'
    <2>1. BotInv /\ rows' = rows /\ hist' = hist
      BY Zenon, <1>2 DEF DirInv, dirVars
    <2> QED
      BY ZenonT(30), <1>1, <1>2, <2>1 DEF BotInv, DeletePC
  <1> QED
    BY Zenon, <1>1, <1>2, <1>3, QuietKeeps DEF Outside, DeletePC, DirInv, HistType, TypeOK

LEMMA BeginDeleteKeeps ==
  ASSUME DirInv, NEW c \in Caller, NEW u \in Uuid, BeginDelete(c, u)
  PROVE  DirInv'
  <1> USE Constants, IdleFacts
  <1>1. /\ At("stop", u, refOf[u]) \in CallType
        /\ At("stop", u, refOf[u]).pc = "stop" /\ At("stop", u, refOf[u]).u = u
        /\ At("stop", u, refOf[u]).ref = refOf[u]
    BY Zenon DEF At, CallType, CallPC, DirInv, TypeOK
  <1>2. /\ call' \in [Caller -> CallType] /\ call'[c].pc = "stop" /\ call'[c].u = u
        /\ call[c].pc = "idle" /\ call'[c].ref = refOf[u]
        /\ \A d \in Caller : d # c => call'[d] = call[d]
    BY Zenon, <1>1, BecomeFacts DEF BeginDelete, DirInv
  <1>3. /\ UNCHANGED <<dirVars, bots, stream, envVars>> /\ up /\ u \in handles /\ u <= minted
        /\ Present(u)
    BY Zenon DEF BeginDelete, resolve, DirInv, Drawn, Present
  <1>4. /\ hist' \in HistRec
        /\ hist'.made = hist.made /\ hist'.gone = hist.gone
        /\ hist'.asked = hist.asked \cup {u}
        /\ hist'.crossed = hist.crossed /\ hist'.unsure = hist.unsure
        /\ hist.late \subseteq hist'.late
        /\ \A d \in Caller : call[d].pc = "connect" /\ call[d].u = u => u \in hist'.late
    BY Zenon DEF BeginDelete, DirInv, HistType, HistRec, Connecting
  <1>5. BotInv'
    BY <1>2, <1>3, <1>4 DEF DirInv, BotInv, DeletePC, envVars, dirVars
  <1> QED
    BY Zenon, <1>2, <1>3, <1>4, <1>5, QuietKeeps DEF Outside, DirInv, TypeOK

LEMMA StopBotKeeps ==
  ASSUME DirInv, NEW c \in Caller, StopBot(c)
  PROVE  DirInv'
  <1> USE Constants, IdleFacts
  <1>1. /\ call' \in [Caller -> CallType]
        /\ call[c].pc = "stop" /\ call'[c].pc = "erase"
        /\ call'[c].u = call[c].u /\ call'[c].ref = call[c].ref
        /\ \A d \in Caller : d # c => call'[d] = call[d]
    BY Zenon, GoOnFacts DEF StopBot, DirInv, CallPC
  <1>2. /\ UNCHANGED <<dirVars, stream, envVars, hist>>
        /\ bots' = bots \ {call[c].u}
        /\ call[c].u \in Uuid /\ call[c].u <= minted /\ call[c].u \in hist.asked /\ up
        /\ call[c].ref = refOf[call[c].u] /\ Present(call[c].u)
    BY Zenon, <1>1 DEF StopBot, DirInv, Drawn, DownInv, CallInv, Present, Doing, DeletePC
  <1>3. BotInv'
    BY <1>1, <1>2 DEF DirInv, BotInv, DeletePC, envVars, dirVars
  <1> QED
    BY Zenon, <1>1, <1>2, <1>3, QuietKeeps DEF Outside, DirInv, HistType, TypeOK

-----------------------------------------------------------------------------
(* EraseRow preserves the invariant. *)
LEMMA EraseRowKeeps ==
  ASSUME DirInv, NEW c \in Caller, EraseRow(c)
  PROVE  DirInv'
  <1> USE Constants, IdleFacts
  <1>1. /\ call' \in [Caller -> CallType]
        /\ call[c].pc = "erase" /\ call'[c].pc = "unmap"
        /\ call'[c].u = call[c].u /\ call'[c].ref = call[c].ref
        /\ \A d \in Caller : d # c => call'[d] = call[d]
    BY Zenon, GoOnFacts DEF EraseRow, DirInv, CallPC
  <1>2. /\ UNCHANGED <<refOf, minted, handles, by_external, created, bots, stream, envVars, hist>>
        /\ rows' = rows \ {call[c].u}
        /\ call[c].u \in Uuid /\ call[c].u <= minted /\ call[c].u \in hist.asked /\ up
        /\ call[c].ref = refOf[call[c].u]
        /\ \A d \in Caller : call[d].pc \in {"map", "publish"} => call[d].u # call[c].u
    BY Zenon, <1>1 DEF EraseRow, DirInv, Drawn, DownInv, CallInv, DeletePC
  <1>3. \A u \in Uuid :
          /\ Doing(Creating, u)' <=> Doing(Creating, u)
          /\ Doing(DeletePC, u)' <=> Doing(DeletePC, u)
          /\ Doing({"map"}, u)' <=> Doing({"map"}, u)
          /\ Doing({"unmap"}, u)' <=> Doing({"unmap"}, u) \/ u = call[c].u
          /\ Doing({"unmap", "forget"}, u)' <=> Doing({"unmap", "forget"}, u) \/ u = call[c].u
          /\ Doing({"map", "publish"}, u)' <=> Doing({"map", "publish"}, u)
          /\ Doing({"send"}, u)' <=> Doing({"send"}, u)
    BY ZenonT(30), <1>1 DEF Doing, Creating, DeletePC
  <1>4. TypeOK' /\ HistType' /\ DownInv' /\ Drawn'
    <2>1. TypeOK'
      BY Zenon, <1>1, <1>2 DEF DirInv, TypeOK, CallType, envVars
    <2>2. HistType'
      BY Zenon, <1>2 DEF DirInv, HistType
    <2>3. DownInv'
      BY Zenon, <1>1, <1>2 DEF DirInv, DownInv, envVars
    <2>4. Drawn'
      BY Zenon, <1>1, <1>2 DEF DirInv, Drawn
    <2> QED
      BY Zenon, <2>1, <2>2, <2>3, <2>4
  <1>5. \A d \in Caller : CallInv(d)'
    BY <1>1, <1>2 DEF DirInv, CallInv, Creating, DeletePC
  <1>6. MadeInv' /\ DeletedStaysGone'
    BY Zenon, <1>2 DEF DirInv, MadeInv, envVars, DeletedStaysGone, resolve
  <1>7. RefInv'
    <2>1. RowRefs' /\ MapRefs'
      BY Zenon, <1>2 DEF DirInv, RefInv, RowRefs, MapRefs
    <2>2. ASSUME NEW v \in rows' PROVE OwnRef(v)'
      <3>1. v \in rows /\ OwnRef(v) /\ v \in Uuid
        BY Zenon, <1>2 DEF DirInv, RefInv, TypeOK
      <3>2. Trusted(v)' => Trusted(v)
        BY Zenon, <1>2, <1>3, <3>1 DEF Trusted, envVars
      <3>3. \A u \in Uuid : Present(u)' => Present(u)
        BY Zenon, <1>2, <1>3 DEF Present
      <3> QED
        BY Zenon, <3>1, <3>2, <3>3, <1>2, <1>3 DEF OwnRef, envVars
    <2>3. ASSUME NEW r \in Ref PROVE LiveRef(r)'
      <3>1. LiveRef(r) /\ by_external[r] \in Uuid \cup {None}
        BY Zenon DEF DirInv, RefInv, TypeOK
      <3> QED
        BY Zenon, <3>1, <1>2, <1>3 DEF LiveRef, envVars
    <2> QED
      BY Zenon, <2>1, <2>2, <2>3 DEF RefInv
  <1>8. HandleInv' /\ BotInv'
    <2>1. HandleInv'
      BY Zenon, <1>2, <1>3 DEF DirInv, HandleInv, envVars
    <2>2. BotInv'
      BY <1>1, <1>2 DEF DirInv, BotInv, DeletePC, envVars
    <2> QED
      BY Zenon, <2>1, <2>2
  <1>9. \A s \in Stream : StreamInv(s)'
    <2>1. \A u \in Uuid : Announced(u)' => Announced(u)
      BY Zenon, <1>2, <1>3 DEF Announced
    <2> QED
      BY Zenon, <1>2, <2>1, StreamsKept
  <1> QED
    BY Zenon, <1>4, <1>5, <1>6, <1>7, <1>8, <1>9 DEF DirInv

(* UnmapRef preserves the invariant. *)
LEMMA UnmapRefKeeps ==
  ASSUME DirInv, NEW c \in Caller, UnmapRef(c)
  PROVE  DirInv'
  <1> USE Constants, IdleFacts
  <1>1. /\ call' \in [Caller -> CallType]
        /\ call[c].pc = "unmap" /\ call'[c].pc = "forget"
        /\ call'[c].u = call[c].u /\ call'[c].ref = call[c].ref
        /\ \A d \in Caller : d # c => call'[d] = call[d]
    BY Zenon, GoOnFacts DEF UnmapRef, DirInv, CallPC
  <1>2. /\ UNCHANGED <<rows, refOf, minted, handles, created, bots, stream, envVars, hist>>
        /\ call[c].u \in Uuid /\ call[c].u <= minted /\ call[c].u \in hist.asked /\ up
        /\ call[c].ref = refOf[call[c].u] /\ call[c].u \notin rows
        /\ Present(call[c].u)
    BY Zenon, <1>1 DEF UnmapRef, DirInv, Drawn, DownInv, CallInv, DeletePC, Present, Doing
  <1>3. /\ by_external' \in [Ref -> Uuid \cup {None}]
        /\ \A r \in Ref : r # call[c].ref => by_external'[r] = by_external[r]
        /\ call[c].ref \in Ref => by_external'[call[c].ref] = None
    BY Zenon, <1>2, TypeFacts DEF UnmapRef, DirInv, TypeOK
  <1>4. \A u \in Uuid :
          /\ Doing(Creating, u)' <=> Doing(Creating, u)
          /\ Doing(DeletePC, u)' <=> Doing(DeletePC, u)
          /\ Doing({"map"}, u)' <=> Doing({"map"}, u)
          /\ u # call[c].u => (Doing({"unmap"}, u)' <=> Doing({"unmap"}, u))
          /\ Doing({"unmap", "forget"}, u)' <=> Doing({"unmap", "forget"}, u)
          /\ Doing({"map", "publish"}, u)' <=> Doing({"map", "publish"}, u)
          /\ Doing({"send"}, u)' <=> Doing({"send"}, u)
    BY <1>1 DEF Doing, Creating, DeletePC
  <1>5. \A r \in Ref : by_external'[r] # call[c].u
    BY <1>2, <1>3 DEF DirInv, RefInv, MapRefs
  <1>6. TypeOK' /\ HistType' /\ DownInv' /\ Drawn'
    <2>1. TypeOK'
      BY Zenon, <1>1, <1>2, <1>3 DEF DirInv, TypeOK, CallType, envVars
    <2>2. HistType'
      BY Zenon, <1>2 DEF DirInv, HistType
    <2>3. DownInv'
      BY Zenon, <1>1, <1>2 DEF DirInv, DownInv, envVars
    <2>4. Drawn'
      <3>1. \A r \in Ref : by_external'[r] = by_external[r] \/ by_external'[r] = None
        BY Zenon, <1>3
      <3>2. minted \in Nat /\ None <= minted
        BY DEF DirInv, TypeOK, None
      <3> QED
        BY Zenon, <1>1, <1>2, <3>1, <3>2 DEF DirInv, Drawn
    <2> QED
      BY Zenon, <2>1, <2>2, <2>3, <2>4
  <1>7. \A d \in Caller : CallInv(d)'
    <2>1. ASSUME NEW d \in Caller, call[d].pc = "forget", NEW r \in Ref
          PROVE  by_external'[r] # call[d].u
      <3>1. by_external[r] # call[d].u /\ call[d].u \in Uuid
        BY Zenon, <2>1 DEF DirInv, CallInv, Drawn
      <3>2. by_external'[r] = by_external[r] \/ by_external'[r] = None
        BY Zenon, <1>3
      <3> QED
        BY Zenon, <3>1, <3>2
    <2> QED
      BY <1>1, <1>2, <1>5, <2>1 DEF DirInv, CallInv, Creating, DeletePC
  <1>8. MadeInv' /\ DeletedStaysGone'
    BY SMTT(30), <1>2, <1>3 DEF DirInv, MadeInv, envVars, DeletedStaysGone, resolve, HistType, HistRec
  <1>9. RefInv'
    <2>1. RowRefs' /\ MapRefs'
      BY Zenon, <1>2, <1>3 DEF DirInv, RefInv, RowRefs, MapRefs
    <2>2. ASSUME NEW v \in rows' PROVE OwnRef(v)'
      <3>1. v \in rows /\ OwnRef(v) /\ v \in Uuid
        BY Zenon, <1>2 DEF DirInv, RefInv, TypeOK
      <3>2. Trusted(v)' => Trusted(v)
        BY Zenon, <1>2, <1>4, <3>1 DEF Trusted, envVars
      <3>3. \A u \in Uuid : Present(u)' => Present(u)
        BY Zenon, <1>2, <1>4 DEF Present
      <3>4. refOf[v] \in Ref \ hist.crossed /\ Trusted(v) => refOf[v] # call[c].ref
        BY Zenon, <1>2, <3>1 DEF OwnRef
      <3> QED
        BY Zenon, <3>1, <3>2, <3>3, <3>4, <1>2, <1>3, <1>4 DEF OwnRef, envVars
    <2>3. ASSUME NEW r \in Ref PROVE LiveRef(r)'
      <3>1. LiveRef(r) /\ by_external[r] \in Uuid \cup {None} /\ by_external'[r] # call[c].u
        BY Zenon, <1>5 DEF DirInv, RefInv, TypeOK
      <3> QED
        BY Zenon, <3>1, <1>2, <1>3, <1>4 DEF LiveRef, envVars
    <2> QED
      BY Zenon, <2>1, <2>2, <2>3 DEF RefInv
  <1>10. HandleInv' /\ BotInv'
    <2>1. HandleInv'
      BY Zenon, <1>2, <1>4 DEF DirInv, HandleInv, envVars
    <2>2. BotInv'
      BY <1>1, <1>2 DEF DirInv, BotInv, DeletePC, envVars
    <2> QED
      BY Zenon, <2>1, <2>2
  <1>11. \A s \in Stream : StreamInv(s)'
    <2>1. \A u \in Uuid : Announced(u)' => Announced(u)
      BY Zenon, <1>2, <1>4 DEF Announced
    <2> QED
      BY Zenon, <1>2, <2>1, StreamsKept
  <1> QED
    BY Zenon, <1>6, <1>7, <1>8, <1>9, <1>10, <1>11 DEF DirInv

(* ForgetHandle preserves the invariant. *)
LEMMA ForgetHandleKeeps ==
  ASSUME DirInv, NEW c \in Caller, ForgetHandle(c)
  PROVE  DirInv'
  <1> USE Constants, IdleFacts
  <1>1. /\ call' \in [Caller -> CallType]
        /\ call[c].pc = "forget" /\ call'[c] = Idle
        /\ \A d \in Caller : d # c => call'[d] = call[d]
    BY Zenon, BecomeFacts DEF ForgetHandle, DirInv
  <1>2. /\ UNCHANGED <<rows, refOf, minted, by_external, created, bots, stream, envVars>>
        /\ handles' = handles \ {call[c].u}
        /\ call[c].u \in Uuid /\ call[c].u <= minted /\ call[c].u \in hist.asked /\ up
        /\ call[c].u \notin rows /\ \A r \in Ref : by_external[r] # call[c].u
    BY Zenon, <1>1 DEF ForgetHandle, DirInv, Drawn, DownInv, CallInv, DeletePC
  <1>3. /\ hist' \in HistRec
        /\ hist'.gone = hist.gone \cup {call[c].u}
        /\ hist'.made = hist.made /\ hist'.asked = hist.asked
        /\ hist'.crossed = hist.crossed /\ hist'.late = hist.late /\ hist'.unsure = hist.unsure
    BY Zenon, <1>2 DEF ForgetHandle, DirInv, HistType, HistRec
  <1>4. \A u \in Uuid :
          /\ Doing(Creating, u)' <=> Doing(Creating, u)
          /\ Doing(DeletePC, u)' => Doing(DeletePC, u)
          /\ Doing({"map"}, u)' <=> Doing({"map"}, u)
          /\ Doing({"unmap"}, u)' <=> Doing({"unmap"}, u)
          /\ u # call[c].u => (Doing({"unmap", "forget"}, u)' <=> Doing({"unmap", "forget"}, u))
          /\ Doing({"map", "publish"}, u)' <=> Doing({"map", "publish"}, u)
          /\ Doing({"send"}, u)' <=> Doing({"send"}, u)
    BY ZenonT(30), <1>1 DEF Doing, Creating, DeletePC
  <1>5. TypeOK' /\ HistType' /\ DownInv' /\ Drawn'
    <2>1. TypeOK'
      BY Zenon, <1>1, <1>2 DEF DirInv, TypeOK, CallType, envVars
    <2>2. HistType'
      BY Zenon, <1>2, <1>3 DEF DirInv, HistType
    <2>3. DownInv'
      BY Zenon, <1>1, <1>2 DEF DirInv, DownInv, envVars
    <2>4. Drawn'
      BY Zenon, <1>1, <1>2, <1>3 DEF DirInv, Drawn
    <2> QED
      BY Zenon, <2>1, <2>2, <2>3, <2>4
  <1>6. \A d \in Caller : CallInv(d)'
    BY <1>1, <1>2, <1>3 DEF DirInv, CallInv, Creating, DeletePC
  <1>7. MadeInv' /\ DeletedStaysGone'
    BY Zenon, <1>2, <1>3 DEF DirInv, MadeInv, envVars, DeletedStaysGone, resolve
  <1>8. RefInv'
    <2>1. \A u \in Uuid : (Trusted(u)' => Trusted(u)) /\ (Present(u)' => Present(u))
      BY Zenon, <1>2, <1>3, <1>4 DEF Trusted, Present, envVars
    <2> QED
      BY Zenon, <1>2, <1>3, <1>4, <2>1, RefsKept
  <1>9. HandleInv' /\ BotInv'
    <2>1. HandleInv'
      BY Zenon, <1>2, <1>3, <1>4 DEF DirInv, HandleInv, envVars
    <2>2. BotInv'
      BY <1>1, <1>2, <1>3 DEF DirInv, BotInv, DeletePC, envVars
    <2> QED
      BY Zenon, <2>1, <2>2
  <1>10. \A s \in Stream : StreamInv(s)'
    <2>1. \A u \in Uuid : Announced(u)' => Announced(u)
      BY Zenon, <1>2, <1>4 DEF Announced
    <2> QED
      BY Zenon, <1>2, <2>1, StreamsKept
  <1> QED
    BY Zenon, <1>5, <1>6, <1>7, <1>8, <1>9, <1>10 DEF DirInv

-----------------------------------------------------------------------------
(* The account drawn is nobody else's, and the others keep their reference. *)
LEMMA InsertsFacts ==
  ASSUME DirInv, NEW r \in Ref \cup {None}, Inserts(r)
  PROVE  /\ minted + 1 \in Uuid /\ minted \in Nat
         /\ refOf' \in [Uuid -> Ref \cup {None}] /\ refOf'[minted + 1] = r
         /\ \A u \in Uuid : u # minted + 1 => refOf'[u] = refOf[u]
         /\ \A u \in rows \cup handles \cup hist.made \cup hist.gone : u # minted + 1
         /\ \A x \in Ref : by_external[x] # minted + 1
         /\ \A c \in Caller : call[c].pc \notin {"idle", "insert"} =>
              call[c].u # minted + 1 /\ call[c].u \in Uuid
         /\ ~Present(minted + 1)
         /\ RowRefs' /\ (by_external' = by_external => MapRefs')
  <1> USE Constants
  <1>1. minted + 1 \in Uuid /\ minted \in Nat
    BY DEF Inserts, Uuid, DirInv, TypeOK
  <1>2. /\ refOf' \in [Uuid -> Ref \cup {None}] /\ refOf'[minted + 1] = r
        /\ \A u \in Uuid : u # minted + 1 => refOf'[u] = refOf[u]
    BY Zenon, <1>1 DEF Inserts, DirInv, TypeOK
  <1>3. \A u \in rows \cup handles \cup hist.made \cup hist.gone : u # minted + 1
    BY <1>1 DEF DirInv, Drawn, TypeOK
  <1>4. \A x \in Ref : by_external[x] # minted + 1
    BY <1>1 DEF DirInv, Drawn
  <1>5. \A c \in Caller : call[c].pc \notin {"idle", "insert"} =>
          call[c].u # minted + 1 /\ call[c].u \in Uuid
    BY <1>1 DEF DirInv, Drawn
  <1>6. ~Present(minted + 1)
    BY Zenon, <1>3, <1>5 DEF Present, Doing, DeletePC
  <1>7. RowRefs'
    <2>1. rows' = rows \cup {minted + 1} /\ (r # None => \A u \in rows : refOf[u] # r)
      BY Zenon DEF Inserts, Taken
    <2>2. \A u \in rows : u \in Uuid /\ refOf'[u] = refOf[u]
      BY Zenon, <1>2, <1>3 DEF DirInv, TypeOK
    <2>3. RowRefs
      BY Zenon DEF DirInv, RefInv
    <2>4. refOf'[minted + 1] = r
      BY Zenon, <1>2
    <2> SUFFICES ASSUME NEW u \in rows', NEW v \in rows', refOf'[u] = refOf'[v], refOf'[u] # None
                 PROVE  u = v
      BY Zenon DEF RowRefs
    <2>5. CASE u \in rows /\ v \in rows
      BY Zenon, <2>2, <2>3, <2>5 DEF RowRefs
    <2>6. CASE u \notin rows /\ v \in rows
      BY Zenon, <2>1, <2>2, <2>4, <2>6
    <2>7. CASE v \notin rows
      BY Zenon, <2>1, <2>2, <2>4, <2>7
    <2> QED
      BY Zenon, <2>5, <2>6, <2>7
  <1>8. by_external' = by_external => MapRefs'
    <2>1. ASSUME NEW x \in Ref, by_external[x] # None
          PROVE  refOf'[by_external[x]] = x
      <3>1. by_external[x] \in Uuid /\ refOf[by_external[x]] = x
        BY Zenon, <2>1 DEF DirInv, RefInv, MapRefs, TypeOK
      <3> QED
        BY Zenon, <1>2, <1>4, <3>1
    <2> QED
      BY Zenon, <2>1 DEF MapRefs
  <1> QED
    BY Zenon, <1>1, <1>2, <1>3, <1>4, <1>5, <1>6, <1>7, <1>8

LEMMA DeletingFacts == \A u : u \in Deleting <=> Doing(DeletePC, u)
  BY Zenon DEF Deleting, Doing, DeletePC

LEMMA TakenOverFacts ==
  ASSUME NEW r \in Ref \cup {None}
  PROVE  /\ TakenOver(r) \subseteq Ref
         /\ \A u \in Uuid : Present(u) /\ refOf[u] = r /\ r # None => r \in TakenOver(r)
  BY Zenon, DeletingFacts DEF TakenOver, Present

(* InsertRow preserves the invariant. *)
LEMMA InsertRowKeeps ==
  ASSUME DirInv, NEW c \in Caller, InsertRow(c)
  PROVE  DirInv'
  <1> USE Constants, IdleFacts
  <1> DEFINE n == minted + 1
             r == call[c].ref
  <1>1. /\ call[c].pc = "insert" /\ r \in Ref \cup {None} /\ Inserts(r)
        /\ UNCHANGED <<handles, by_external, created, bots, stream, envVars>> /\ up
    BY Zenon, TypeFacts, IdleFacts DEF InsertRow, DirInv, DownInv
  <1>2. /\ n \in Uuid /\ minted \in Nat
        /\ refOf' \in [Uuid -> Ref \cup {None}] /\ refOf'[n] = r
        /\ \A u \in Uuid : u # n => refOf'[u] = refOf[u]
        /\ \A u \in rows \cup handles \cup hist.made \cup hist.gone : u # n
        /\ \A x \in Ref : by_external[x] # n
        /\ \A d \in Caller : call[d].pc \notin {"idle", "insert"} =>
             call[d].u # n /\ call[d].u \in Uuid
        /\ ~Present(n) /\ RowRefs' /\ MapRefs'
    BY Zenon, <1>1, InsertsFacts
  <1> HIDE DEF r
  <1>3. /\ At("map", n, r) \in CallType
        /\ At("map", n, r).pc = "map" /\ At("map", n, r).u = n /\ At("map", n, r).ref = r
    BY Zenon, <1>1, <1>2 DEF At, CallType, CallPC
  <1>4. /\ call' \in [Caller -> CallType]
        /\ call'[c].pc = "map" /\ call'[c].u = n /\ call'[c].ref = r
        /\ \A d \in Caller : d # c => call'[d] = call[d]
    BY Zenon, <1>3, BecomeFacts DEF InsertRow, DirInv, r
  <1>5. /\ minted' = minted + 1 /\ rows' = rows \cup {n} /\ minted < MaxAccounts
    BY Zenon, <1>1 DEF Inserts
  <1>6. /\ hist' \in HistRec
        /\ hist'.made = hist.made /\ hist'.gone = hist.gone /\ hist'.asked = hist.asked
        /\ hist'.late = hist.late /\ hist'.unsure = hist.unsure
        /\ hist.crossed \subseteq hist'.crossed
        /\ \A u \in Uuid : Present(u) /\ refOf[u] = r /\ r # None => r \in hist'.crossed
    <2>1. hist' = [hist EXCEPT !.crossed = @ \cup TakenOver(r)]
      BY Zenon DEF InsertRow, r
    <2> QED
      BY Zenon, <1>1, <2>1, TakenOverFacts DEF DirInv, HistType, HistRec
  <1>7. \A u \in Uuid :
          /\ Doing(Creating, u)' <=> Doing(Creating, u) \/ u = n
          /\ Doing(DeletePC, u)' <=> Doing(DeletePC, u)
          /\ Doing({"map"}, u)' <=> Doing({"map"}, u) \/ u = n
          /\ Doing({"unmap"}, u)' <=> Doing({"unmap"}, u)
          /\ Doing({"unmap", "forget"}, u)' <=> Doing({"unmap", "forget"}, u)
          /\ Doing({"map", "publish"}, u)' <=> Doing({"map", "publish"}, u) \/ u = n
          /\ Doing({"send"}, u)' <=> Doing({"send"}, u)
    BY ZenonT(30), <1>1, <1>4 DEF Doing, Creating, DeletePC
  <1>8. TypeOK' /\ HistType' /\ DownInv' /\ Drawn'
    <2>1. TypeOK'
      <3>1. minted \in 0..MaxAccounts /\ minted < MaxAccounts
        BY Zenon, <1>5 DEF DirInv, TypeOK
      <3>2. minted' \in 0..MaxAccounts
        BY <1>5, <3>1
      <3> QED
        BY Zenon, <1>1, <1>2, <1>4, <1>5, <3>2 DEF DirInv, TypeOK, CallType, envVars
    <2>2. HistType'
      BY Zenon, <1>1, <1>6 DEF DirInv, HistType
    <2>3. DownInv'
      BY Zenon, <1>1, <1>4 DEF DirInv, DownInv, envVars
    <2>4. Drawn'
      <3>1. \A u \in Uuid : u <= minted => u <= minted'
        BY <1>2, <1>5
      <3>2. n <= minted'
        BY <1>2, <1>5
      <3>3. \A u \in rows' \cup handles' \cup hist'.made \cup hist'.gone : u <= minted'
        BY Zenon, <3>1, <3>2, <1>1, <1>5, <1>6 DEF DirInv, Drawn, TypeOK, HistType, HistRec
      <3>4. \A x \in Ref : by_external'[x] <= minted'
        <4>1. None <= minted'
          BY <1>2, <1>5 DEF None
        <4> QED
          BY Zenon, <3>1, <4>1, <1>1 DEF DirInv, Drawn, TypeOK
      <3>5. \A d \in Caller : call'[d].pc \notin {"idle", "insert"} =>
              call'[d].u \in Uuid /\ call'[d].u <= minted'
        BY ZenonT(30), <3>1, <3>2, <1>2, <1>4 DEF DirInv, Drawn
      <3> QED
        BY Zenon, <3>3, <3>4, <3>5 DEF Drawn
    <2> QED
      BY Zenon, <2>1, <2>2, <2>3, <2>4
  <1>9. \A d \in Caller : CallInv(d)'
    <2>1. \A d \in Caller : call[d].pc \in Creating \cup DeletePC => refOf'[call[d].u] = refOf[call[d].u]
      BY Zenon, <1>2 DEF Creating, DeletePC
    <2>2. \A d \in Caller : call[d].pc \in Creating \cup DeletePC => call[d].u # n
      BY Zenon, <1>2 DEF Creating, DeletePC
    <2> QED
      BY <1>1, <1>2, <1>4, <1>5, <1>6, <2>1, <2>2 DEF DirInv, CallInv, Creating, DeletePC
  <1>10. MadeInv' /\ DeletedStaysGone'
    BY Zenon, <1>1, <1>2, <1>5, <1>6 DEF DirInv, MadeInv, envVars, DeletedStaysGone, resolve
  <1>11. RefInv'
    <2>1. \A u \in Uuid : Present(u)' <=> Present(u)
      BY Zenon, <1>1, <1>7 DEF Present
    <2>2. ASSUME NEW v \in rows' PROVE OwnRef(v)'
      <3>1. CASE v = n
        BY Zenon, <1>1, <1>2, <1>6, <1>7, <2>1, <3>1 DEF OwnRef
      <3>2. CASE v # n
        <4>1. v \in rows /\ OwnRef(v) /\ v \in Uuid /\ refOf'[v] = refOf[v]
          BY Zenon, <1>2, <1>5, <3>2 DEF DirInv, RefInv, TypeOK
        <4>2. Trusted(v)' => Trusted(v)
          BY Zenon, <1>1, <1>6, <1>7, <4>1, <3>2 DEF Trusted, envVars
        <4>3. \A u \in Uuid : Present(u)' /\ refOf'[u] = refOf'[v] =>
                Present(u) /\ refOf[u] = refOf[v]
          BY Zenon, <1>2, <2>1, <4>1
        <4> QED
          BY Zenon, <4>1, <4>2, <4>3, <3>2, <1>1, <1>6, <1>7 DEF OwnRef, envVars
      <3> QED
        BY Zenon, <3>1, <3>2
    <2>3. ASSUME NEW x \in Ref PROVE LiveRef(x)'
      <3>1. LiveRef(x) /\ by_external[x] \in Uuid \cup {None}
        BY Zenon DEF DirInv, RefInv, TypeOK
      <3> QED
        BY Zenon, <3>1, <1>1, <1>5, <1>6, <1>7 DEF LiveRef, envVars
    <2> QED
      BY Zenon, <1>2, <2>2, <2>3 DEF RefInv
  <1>12. HandleInv' /\ BotInv'
    <2>1. HandleInv'
      BY Zenon, <1>1, <1>5, <1>6, <1>7 DEF DirInv, HandleInv, envVars
    <2>2. BotInv'
      BY <1>1, <1>4, <1>5, <1>6 DEF DirInv, BotInv, DeletePC, envVars
    <2> QED
      BY Zenon, <2>1, <2>2
  <1>13. \A s \in Stream : StreamInv(s)'
    <2>1. \A u \in Uuid : Announced(u)' => Announced(u)
      BY Zenon, <1>1, <1>7 DEF Announced
    <2> QED
      BY Zenon, <1>1, <2>1, StreamsKept
  <1> QED
    BY Zenon, <1>8, <1>9, <1>10, <1>11, <1>12, <1>13 DEF DirInv

-----------------------------------------------------------------------------
(* A write that takes effect although its call ends without going on. *)
Lost(c) ==
  /\ Become(c, Idle)
  /\ UNCHANGED <<handles, by_external, created, bots, stream, envVars>>
  /\ \/ /\ call[c].pc = "insert" /\ Inserts(call[c].ref)
        /\ hist' = [hist EXCEPT !.crossed = @ \cup TakenOver(call[c].ref),
                                !.unsure = @ \cup {minted + 1}]
     \/ /\ call[c].pc = "erase" /\ UNCHANGED <<refOf, minted>>
        /\ rows' = rows \ {call[c].u}
        /\ hist' = [hist EXCEPT !.unsure = @ \cup {call[c].u}]

(* It leaves a row nobody maps, or maps whose row is gone, of an account it *)
(* is unsure about.                                                         *)
LEMMA LostKeeps ==
  ASSUME DirInv, NEW c \in Caller, Lost(c)
  PROVE  DirInv'
  <1> USE Constants, IdleFacts
  <1> DEFINE r == call[c].ref
             n == minted + 1
  <1>1. /\ call' \in [Caller -> CallType] /\ call'[c] = Idle
        /\ call[c].pc \in {"insert", "erase"}
        /\ \A d \in Caller : d # c => call'[d] = call[d]
    BY Zenon, BecomeFacts DEF Lost, DirInv
  <1>2. /\ UNCHANGED <<handles, by_external, created, bots, stream, up, restarts, watched>>
        /\ up /\ r \in Ref \cup {None}
    BY Zenon, <1>1, TypeFacts DEF Lost, DirInv, DownInv, envVars
  <1>h. /\ hist' \in HistRec
        /\ hist'.made = hist.made /\ hist'.gone = hist.gone /\ hist'.asked = hist.asked
        /\ hist'.late = hist.late /\ hist.crossed \subseteq hist'.crossed
        /\ hist.unsure \subseteq hist'.unsure
        /\ Inserts(r) /\ call[c].pc = "insert" => n \in hist'.unsure
        /\ call[c].pc = "erase" => call[c].u \in hist'.unsure
    <2>1. CASE call[c].pc = "insert"
      <3>1. /\ hist' = [hist EXCEPT !.crossed = @ \cup TakenOver(r), !.unsure = @ \cup {n}]
            /\ Inserts(r)
        BY Zenon, <2>1 DEF Lost
      <3>2. n \in Uuid
        BY Zenon, <1>2, <3>1, InsertsFacts
      <3> QED
        BY Zenon, <1>2, <2>1, <3>1, <3>2, TakenOverFacts DEF DirInv, HistType, HistRec
    <2>2. CASE call[c].pc = "erase"
      <3>1. hist' = [hist EXCEPT !.unsure = @ \cup {call[c].u}]
        BY Zenon, <2>2 DEF Lost
      <3>2. call[c].u \in Uuid
        BY Zenon, <2>2 DEF DirInv, Drawn
      <3> QED
        BY Zenon, <2>2, <3>1, <3>2 DEF DirInv, HistType, HistRec
    <2> QED
      BY Zenon, <1>1, <2>1, <2>2
  <1>3. /\ rows' \subseteq Uuid /\ refOf' \in [Uuid -> Ref \cup {None}]
        /\ minted' \in 0..MaxAccounts /\ minted <= minted'
        /\ \A u \in Uuid : u <= minted => refOf'[u] = refOf[u]
        /\ minted' \in Nat
        /\ \A u \in rows' : u <= minted' /\ (u \in rows \/ (~(u <= minted) /\ u \in hist'.unsure))
        /\ \A u \in rows : u \in rows' \/ (u = call[c].u /\ call[c].pc = "erase")
        /\ RowRefs' /\ MapRefs' /\ minted \in Nat
        /\ \A u \in Uuid : Present(u) => u <= minted
    <2>1. /\ minted \in Nat /\ minted <= MaxAccounts /\ \A u \in Uuid : Present(u) => u <= minted
      <3>1. minted \in Nat /\ minted <= MaxAccounts
        BY DEF DirInv, TypeOK
      <3>2. \A u \in Uuid : Present(u) => u <= minted
        BY Zenon DEF DirInv, Present, Doing, DeletePC, Drawn
      <3> QED
        BY Zenon, <3>1, <3>2
    <2>2. CASE Inserts(r) /\ call[c].pc = "insert"
      <3>1. /\ n \in Uuid /\ refOf' \in [Uuid -> Ref \cup {None}]
            /\ \A u \in Uuid : u # n => refOf'[u] = refOf[u]
            /\ RowRefs' /\ MapRefs'
        BY Zenon, <1>2, <2>2, InsertsFacts
      <3> QED
        <4>1. minted' = n /\ rows' = rows \cup {n} /\ n \in Nat /\ ~(n <= minted) /\ n <= MaxAccounts
          BY <2>1, <2>2 DEF Inserts
        <4>2. \A u \in rows : u \in Uuid /\ u <= minted
          BY Zenon DEF DirInv, TypeOK, Drawn
        <4>3. \A u \in Uuid : u <= minted => refOf'[u] = refOf[u]
          BY Zenon, <3>1, <4>1
        <4>4. \A u \in rows' : u <= minted' /\ (u \in rows \/ (~(u <= minted) /\ u \in hist'.unsure))
          <5>1. \A u \in Nat : u <= minted => u <= minted + 1
            BY <2>1
          <5>2. \A u \in rows : u \in Nat
            BY Zenon, <4>2
          <5>3. n <= n
            BY <4>1
          <5> QED
            BY Zenon, <1>h, <2>2, <4>1, <4>2, <5>1, <5>2, <5>3
        <4>5. minted \in Nat /\ MaxAccounts \in Nat
          BY Zenon, <2>1
        <4>6. minted' \in 0..MaxAccounts /\ minted <= minted' /\ minted' \in Nat
          BY <4>1, <4>5
        <4>7. \A u \in rows : u \in rows'
          BY Zenon, <4>1
        <4>8. rows' \subseteq Uuid
          BY Zenon, <3>1, <4>1, <4>2
        <4> QED
          BY Zenon, <2>1, <3>1, <4>3, <4>4, <4>6, <4>7, <4>8
    <2>3. CASE UNCHANGED <<refOf, minted>> /\ rows' = rows \ {call[c].u} /\ call[c].pc = "erase"
      <3>1. RowRefs' /\ MapRefs'
        BY Zenon, <1>2, <2>3 DEF DirInv, RefInv, RowRefs, MapRefs
      <3>2. \A u \in rows : u \in Uuid /\ u <= minted
        BY Zenon DEF DirInv, TypeOK, Drawn
      <3>3. minted \in 0..MaxAccounts /\ minted <= minted /\ refOf \in [Uuid -> Ref \cup {None}]
        BY DEF DirInv, TypeOK
      <3> QED
        BY Zenon, <2>1, <2>3, <3>1, <3>2, <3>3
    <2> QED
      BY Zenon, <2>2, <2>3 DEF Lost
  <1> HIDE DEF r, n
  <1>4. \A u \in Uuid :
          /\ Doing(Creating, u)' <=> Doing(Creating, u)
          /\ Doing(DeletePC, u)' => Doing(DeletePC, u)
          /\ Doing({"map"}, u)' <=> Doing({"map"}, u)
          /\ Doing({"unmap"}, u)' <=> Doing({"unmap"}, u)
          /\ Doing({"unmap", "forget"}, u)' <=> Doing({"unmap", "forget"}, u)
          /\ Doing({"map", "publish"}, u)' <=> Doing({"map", "publish"}, u)
          /\ Doing({"send"}, u)' <=> Doing({"send"}, u)
          /\ Doing(Creating, u) => u <= minted
    BY ZenonT(30), <1>1 DEF Doing, Creating, DeletePC, DirInv, Drawn
  <1>5. TypeOK' /\ HistType' /\ DownInv' /\ Drawn'
    <2>1. TypeOK'
      BY Zenon, <1>1, <1>2, <1>3 DEF DirInv, TypeOK, CallType
    <2>2. HistType'
      BY Zenon, <1>2, <1>h DEF DirInv, HistType
    <2>3. DownInv'
      BY Zenon, <1>1, <1>2 DEF DirInv, DownInv
    <2>4. Drawn'
      <3>1. \A u \in Uuid \cup {None} : u <= minted => u <= minted'
        <4>1. minted \in Nat /\ minted' \in Nat /\ minted <= minted'
          BY Zenon, <1>3
        <4> QED
          BY <4>1
      <3>2. \A u \in rows' \cup handles' \cup hist'.made \cup hist'.gone : u <= minted'
        BY Zenon, <3>1, <1>2, <1>3, <1>h DEF DirInv, Drawn, TypeOK, HistType, HistRec
      <3>3. \A x \in Ref : by_external'[x] <= minted'
        BY Zenon, <3>1, <1>2 DEF DirInv, Drawn, TypeOK
      <3>4. \A d \in Caller : call'[d].pc \notin {"idle", "insert"} =>
              call'[d].u \in Uuid /\ call'[d].u <= minted'
        BY Zenon, <3>1, <1>1 DEF DirInv, Drawn
      <3> QED
        BY Zenon, <3>2, <3>3, <3>4 DEF Drawn
    <2> QED
      BY Zenon, <2>1, <2>2, <2>3, <2>4
  <1>6. ASSUME NEW d \in Caller PROVE CallInv(d)'
    <2>1. CASE d = c
      BY Zenon, <1>1, <2>1 DEF CallInv, Creating, DeletePC
    <2>2. CASE d # c
      <3>1. /\ CallInv(d) /\ call'[d] = call[d]
            /\ call[d].pc \in Creating \cup DeletePC => call[d].u \in Uuid /\ call[d].u <= minted
        BY Zenon, <1>1, <2>2 DEF DirInv, Drawn, Creating, DeletePC
      <3>2. call[d].pc \in Creating \cup DeletePC => refOf'[call[d].u] = refOf[call[d].u]
        BY Zenon, <1>3, <3>1
      <3>3. call[c].pc = "erase" => call[c].u \in hist.asked
        BY Zenon DEF DirInv, CallInv, DeletePC
      <3>4. \A e \in Caller : call[d].pc \in {"map", "publish"} /\ call[e].pc \in DeletePC =>
              call[e].u # call[d].u
        BY Zenon, <3>1 DEF CallInv
      <3>5. call[d].pc \in {"map", "publish"} \/ (call[d].pc = "send" /\ call[d].u \notin hist.asked)
              => call[d].u \in rows /\ call[d].u \in rows'
        BY Zenon, <1>3, <3>1, <3>3, <3>4 DEF CallInv, DeletePC
      <3>6. call[d].pc \in {"unmap", "forget"} => call[d].u \notin rows'
        <4>1. call[d].pc \in {"unmap", "forget"} => call[d].u \notin rows /\ call[d].u <= minted /\ call[d].u \in Uuid
          BY Zenon, <3>1 DEF CallInv, DeletePC
        <4> QED
          BY Zenon, <4>1, <1>3
      <3> QED
        BY Zenon, <1>1, <1>2, <1>h, <3>1, <3>2, <3>5, <3>6 DEF CallInv, Creating, DeletePC
    <2> QED
      BY Zenon, <2>1, <2>2
  <1>7. MadeInv'
    <2>1. call[c].pc = "erase" => call[c].u \in hist.asked
      BY Zenon DEF DirInv, CallInv, DeletePC
    <2> QED
      BY Zenon, <1>2, <1>3, <1>h, <2>1 DEF DirInv, MadeInv
  <1>8. DeletedStaysGone'
    <2>1. ASSUME NEW u \in hist.gone PROVE u \notin rows'
      BY Zenon, <1>3 DEF DirInv, DeletedStaysGone, Drawn, HistType, HistRec
    <2> QED
      BY Zenon, <1>2, <1>h, <2>1 DEF DirInv, DeletedStaysGone, resolve
  <1>9. RefInv'
    <2>1. \A u \in Uuid : Present(u)' => Present(u) /\ u <= minted
      BY Zenon, <1>2, <1>3, <1>4 DEF Present
    <2>2. ASSUME NEW v \in rows', Trusted(v)'
          PROVE  v \in rows /\ v <= minted /\ v \in Uuid /\ Trusted(v)
      <3>1. v \in Uuid /\ v <= minted /\ Trusted(v)
        BY Zenon, <2>2, <1>2, <1>3, <1>4, <1>h DEF Trusted, DirInv, Drawn, HistType, HistRec
      <3> QED
        BY Zenon, <3>1, <1>3
    <2>3. ASSUME NEW v \in rows' PROVE OwnRef(v)'
      <3> SUFFICES ASSUME Trusted(v)' PROVE OwnRef(v)'
        BY Zenon DEF OwnRef
      <3>1. v \in rows /\ v <= minted /\ v \in Uuid /\ Trusted(v) /\ OwnRef(v)
        BY Zenon, <2>2 DEF DirInv, RefInv
      <3>2. /\ refOf'[v] = refOf[v]
            /\ \A u \in Uuid : Present(u)' => Present(u) /\ refOf'[u] = refOf[u]
        BY Zenon, <1>3, <2>1, <3>1
      <3> QED
        BY Zenon, <1>2, <1>4, <1>h, <3>1, <3>2 DEF OwnRef
    <2>4. ASSUME NEW x \in Ref PROVE LiveRef(x)'
      <3>1. LiveRef(x) /\ by_external[x] \in Uuid \cup {None}
        BY Zenon DEF DirInv, RefInv, TypeOK
      <3> QED
        BY Zenon, <3>1, <1>2, <1>3, <1>4, <1>h DEF LiveRef
    <2> QED
      BY Zenon, <1>3, <2>3, <2>4 DEF RefInv
  <1>10. HandleInv' /\ BotInv'
    <2>1. HandleInv'
      BY Zenon, <1>2, <1>3, <1>4, <1>h DEF DirInv, HandleInv
    <2>2. BotInv'
      BY <1>1, <1>2, <1>3, <1>h DEF DirInv, BotInv, DeletePC
    <2> QED
      BY Zenon, <2>1, <2>2
  <1>11. \A s \in Stream : StreamInv(s)'
    <2>1. \A u \in Uuid : Announced(u)' => Announced(u)
      BY Zenon, <1>2, <1>4 DEF Announced
    <2> QED
      BY Zenon, <1>2, <2>1, StreamsKept
  <1> QED
    BY Zenon, <1>5, <1>6, <1>7, <1>8, <1>9, <1>10, <1>11 DEF DirInv

(* The two writes, whatever becomes of them. *)
LEMMA InsertFailsKeeps ==
  ASSUME DirInv, NEW c \in Caller, InsertFails(c)
  PROVE  DirInv'
  <1>1. CASE UNCHANGED <<rows, refOf, minted, hist>>
    BY Zenon, <1>1, NothingKeeps DEF InsertFails, dirVars
  <1>2. CASE ~UNCHANGED <<rows, refOf, minted, hist>>
    BY Zenon, <1>2, LostKeeps DEF InsertFails, Lost
  <1> QED
    BY Zenon, <1>1, <1>2

LEMMA EraseFailsKeeps ==
  ASSUME DirInv, NEW c \in Caller, EraseFails(c)
  PROVE  DirInv'
  <1>1. CASE UNCHANGED <<rows, hist>>
    BY Zenon, <1>1, NothingKeeps DEF EraseFails, dirVars
  <1>2. CASE ~UNCHANGED <<rows, hist>>
    BY Zenon, <1>2, LostKeeps DEF EraseFails, Lost
  <1> QED
    BY Zenon, <1>1, <1>2

-----------------------------------------------------------------------------
(* load_existing preserves the invariant. *)
LEMMA LoadExistingKeeps ==
  ASSUME DirInv, LoadExisting
  PROVE  DirInv'
  <1> USE Constants, IdleFacts
  <1>1. /\ UNCHANGED <<rows, refOf, minted, created, bots, call, stream, restarts, watched, hist>>
        /\ ~up /\ up' = TRUE /\ handles' = rows /\ bots = {}
        /\ \A c \in Caller : call[c] = Idle
        /\ \A s \in Stream : stream[s].at = "none"
    BY Zenon DEF LoadExisting, DirInv, DownInv
  <1>2. /\ by_external' \in [Ref -> Uuid \cup {None}]
        /\ \A x \in Ref : by_external'[x] # None => by_external'[x] \in rows /\ refOf[by_external'[x]] = x
        /\ \A v \in rows : refOf[v] \in Ref => by_external'[refOf[v]] = v
    <2>1. ASSUME NEW x \in Ref
          PROVE  /\ by_external'[x] \in Uuid \cup {None}
                 /\ by_external'[x] # None => by_external'[x] \in rows /\ refOf[by_external'[x]] = x
                 /\ \A v \in rows : refOf[v] = x => by_external'[x] = v
      <3>1. CASE \E u \in rows : refOf[u] = x
        <4>1. by_external'[x] = CHOOSE u \in rows : refOf[u] = x
          BY Zenon, <3>1 DEF LoadExisting
        <4>2. by_external'[x] \in rows /\ refOf[by_external'[x]] = x
          BY Zenon, <3>1, <4>1
        <4> QED
          BY Zenon, <4>2 DEF DirInv, TypeOK, RefInv, RowRefs
      <3>2. CASE ~\E u \in rows : refOf[u] = x
        <4>1. by_external'[x] = None
          BY Zenon, <3>2 DEF LoadExisting
        <4> QED
          BY Zenon, <4>1, <3>2
      <3> QED
        BY Zenon, <3>1, <3>2
    <2>2. by_external' = [x \in Ref |-> by_external'[x]]
      BY Zenon DEF LoadExisting
    <2> QED
      BY Zenon, <2>1, <2>2
  <1>3. \A u \in Uuid :
          /\ ~Doing(Creating, u)' /\ ~Doing(DeletePC, u)'
          /\ ~Doing({"map"}, u)' /\ ~Doing({"unmap"}, u)' /\ ~Doing({"unmap", "forget"}, u)'
          /\ ~Doing({"map", "publish"}, u)' /\ ~Doing({"send"}, u)'
    BY Zenon, <1>1 DEF Doing, Creating, DeletePC
  <1>4. TypeOK' /\ HistType' /\ DownInv' /\ Drawn'
    <2>1. TypeOK'
      BY Zenon, <1>1, <1>2 DEF DirInv, TypeOK
    <2>2. HistType'
      BY Zenon, <1>1 DEF DirInv, HistType
    <2>3. DownInv'
      BY Zenon, <1>1 DEF DirInv, DownInv
    <2>4. Drawn'
      <3>1. minted \in Nat /\ None <= minted
        BY DEF DirInv, TypeOK, None
      <3> QED
        BY Zenon, <1>1, <1>2, <3>1 DEF DirInv, Drawn
    <2> QED
      BY Zenon, <2>1, <2>2, <2>3, <2>4
  <1>5. \A c \in Caller : CallInv(c)'
    BY Zenon, <1>1 DEF CallInv, Creating, DeletePC
  <1>6. MadeInv' /\ DeletedStaysGone'
    <2>1. MadeInv'
      BY Zenon, <1>1 DEF DirInv, MadeInv
    <2>2. DeletedStaysGone'
      <3>1. ASSUME NEW u \in hist.gone PROVE u \notin rows /\ u \in Uuid
        BY Zenon DEF DirInv, DeletedStaysGone, HistType, HistRec
      <3>2. \A x \in Ref : by_external'[x] \in rows \/ by_external'[x] = None
        BY Zenon, <1>2
      <3> QED
        BY Zenon, <1>1, <3>1, <3>2 DEF DeletedStaysGone, resolve
    <2> QED
      BY Zenon, <2>1, <2>2
  <1>7. RefInv'
    <2>1. RowRefs' /\ MapRefs'
      BY Zenon, <1>1, <1>2 DEF DirInv, RefInv, RowRefs, MapRefs
    <2>2. \A v \in rows' : OwnRef(v)'
      BY <1>1, <1>2, <1>3 DEF OwnRef, Present, DirInv, RefInv, RowRefs, TypeOK
    <2>3. \A x \in Ref : LiveRef(x)'
      BY Zenon, <1>1, <1>2 DEF LiveRef
    <2> QED
      BY Zenon, <2>1, <2>2, <2>3 DEF RefInv
  <1>8. HandleInv' /\ BotInv'
    BY Zenon, <1>1 DEF HandleInv, BotInv, DeletePC
  <1>9. \A s \in Stream : StreamInv(s)'
    BY Zenon, <1>1 DEF DirInv, StreamInv
  <1> QED
    BY Zenon, <1>4, <1>5, <1>6, <1>7, <1>8, <1>9 DEF DirInv

(* Empty sequences, and streams that have not begun.                       *)
LEMMA EmptyFacts == <<>> \in Seq(Uuid) /\ Len(<<>>) = 0
  OBVIOUS

LEMMA FreshFacts ==
  /\ Fresh \in [at : StreamAt, cursor : Nat, todo : SUBSET Uuid, snapshot : SUBSET Uuid,
                forwarders : [Uuid -> Nat], gap : SUBSET Uuid]
  /\ Fresh.at = "none" /\ Fresh.cursor = 0 /\ \A u \in Uuid : Fresh.forwarders[u] = 0
  BY Zenon DEF Fresh, StreamAt

(* A crash preserves the invariant. *)
LEMMA CrashKeeps ==
  ASSUME DirInv, Crash
  PROVE  DirInv'
  <1> USE Constants, IdleFacts, FreshFacts, EmptyFacts
  <1>1. /\ UNCHANGED <<rows, refOf, minted, watched>>
        /\ up' = FALSE /\ handles' = {} /\ created' = <<>> /\ bots' = {}
        /\ restarts' \in 0..MaxRestarts
        /\ call' \in [Caller -> CallType] /\ \A c \in Caller : call'[c] = Idle
        /\ by_external' \in [Ref -> Uuid \cup {None}] /\ \A x \in Ref : by_external'[x] = None
        /\ \A s \in Stream : stream'[s] = Fresh
        /\ stream' \in [Stream -> [at : StreamAt, cursor : Nat, todo : SUBSET Uuid,
                          snapshot : SUBSET Uuid, forwarders : [Uuid -> Nat], gap : SUBSET Uuid]]
    BY DEF Crash, DirInv, TypeOK
  <1>2. /\ hist' \in HistRec
        /\ hist'.made = hist.made /\ hist'.gone = hist.gone /\ hist'.asked = hist.asked
    BY Zenon DEF Crash, DirInv, HistType, HistRec
  <1>3. \A u \in Uuid :
          /\ ~Doing(Creating, u)' /\ ~Doing(DeletePC, u)'
          /\ ~Doing({"map"}, u)' /\ ~Doing({"unmap"}, u)' /\ ~Doing({"unmap", "forget"}, u)'
          /\ ~Doing({"map", "publish"}, u)' /\ ~Doing({"send"}, u)'
    BY Zenon, <1>1 DEF Doing, Creating, DeletePC
  <1>4. TypeOK' /\ HistType' /\ DownInv' /\ Drawn'
    <2>1. TypeOK'
      <3>1. rows' \subseteq Uuid /\ refOf' \in [Uuid -> Ref \cup {None}] /\ minted' \in 0..MaxAccounts
        BY Zenon, <1>1 DEF DirInv, TypeOK
      <3>2. created' \in Seq(Uuid)
        BY Zenon, <1>1
      <3>3. up' \in BOOLEAN /\ watched' \in BOOLEAN
        BY Zenon, <1>1 DEF DirInv, TypeOK
      <3> QED
        BY Zenon, <1>1, <3>1, <3>2, <3>3 DEF TypeOK, CallType
    <2>2. HistType'
      BY <1>1, <1>2 DEF DirInv, HistType
    <2>3. DownInv'
      BY Zenon, <1>1 DEF DirInv, DownInv
    <2>4. Drawn'
      <3>1. minted \in Nat /\ None <= minted
        BY DEF DirInv, TypeOK, None
      <3> QED
        BY Zenon, <1>1, <1>2, <3>1 DEF DirInv, Drawn
    <2> QED
      BY Zenon, <2>1, <2>2, <2>3, <2>4
  <1>5. \A c \in Caller : CallInv(c)'
    BY Zenon, <1>1 DEF CallInv, Creating, DeletePC
  <1>6. MadeInv' /\ DeletedStaysGone'
    <2>1. MadeInv'
      BY <1>1, <1>2 DEF DirInv, MadeInv
    <2>2. DeletedStaysGone'
      BY Zenon, <1>1, <1>2 DEF DirInv, DeletedStaysGone, resolve, HistType, HistRec
    <2> QED
      BY Zenon, <2>1, <2>2
  <1>7. RefInv'
    <2>1. RowRefs' /\ MapRefs'
      BY Zenon, <1>1 DEF DirInv, RefInv, RowRefs, MapRefs
    <2>2. \A v \in rows' : OwnRef(v)'
      BY Zenon, <1>1, <1>3 DEF OwnRef, Present
    <2>3. \A x \in Ref : LiveRef(x)'
      BY Zenon, <1>1 DEF LiveRef
    <2> QED
      BY Zenon, <2>1, <2>2, <2>3 DEF RefInv
  <1>8. HandleInv' /\ BotInv'
    BY Zenon, <1>1 DEF HandleInv, BotInv, DeletePC
  <1>9. \A s \in Stream : StreamInv(s)'
    BY Zenon, <1>1 DEF DirInv, StreamInv
  <1> QED
    BY Zenon, <1>4, <1>5, <1>6, <1>7, <1>8, <1>9 DEF DirInv

(* The initial states satisfy the invariant. *)
LEMMA InitInv == Init => DirInv
  <1> SUFFICES ASSUME Init PROVE DirInv
    OBVIOUS
  <1> USE Constants, IdleFacts, FreshFacts, EmptyFacts
  <1>1. TypeOK /\ (\A c \in Caller : call[c] = Idle) /\ (\A s \in Stream : stream[s] = Fresh)
    <2>1. call \in [Caller -> CallType] /\ \A c \in Caller : call[c] = Idle
      BY Zenon DEF Init
    <2>2. stream \in [Stream -> [at : StreamAt, cursor : Nat, todo : SUBSET Uuid,
                        snapshot : SUBSET Uuid, forwarders : [Uuid -> Nat], gap : SUBSET Uuid]]
      BY Zenon DEF Init
    <2>3. /\ \A s \in Stream : stream[s] = Fresh
          /\ refOf \in [Uuid -> Ref \cup {None}] /\ by_external \in [Ref -> Uuid \cup {None}]
      BY Zenon DEF Init
    <2>4. created \in Seq(Uuid) /\ minted \in 0..MaxAccounts /\ restarts \in 0..MaxRestarts
      BY DEF Init
    <2> QED
      BY Zenon, <2>1, <2>2, <2>3, <2>4 DEF Init, TypeOK, CallType
  <1>2. HistType /\ DownInv /\ Drawn
    BY <1>1 DEF Init, HistType, HistRec, NoHist, DownInv, Drawn, None
  <1>3. (\A c \in Caller : CallInv(c)) /\ MadeInv /\ DeletedStaysGone
    BY <1>1 DEF Init, CallInv, Creating, DeletePC, MadeInv, DeletedStaysGone, NoHist
  <1>4. RefInv
    BY Zenon DEF Init, RefInv, RowRefs, MapRefs, OwnRef, LiveRef
  <1>5. HandleInv /\ BotInv
    BY Zenon, <1>1 DEF Init, HandleInv, BotInv, DeletePC
  <1>6. \A s \in Stream : StreamInv(s)
    BY Zenon, <1>1 DEF StreamInv
  <1> QED
    BY Zenon, <1>1, <1>2, <1>3, <1>4, <1>5, <1>6 DEF DirInv

-----------------------------------------------------------------------------
StreamType == [at : StreamAt, cursor : Nat, todo : SUBSET Uuid, snapshot : SUBSET Uuid,
               forwarders : [Uuid -> Nat], gap : SUBSET Uuid]

(* The locals of a stream.                                                 *)
LEMMA StreamTypeFacts ==
  ASSUME TypeOK, NEW s \in Stream
  PROVE  /\ stream \in [Stream -> StreamType] /\ stream[s] \in StreamType
         /\ stream[s].at \in StreamAt /\ stream[s].cursor \in Nat
         /\ stream[s].todo \subseteq Uuid /\ stream[s].snapshot \subseteq Uuid
         /\ stream[s].forwarders \in [Uuid -> Nat] /\ stream[s].gap \subseteq Uuid
         /\ created \in Seq(Uuid) /\ Len(created) \in Nat
  BY DEF TypeOK, StreamType

(* A step of one stream preserves the invariant, if that stream keeps its   *)
(* own part of it.                                                          *)
LEMMA OneStreamKeeps ==
  ASSUME DirInv, NEW s \in Stream, NEW v \in StreamType, SetStream(s, v), ButStreams,
         v.cursor <= Len(created),
         v.at # "none" => up /\ watched,
         v.at \notin {"follow", "marking"} => \A u \in Uuid : v.forwarders[u] = 0,
         v.at \in {"follow", "marking"} => \A u \in Uuid :
           /\ u \in v.snapshot => v.forwarders[u] = 1
           /\ u \notin v.snapshot =>
                \/ v.forwarders[u] = 0
                \/ v.forwarders[u] = 1 /\ \E i \in 1..v.cursor : created[i] = u,
         v.at = "list" => \A u \in Uuid : Announced(u) =>
           \/ u \in v.snapshot \/ u \in v.todo
           \/ \E i \in (v.cursor + 1)..Len(created) : created[i] = u,
         v.at \in {"follow", "marking"} => \A u \in Uuid : Announced(u) =>
           \/ v.forwarders[u] > 0 \/ u \in v.gap
           \/ \E i \in (v.cursor + 1)..Len(created) : created[i] = u
  PROVE  DirInv'
  <1> USE Constants
  <1>1. /\ stream' \in [Stream -> StreamType] /\ stream'[s] = v
        /\ \A t \in Stream : t # s => stream'[t] = stream[t]
    BY Zenon, StreamTypeFacts DEF SetStream, DirInv
  <1>2. UNCHANGED <<rows, refOf, minted, handles, by_external, created, bots, call,
                    up, restarts, watched, hist>>
    BY Zenon DEF ButStreams, dirVars, envVars
  <1>3. TypeOK'
    BY Zenon, <1>1, <1>2 DEF DirInv, TypeOK, StreamType
  <1>4. HistType'
    BY Zenon, <1>1, <1>2 DEF DirInv, HistType
  <1>5. DownInv'
    BY Zenon, <1>1, <1>2 DEF DirInv, DownInv
  <1>6. /\ Drawn' /\ (\A c \in Caller : CallInv(c)') /\ MadeInv' /\ DeletedStaysGone'
        /\ HandleInv' /\ BotInv'
    <2>1. Drawn' /\ MadeInv' /\ DeletedStaysGone'
      BY ZenonT(30), <1>2 DEF DirInv, Drawn, MadeInv, DeletedStaysGone, resolve
    <2>2. \A c \in Caller : CallInv(c)'
      BY ZenonT(30), <1>2 DEF DirInv, CallInv
    <2>3. \A P, u : Doing(P, u)' <=> Doing(P, u)
      BY Zenon, <1>2 DEF Doing
    <2>4. HandleInv' /\ BotInv'
      BY Zenon, <1>2, <2>3 DEF DirInv, HandleInv, BotInv
    <2> QED
      BY Zenon, <2>1, <2>2, <2>4
  <1>7. RefInv'
    <2>1. \A P, u : Doing(P, u)' <=> Doing(P, u)
      BY Zenon, <1>2 DEF Doing
    <2>2. \A u : (Trusted(u)' <=> Trusted(u)) /\ (Present(u)' <=> Present(u))
      BY Zenon, <1>2, <2>1 DEF Trusted, Present
    <2>3. RowRefs' /\ MapRefs'
      BY Zenon, <1>2 DEF DirInv, RefInv, RowRefs, MapRefs
    <2>4. \A w \in rows' : OwnRef(w)'
      BY Zenon, <1>2, <2>1, <2>2 DEF DirInv, RefInv, OwnRef
    <2>5. \A r \in Ref : LiveRef(r)'
      BY Zenon, <1>2, <2>1 DEF DirInv, RefInv, LiveRef
    <2> QED
      BY Zenon, <2>3, <2>4, <2>5 DEF RefInv
  <1>8. ASSUME NEW t \in Stream PROVE StreamInv(t)'
    <2>1. \A u \in Uuid : Announced(u)' <=> Announced(u)
      BY Zenon, <1>2 DEF Announced, Doing
    <2>2. CASE t = s
      BY Zenon, <1>1, <1>2, <2>1, <2>2 DEF StreamInv, Awaits
    <2>3. CASE t # s
      BY <1>1, <1>2, <2>1, <2>3 DEF DirInv, StreamInv, Awaits
    <2> QED
      BY Zenon, <2>2, <2>3
  <1> QED
    BY Zenon, <1>3, <1>4, <1>5, <1>6, <1>7, <1>8 DEF DirInv

(* Subscribe preserves the invariant: everything is still to be listed. *)
LEMMA SubscribeKeeps ==
  ASSUME DirInv, NEW s \in Stream, Subscribe(s)
  PROVE  DirInv'
  <1> USE Constants
  <1> DEFINE v == [stream[s] EXCEPT !.at = "list", !.todo = Uuid, !.cursor = Tail0(created)]
  <1>1. /\ v \in StreamType /\ v.at = "list" /\ v.todo = Uuid /\ v.cursor = Len(created)
        /\ v.forwarders = stream[s].forwarders
    BY Zenon, StreamTypeFacts DEF DirInv, StreamType, StreamAt, Tail0
  <1>2. \A u \in Uuid : v.forwarders[u] = 0
    BY <1>1 DEF Subscribe, DirInv, StreamInv
  <1>3. SetStream(s, v) /\ ButStreams /\ up /\ watched
    BY Zenon DEF Subscribe
  <1>4. v.cursor <= Len(created)
    BY <1>1, StreamTypeFacts DEF DirInv
  <1> HIDE DEF v
  <1> QED
    BY Zenon, <1>1, <1>2, <1>3, <1>4, OneStreamKeeps

(* ListShard preserves the invariant: an account is seen when its shard is  *)
(* visited, or announced later.                                             *)
LEMMA ListShardKeeps ==
  ASSUME DirInv, NEW s \in Stream, ListShard(s)
  PROVE  DirInv'
  <1> USE Constants
  <1>1. PICK w \in stream[s].todo :
          SetStream(s, [stream[s] EXCEPT !.todo = @ \ {w},
                          !.snapshot = IF w \in handles THEN @ \cup {w} ELSE @])
    BY Zenon DEF ListShard
  <1> DEFINE v == [stream[s] EXCEPT !.todo = @ \ {w},
                     !.snapshot = IF w \in handles THEN @ \cup {w} ELSE @]
  <1>2. /\ v \in StreamType /\ v.at = "list" /\ v.todo = stream[s].todo \ {w}
        /\ v.cursor = stream[s].cursor /\ v.forwarders = stream[s].forwarders
        /\ stream[s].snapshot \subseteq v.snapshot /\ (w \in handles => w \in v.snapshot)
    BY ZenonT(30), StreamTypeFacts DEF DirInv, StreamType, StreamAt, ListShard
  <1>3. SetStream(s, v) /\ ButStreams /\ stream[s].at = "list"
    BY Zenon, <1>1 DEF ListShard
  <1> HIDE DEF v
  <1>4. /\ up /\ watched /\ v.cursor <= Len(created)
        /\ \A u \in Uuid : v.forwarders[u] = 0
    <2>1. up /\ watched
      BY Zenon, <1>3 DEF DirInv, DownInv
    <2>2. stream[s].cursor <= Len(created)
      BY Zenon DEF DirInv, HistType
    <2>3. \A u \in Uuid : stream[s].forwarders[u] = 0
      BY Zenon, <1>3 DEF DirInv, StreamInv
    <2> QED
      BY Zenon, <1>2, <2>1, <2>2, <2>3
  <1>5. \A u \in Uuid : Announced(u) =>
           \/ u \in v.snapshot \/ u \in v.todo
           \/ \E i \in (v.cursor + 1)..Len(created) : created[i] = u
    <2> SUFFICES ASSUME NEW u \in Uuid, Announced(u)
                 PROVE  \/ u \in v.snapshot \/ u \in v.todo
                        \/ \E i \in (v.cursor + 1)..Len(created) : created[i] = u
      OBVIOUS
    <2>1. u \in stream[s].snapshot \/ u \in stream[s].todo \/ Awaits(s, u)
      BY Zenon, <1>3 DEF DirInv, StreamInv
    <2>2. Awaits(s, u) => \E i \in (v.cursor + 1)..Len(created) : created[i] = u
      BY Zenon, <1>2 DEF Awaits
    <2> QED
      BY Zenon, <1>2, <2>1, <2>2 DEF Announced
  <1> QED
    BY Zenon, <1>2, <1>3, <1>4, <1>5, OneStreamKeeps

(* Attach preserves the invariant. *)
LEMMA AttachKeeps ==
  ASSUME DirInv, NEW s \in Stream, Attach(s)
  PROVE  DirInv'
  <1> USE Constants
  <1> DEFINE f == [u \in Uuid |-> IF u \in stream[s].snapshot THEN 1 ELSE 0]
             v == [stream[s] EXCEPT !.at = "follow", !.forwarders = f]
  <1>1. /\ v \in StreamType /\ v.at = "follow" /\ v.snapshot = stream[s].snapshot
        /\ v.cursor = stream[s].cursor /\ v.forwarders = f
    BY Zenon, StreamTypeFacts DEF DirInv, StreamType, StreamAt
  <1>2. SetStream(s, v) /\ ButStreams /\ stream[s].at = "list" /\ stream[s].todo = {}
    BY Zenon DEF Attach
  <1>3. \A u \in Uuid : /\ u \in v.snapshot => v.forwarders[u] = 1
                        /\ u \notin v.snapshot => v.forwarders[u] = 0
    BY Zenon, <1>1
  <1> HIDE DEF v
  <1>4. up /\ watched /\ v.cursor <= Len(created)
    BY Zenon, <1>1, <1>2 DEF DirInv, DownInv, HistType
  <1>5. \A u \in Uuid : Announced(u) =>
           \/ v.forwarders[u] > 0
           \/ \E i \in (v.cursor + 1)..Len(created) : created[i] = u
    <2> SUFFICES ASSUME NEW u \in Uuid, Announced(u)
                 PROVE  \/ v.forwarders[u] > 0
                        \/ \E i \in (v.cursor + 1)..Len(created) : created[i] = u
      OBVIOUS
    <2>1. u \in stream[s].snapshot \/ Awaits(s, u)
      BY Zenon, <1>2 DEF DirInv, StreamInv
    <2>2. Awaits(s, u) => \E i \in (v.cursor + 1)..Len(created) : created[i] = u
      BY Zenon, <1>1 DEF Awaits
    <2>3. 1 > 0
      OBVIOUS
    <2> QED
      BY Zenon, <1>1, <1>3, <2>1, <2>2, <2>3
  <1> QED
    BY Zenon, <1>1, <1>2, <1>3, <1>4, <1>5, OneStreamKeeps

(* FollowCreated preserves the invariant: an account is announced once, so  *)
(* the one received now was not received before.                            *)
LEMMA FollowCreatedKeeps ==
  ASSUME DirInv, NEW s \in Stream, FollowCreated(s)
  PROVE  DirInv'
  <1> USE Constants
  <1> DEFINE n == stream[s].cursor
             w == created[n + 1]
             v == [stream[s] EXCEPT !.cursor = @ + 1,
                     !.forwarders[w] = IF w \in stream[s].snapshot THEN @ ELSE @ + 1]
  <1>1. /\ stream[s].at = "follow" /\ SetStream(s, v) /\ ButStreams
        /\ n \in Nat /\ Len(created) \in Nat /\ n < Len(created)
    BY Zenon, StreamTypeFacts DEF FollowCreated, CanRecv, Received, DirInv
  <1>2. w \in Uuid /\ n + 1 \in 1..Len(created)
    BY <1>1, StreamTypeFacts DEF DirInv
  <1>3. /\ v \in StreamType /\ v.at = "follow" /\ v.snapshot = stream[s].snapshot
        /\ v.cursor = n + 1 /\ v.gap = stream[s].gap
        /\ \A u \in Uuid : u # w => v.forwarders[u] = stream[s].forwarders[u]
        /\ w \in v.snapshot => v.forwarders[w] = stream[s].forwarders[w]
        /\ w \notin v.snapshot => v.forwarders[w] = stream[s].forwarders[w] + 1
    <2> DEFINE g == stream[s].forwarders
               f == [g EXCEPT ![w] = IF w \in stream[s].snapshot THEN @ ELSE @ + 1]
               m == n + 1
    <2>1. stream[s] \in StreamType /\ g \in [Uuid -> Nat] /\ m \in Nat
      <3>1. stream[s] \in StreamType /\ g \in [Uuid -> Nat] /\ n \in Nat
        BY Zenon, StreamTypeFacts DEF DirInv
      <3>2. \A x \in Nat : x + 1 \in Nat
        OBVIOUS
      <3> QED
        BY Zenon, <3>1, <3>2
    <2>3. v = [stream[s] EXCEPT !.cursor = m, !.forwarders = f]
      BY Zenon, <2>1 DEF StreamType
    <2>5. w \in Uuid
      BY Zenon, <1>2
    <2> HIDE DEF v, g, w, m
    <2>2. /\ f \in [Uuid -> Nat] /\ \A u \in Uuid : u # w => f[u] = g[u]
          /\ w \in stream[s].snapshot => f[w] = g[w]
          /\ w \notin stream[s].snapshot => f[w] = g[w] + 1
      <3>1. \A x \in Nat : x + 1 \in Nat
        OBVIOUS
      <3> QED
        BY Zenon, <2>1, <2>5, <3>1
    <2> HIDE DEF f
    <2>4. /\ v \in StreamType /\ v.at = stream[s].at /\ v.snapshot = stream[s].snapshot
          /\ v.cursor = m /\ v.gap = stream[s].gap /\ v.forwarders = f
      BY Zenon, <2>1, <2>2, <2>3 DEF StreamType
    <2> QED
      BY Zenon, <1>1, <2>2, <2>4 DEF g, m
  <1> HIDE DEF v
  <1>4. \A i \in 1..n : created[i] # w
    BY <1>1, <1>2 DEF DirInv, MadeInv
  <1>5. StreamInv(s)
    BY Zenon DEF DirInv
  <1>6. up /\ watched /\ v.cursor <= Len(created)
    BY <1>1, <1>3 DEF DirInv, DownInv
  <1>7. ASSUME NEW u \in Uuid
        PROVE  /\ u \in v.snapshot => v.forwarders[u] = 1
               /\ u \notin v.snapshot =>
                    \/ v.forwarders[u] = 0
                    \/ v.forwarders[u] = 1 /\ \E i \in 1..v.cursor : created[i] = u
    <2>1. CASE u = w
      <3>1. u \notin v.snapshot => stream[s].forwarders[w] = 0
        BY Zenon, <1>1, <1>3, <1>4, <1>5, <2>1 DEF StreamInv
      <3>2. n + 1 \in 1..v.cursor
        BY <1>1, <1>3
      <3>3. u \in v.snapshot => stream[s].forwarders[w] = 1
        BY Zenon, <1>1, <1>3, <1>5, <2>1 DEF StreamInv
      <3>4. 0 + 1 = 1
        OBVIOUS
      <3>5. u \notin v.snapshot => v.forwarders[u] = 1
        BY Zenon, <1>3, <2>1, <3>1, <3>4
      <3> QED
        BY Zenon, <1>3, <2>1, <3>2, <3>3, <3>5
    <2>2. CASE u # w
      <3>1. \A i \in 1..n : i \in 1..v.cursor
        BY <1>1, <1>3
      <3> QED
        BY Zenon, <1>1, <1>3, <1>5, <2>2, <3>1 DEF StreamInv
    <2> QED
      BY Zenon, <2>1, <2>2
  <1>8. ASSUME NEW u \in Uuid, Announced(u)
        PROVE  \/ v.forwarders[u] > 0 \/ u \in v.gap
               \/ \E i \in (v.cursor + 1)..Len(created) : created[i] = u
    <2>1. CASE u = w
      <3>1. stream[s].forwarders[w] \in Nat
        BY Zenon, <1>2, StreamTypeFacts DEF DirInv
      <3>2. w \in v.snapshot => stream[s].forwarders[w] = 1
        BY Zenon, <1>1, <1>2, <1>3, <1>5 DEF StreamInv
      <3> QED
        BY <1>3, <2>1, <3>1, <3>2
    <2>2. CASE u # w
      <3>1. stream[s].forwarders[u] > 0 \/ u \in stream[s].gap \/ Awaits(s, u)
        BY Zenon, <1>1, <1>5, <1>8 DEF StreamInv
      <3>2. CASE Awaits(s, u)
        <4>1. PICK i \in (n + 1)..Len(created) : created[i] = u
          BY Zenon, <3>2 DEF Awaits
        <4>2. i \in (v.cursor + 1)..Len(created)
          BY <1>1, <1>3, <2>2, <4>1
        <4> QED
          BY Zenon, <4>1, <4>2
      <3> QED
        BY Zenon, <1>3, <2>2, <3>1, <3>2
    <2> QED
      BY Zenon, <2>1, <2>2
  <1> QED
    BY Zenon, <1>1, <1>3, <1>6, <1>7, <1>8, OneStreamKeeps

(* FollowLagged preserves the invariant: what the cursor passes over is in  *)
(* the gap.                                                                 *)
LEMMA FollowLaggedKeeps ==
  ASSUME DirInv, NEW s \in Stream, FollowLagged(s)
  PROVE  DirInv'
  <1> USE Constants
  <1> DEFINE n == stream[s].cursor
             o == Oldest(created, CreatedCap)
             v == [stream[s] EXCEPT !.at = "marking",
                     !.gap = @ \cup Lag(created, CreatedCap, n), !.cursor = o]
  <1>1. /\ stream[s].at = "follow" /\ SetStream(s, v) /\ ButStreams
        /\ n \in Nat /\ Len(created) \in Nat /\ o \in Nat /\ n < o /\ o <= Len(created)
    <2>1. stream[s].at = "follow" /\ SetStream(s, v) /\ ButStreams
      BY Zenon DEF FollowLagged
    <2>2. HasLagged(created, CreatedCap, n)
      BY Zenon DEF FollowLagged
    <2>3. n \in Nat /\ Len(created) \in Nat
      BY Zenon, StreamTypeFacts DEF DirInv
    <2>4. o \in Nat /\ n < o /\ o <= Len(created)
      <3>1. \A k, l, m \in Nat : l < (IF k > m THEN k - m ELSE 0) =>
              (IF k > m THEN k - m ELSE 0) \in Nat /\ (IF k > m THEN k - m ELSE 0) <= k
        OBVIOUS
      <3>2. CreatedCap \in Nat
        OBVIOUS
      <3> QED
        BY Zenon, <2>2, <2>3, <3>1, <3>2 DEF HasLagged, Oldest
    <2> QED
      BY Zenon, <2>1, <2>3, <2>4
  <1>2. Lag(created, CreatedCap, n) \subseteq Uuid
    BY SMTT(30), <1>1, StreamTypeFacts DEF DirInv, Lag
  <1>3. /\ v \in StreamType /\ v.at = "marking" /\ v.snapshot = stream[s].snapshot
        /\ v.cursor = o /\ v.gap = stream[s].gap \cup Lag(created, CreatedCap, n)
        /\ v.forwarders = stream[s].forwarders
    BY Zenon, <1>1, <1>2, StreamTypeFacts DEF DirInv, StreamType, StreamAt
  <1>4. \A i \in (n + 1)..o : created[i] \in v.gap
    BY Zenon, <1>3 DEF Lag
  <1> HIDE DEF v, o
  <1>5. StreamInv(s)
    BY Zenon DEF DirInv
  <1>6. up /\ watched /\ v.cursor <= Len(created)
    BY Zenon, <1>1, <1>3 DEF DirInv, DownInv
  <1>7. ASSUME NEW u \in Uuid
        PROVE  /\ u \in v.snapshot => v.forwarders[u] = 1
               /\ u \notin v.snapshot =>
                    \/ v.forwarders[u] = 0
                    \/ v.forwarders[u] = 1 /\ \E i \in 1..v.cursor : created[i] = u
    <2>1. \A i \in 1..n : i \in 1..v.cursor
      BY <1>1, <1>3
    <2> QED
      BY Zenon, <1>1, <1>3, <1>5, <2>1 DEF StreamInv
  <1>8. ASSUME NEW u \in Uuid, Announced(u)
        PROVE  \/ v.forwarders[u] > 0 \/ u \in v.gap
               \/ \E i \in (v.cursor + 1)..Len(created) : created[i] = u
    <2>1. stream[s].forwarders[u] > 0 \/ u \in stream[s].gap \/ Awaits(s, u)
      BY Zenon, <1>1, <1>5, <1>8 DEF StreamInv
    <2>2. CASE Awaits(s, u)
      <3>1. PICK i \in (n + 1)..Len(created) : created[i] = u
        BY Zenon, <2>2 DEF Awaits
      <3>2. i \in (n + 1)..o \/ i \in (v.cursor + 1)..Len(created)
        <4>1. n \in Nat /\ Len(created) \in Nat /\ o \in Nat /\ v.cursor = o
          BY Zenon, <1>1, <1>3
        <4> QED
          BY <3>1, <4>1
      <3> QED
        BY Zenon, <1>4, <3>1, <3>2
    <2> QED
      BY Zenon, <1>3, <2>1, <2>2
  <1> QED
    BY Zenon, <1>1, <1>3, <1>6, <1>7, <1>8, OneStreamKeeps

(* MarkerSent and EndStream preserve the invariant. *)
LEMMA MarkerSentKeeps ==
  ASSUME DirInv, NEW s \in Stream, MarkerSent(s)
  PROVE  DirInv'
  <1> USE Constants
  <1> DEFINE v == [stream[s] EXCEPT !.at = "follow"]
  <1>1. /\ v \in StreamType /\ v.at = "follow" /\ v.snapshot = stream[s].snapshot
        /\ v.cursor = stream[s].cursor /\ v.forwarders = stream[s].forwarders
        /\ v.gap = stream[s].gap
    BY Zenon, StreamTypeFacts DEF DirInv, StreamType, StreamAt
  <1>2. SetStream(s, v) /\ ButStreams /\ stream[s].at = "marking"
    BY Zenon DEF MarkerSent
  <1> HIDE DEF v
  <1>3. StreamInv(s) /\ up /\ watched /\ v.cursor <= Len(created)
    BY Zenon, <1>1, <1>2 DEF DirInv, DownInv, HistType
  <1> QED
    BY <1>1, <1>2, <1>3, OneStreamKeeps DEF StreamInv, Awaits

(* A stream that ends.                                                     *)
LEMMA EndStreamKeeps ==
  ASSUME DirInv, NEW s \in Stream, EndStream(s)
  PROVE  DirInv'
  <1> USE Constants
  <1> DEFINE v == [Fresh EXCEPT !.at = "ended"]
  <1>1. /\ v \in StreamType /\ v.at = "ended" /\ v.cursor = 0
        /\ \A u \in Uuid : v.forwarders[u] = 0
    BY Zenon DEF Fresh, StreamType, StreamAt
  <1>2. SetStream(s, v) /\ ButStreams /\ stream[s].at \in {"follow", "marking"}
    BY Zenon DEF EndStream
  <1> HIDE DEF v
  <1>3. up /\ watched /\ v.cursor <= Len(created)
    BY <1>1, <1>2, StreamTypeFacts DEF DirInv, DownInv
  <1> QED
    BY Zenon, <1>1, <1>2, <1>3, OneStreamKeeps
-----------------------------------------------------------------------------
(* Every step preserves the invariant. *)
LEMMA NextKeeps == DirInv /\ [Next]_vars => DirInv'
  <1> SUFFICES ASSUME DirInv, [Next]_vars PROVE DirInv'
    OBVIOUS
  <1>1. CASE LoadExisting
    BY Zenon, <1>1, LoadExistingKeeps
  <1>2. CASE Crash
    BY Zenon, <1>2, CrashKeeps
  <1>3. ASSUME NEW c \in Caller, CallStep(c) PROVE DirInv'
    BY Zenon, <1>3, InsertFailsKeeps, InsertRowKeeps, MapRefKeeps, AddHandleKeeps, SendCreatedKeeps,
       RunBotKeeps, StopBotKeeps, EraseFailsKeeps, EraseRowKeeps, UnmapRefKeeps, ForgetHandleKeeps
    DEF CallStep
  <1>4. ASSUME NEW c \in Caller, DropCall(c) PROVE DirInv'
    BY Zenon, <1>4, DropCallKeeps
  <1>5. ASSUME NEW c \in Caller, NEW r \in Ref \cup {None}, BeginCreate(c, r) PROVE DirInv'
    BY Zenon, <1>5, BeginCreateKeeps
  <1>6. ASSUME NEW c \in Caller, NEW u \in Uuid, BeginConnect(c, u) \/ BeginDelete(c, u)
        PROVE  DirInv'
    BY Zenon, <1>6, BeginConnectKeeps, BeginDeleteKeeps
  <1>7. ASSUME NEW s \in Stream, StreamStep(s) \/ Subscribe(s) \/ MarkerSent(s) \/ EndStream(s)
        PROVE  DirInv'
    BY Zenon, <1>7, ListShardKeeps, AttachKeeps, FollowCreatedKeeps, FollowLaggedKeeps,
       SubscribeKeeps, MarkerSentKeeps, EndStreamKeeps
    DEF StreamStep
  <1>8. CASE UNCHANGED vars
    <2>1. UNCHANGED <<rows, refOf, minted, handles, by_external, created, bots, call, stream,
                      up, restarts, watched, hist>>
      BY Zenon, <1>8 DEF vars, dirVars, envVars
    <2>2. TypeOK' /\ HistType' /\ DownInv' /\ Drawn' /\ MadeInv' /\ DeletedStaysGone'
      BY ZenonT(30), <2>1 DEF DirInv, TypeOK, HistType, DownInv, Drawn, MadeInv, DeletedStaysGone, resolve
    <2>3. (\A c \in Caller : CallInv(c)') /\ HandleInv' /\ BotInv'
      BY <2>1 DEF DirInv, CallInv, HandleInv, Doing, BotInv
    <2>4. \A u : (Doing(Creating, u)' <=> Doing(Creating, u)) /\ (Doing(DeletePC, u)' <=> Doing(DeletePC, u))
              /\ (Doing({"map"}, u)' <=> Doing({"map"}, u)) /\ (Doing({"unmap"}, u)' <=> Doing({"unmap"}, u))
      BY Zenon, <2>1 DEF Doing
    <2>5. RefInv'
      BY Zenon, <2>1, <2>4, RefsKept DEF Trusted, Present, envVars
    <2>6. \A s \in Stream : StreamInv(s)'
      BY Zenon, <2>1, StreamsKept DEF Announced, Doing
    <2> QED
      BY Zenon, <2>2, <2>3, <2>5, <2>6 DEF DirInv
  <1> QED
    BY Zenon, <1>1, <1>2, <1>3, <1>4, <1>5, <1>6, <1>7, <1>8 DEF Next

(* The invariant holds throughout. *)
LEMMA Directory == Spec => []DirInv
  BY InitInv, NextKeeps, PTL DEF Spec

-----------------------------------------------------------------------------
(* However a listing overlaps creations, no stream ever has two forwarders  *)
(* of one account: forward_all_accounts subscribes before it lists and      *)
(* skips what the snapshot has, and an account is announced once.           *)
THEOREM NeverFollowedTwice == Spec => []FollowedOnce
  <1>1. DirInv => FollowedOnce
    <2> SUFFICES ASSUME DirInv, NEW s \in Stream, NEW u \in Uuid
                 PROVE  stream[s].forwarders[u] <= 1
      BY Zenon DEF FollowedOnce
    <2>1. stream[s].forwarders[u] \in {0, 1}
      BY Zenon DEF DirInv, StreamInv
    <2> QED
      BY <2>1
  <1> QED
    BY <1>1, Directory, PTL

(* Every announced account is forwarded by a following stream, or waits in  *)
(* its receiver, or is covered by a gap marker.                             *)
THEOREM StreamsMissNothing == Spec => []NoneMissed
  <1>1. DirInv => NoneMissed
    <2> SUFFICES ASSUME DirInv, NEW s \in Stream, stream[s].at \in {"follow", "marking"},
                        NEW u \in handles \ {call[c].u : c \in {d \in Caller : call[d].pc = "send"}}
                 PROVE  \/ stream[s].forwarders[u] > 0 \/ u \in stream[s].gap
                        \/ \E i \in (stream[s].cursor + 1)..Len(created) : created[i] = u
      BY Zenon DEF NoneMissed
    <2>1. u \in Uuid /\ Announced(u)
      BY Zenon DEF DirInv, TypeOK, Announced, Doing
    <2> QED
      BY Zenon, <2>1 DEF DirInv, StreamInv, Awaits
  <1> QED
    BY <1>1, Directory, PTL

(* Once CreateAccount has answered, the account is found until somebody     *)
(* asks for its deletion, across restarts.                                  *)
THEOREM CreatedStaysFound == Spec => []CreatedIsFound
  <1>1. DirInv => CreatedIsFound
    <2> SUFFICES ASSUME DirInv, NEW u \in hist.made \ hist.asked
                 PROVE  /\ u \in rows
                        /\ up => /\ resolve(u)
                                 /\ refOf[u] \in Ref \ hist.crossed => by_external[refOf[u]] = u
      BY Zenon DEF CreatedIsFound
    <2>1. u \in rows /\ (up => resolve(u)) /\ u \in Uuid
      BY Zenon DEF DirInv, MadeInv, resolve, HistType, HistRec
    <2>2. Trusted(u) /\ ~Doing({"map"}, u)
      BY Zenon DEF Trusted, Doing, DirInv, CallInv, Creating
    <2> QED
      BY Zenon, <2>1, <2>2 DEF DirInv, RefInv, OwnRef
  <1> QED
    BY <1>1, Directory, PTL

(* Once DeleteAccount has answered, the account is never found again. *)
THEOREM DeletedNeverFound == Spec => []DeletedStaysGone
  <1>1. DirInv => DeletedStaysGone
    BY Zenon DEF DirInv
  <1> QED
    BY <1>1, Directory, PTL

(* At rest the handles are the rows of the table, but for the writes whose  *)
(* calls went no further, and every reference leads to the account that has *)
(* it or, once taken over, to none.                                         *)
THEOREM ExactAtRest == Spec => []AtRestExact
  <1>1. DirInv => AtRestExact
    <2> SUFFICES ASSUME DirInv, up, \A c \in Caller : call[c] = Idle
                 PROVE  Exact
      BY Zenon DEF AtRestExact
    <2> USE Constants, IdleFacts
    <2>1. \A u \in Uuid : /\ ~Doing({"unmap", "forget"}, u) /\ ~Doing({"map", "publish"}, u)
                          /\ ~Doing({"map"}, u) /\ ~Doing({"unmap"}, u)
      BY Zenon DEF Doing
    <2>2. handles \ hist.unsure = rows \ hist.unsure
      BY ZenonT(30), <2>1 DEF DirInv, HandleInv, TypeOK
    <2>3. ASSUME NEW r \in Ref, by_external[r] # None
          PROVE  refOf[by_external[r]] = r /\ by_external[r] \in rows \cup hist.unsure
      BY Zenon, <2>1, <2>3 DEF DirInv, RefInv, MapRefs, LiveRef, TypeOK
    <2>4. ASSUME NEW u \in rows \ hist.unsure, refOf[u] \in Ref \ hist.crossed
          PROVE  by_external[refOf[u]] = u
      BY ZenonT(30), <2>1, <2>4 DEF DirInv, RefInv, OwnRef, Trusted, TypeOK
    <2> QED
      BY Zenon, <2>2, <2>3, <2>4 DEF Exact
  <1> QED
    BY <1>1, Directory, PTL

(* A bot outlives its account's row only when a connect overlapped the      *)
(* delete, or the delete erased the row and went no further.                *)
THEOREM BotsHaveAccounts == Spec => []BotHasAccount
  <1>1. DirInv => BotHasAccount
    BY Zenon DEF DirInv, BotInv, BotHasAccount
  <1> QED
    BY <1>1, Directory, PTL

(* Whenever load_existing runs, the directory is exact after it. *)
THEOREM RestartsHeal == Spec => RestartHeals
  <1> DEFINE Heals == ~up /\ up' => /\ handles' = rows'
                                    /\ \A u \in rows' : refOf[u] \in Ref => by_external'[refOf[u]] = u
  <1>1. DirInv /\ [Next]_vars => [Heals]_vars
    <2> SUFFICES ASSUME DirInv, Next, ~up, up'
                 PROVE  /\ handles' = rows'
                        /\ \A u \in rows' : refOf[u] \in Ref => by_external'[refOf[u]] = u
      OBVIOUS
    <2>1. LoadExisting
      <3>1. ~Crash
        BY Zenon DEF Crash
      <3>2. \A c \in Caller : call[c].pc = "idle"
        BY Zenon, IdleFacts DEF DirInv, DownInv
      <3>3. \A c \in Caller : ~CallStep(c) /\ ~DropCall(c)
        BY Zenon, <3>2 DEF CallStep, InsertFails, InsertRow, MapRef, AddHandle, SendCreated, RunBot,
          StopBot, EraseFails, EraseRow, UnmapRef, ForgetHandle, DropCall
      <3>4. \A c \in Caller : /\ \A r \in Ref \cup {None} : ~BeginCreate(c, r)
                              /\ \A u \in Uuid : ~BeginConnect(c, u) /\ ~BeginDelete(c, u)
        BY Zenon DEF BeginCreate, BeginConnect, BeginDelete
      <3>5. \A s \in Stream : ~StreamStep(s) /\ ~Subscribe(s) /\ ~MarkerSent(s) /\ ~EndStream(s)
        BY Zenon DEF DirInv, DownInv, StreamStep, ListShard, Attach, FollowCreated, FollowLagged,
          Subscribe, MarkerSent, EndStream
      <3> QED
        BY Zenon, <3>1, <3>3, <3>4, <3>5 DEF Next
    <2>2. handles' = rows' /\ rows' = rows
      BY Zenon, <2>1 DEF LoadExisting
    <2>3. ASSUME NEW u \in rows, refOf[u] \in Ref PROVE by_external'[refOf[u]] = u
      <3>1. by_external'[refOf[u]] = CHOOSE w \in rows : refOf[w] = refOf[u]
        BY Zenon, <2>1, <2>3 DEF LoadExisting
      <3>2. \A w \in rows : refOf[w] = refOf[u] => w = u
        BY Zenon, <2>3, Constants DEF DirInv, RefInv, RowRefs
      <3> QED
        BY Zenon, <3>1, <3>2
    <2> QED
      BY Zenon, <2>2, <2>3
  <1> QED
    BY <1>1, Directory, PTL DEF Spec, RestartHeals
=============================================================================
