------------------------------ MODULE RequestsProofs --------------------------
(***************************************************************************)
(* Proofs about Requests, for every handler of the services and any number *)
(* of votes in a poll and of names in a query.  The first half is about the *)
(* plans: a handler is put together from parts, and each rule says what a   *)
(* part may be and what the whole then is.  The second half is about a      *)
(* request under way, from what its plan allows.                            *)
(***************************************************************************)
EXTENDS Requests, TLAPS

(* The steps before the first call, those of the rest of a handler, and the *)
(* ones that go to the library or that find the account.                    *)
Leading == {"check", "account", "known", "stage"}
Doing == {"call", "tally", "quiet", "read", "open"}
Kinds == Leading \cup Doing \cup {"send", "echo", "answer"}
Calls == {"call", "send", "tally"}
Naming == {"account", "known"}

(* The checks and the resolution of the account come before every call. *)
Ordered(s) ==
  \A i, j \in DOMAIN s : s[i].do \in Leading /\ s[j].do \in Calls => i < j
(* The account is found, and the fields that are checked. *)
Known(s) == \E i \in DOMAIN s : s[i].do \in Naming
Asked(s) == {s[i].on : i \in {j \in DOMAIN s : s[j].do = "check"}}

(* A sequence of steps of the kinds D. *)
Steps(s, D) == \E S : s \in Seq(S) /\ \A x \in S : x.do \in D

(* The parts of a handler: what only checks, what only works, and what does *)
(* the one before the other; with a K, the account is found in it.          *)
Pre(s) == Steps(s, Leading)
PreK(s) == Pre(s) /\ Known(s)
Does(s) == Steps(s, Doing)
Body(s) == Steps(s, Leading \cup Doing) /\ Ordered(s)
BodyK(s) == Body(s) /\ Known(s)

(* A sequence of steps has indices, and each step is of its kinds.         *)
LEMMA StepsHas ==
  ASSUME NEW D, NEW s, Steps(s, D)
  PROVE  /\ Len(s) \in Nat /\ DOMAIN s = 1 .. Len(s)
         /\ \A i \in DOMAIN s : s[i].do \in D
  <1>1. PICK S : s \in Seq(S) /\ \A x \in S : x.do \in D
    BY Zenon DEF Steps
  <1>2. \A i \in DOMAIN s : s[i] \in S
    BY <1>1
  <1> QED
    BY <1>1, <1>2

LEMMA StepsMono ==
  ASSUME NEW D, NEW E, D \subseteq E, NEW s, Steps(s, D)
  PROVE  Steps(s, E)
  BY Zenon DEF Steps

(* Two sequences of steps put together, index by index.                    *)
LEMMA StepsConcat ==
  ASSUME NEW D, NEW s, NEW t, Steps(s, D), Steps(t, D)
  PROVE  /\ Steps(s \o t, D) /\ Len(s \o t) = Len(s) + Len(t)
         /\ \A i \in 1 .. Len(s) + Len(t) :
              (s \o t)[i] = IF i <= Len(s) THEN s[i] ELSE t[i - Len(s)]
  <1>1. PICK S : s \in Seq(S) /\ \A x \in S : x.do \in D
    BY Zenon DEF Steps
  <1>2. PICK T : t \in Seq(T) /\ \A x \in T : x.do \in D
    BY Zenon DEF Steps
  <1>3. PICK U : U = S \cup T
    OBVIOUS
  <1>4. s \in Seq(U) /\ t \in Seq(U) /\ \A x \in U : x.do \in D
    BY <1>1, <1>2, <1>3
  <1>5. /\ s \o t \in Seq(U) /\ Len(s \o t) = Len(s) + Len(t)
        /\ \A i \in 1 .. Len(s) + Len(t) :
             (s \o t)[i] = IF i <= Len(s) THEN s[i] ELSE t[i - Len(s)]
    BY <1>4
  <1>6. Steps(s \o t, D)
    BY <1>4, <1>5, Zenon DEF Steps
  <1> QED
    BY Zenon, <1>5, <1>6

(* The steps the handlers are put together from.                           *)
LEMMA Single ==
  ASSUME NEW D, NEW do \in D, NEW on, NEW err
  PROVE  Steps(<<Step(do, on, err)>>, D)
  <1>1. PICK S : S = {Step(do, on, err)}
    OBVIOUS
  <1>2. Step(do, on, err).do \in D
    BY Zenon DEF Step
  <1>3. <<Step(do, on, err)>> \in Seq(S) /\ \A x \in S : x.do \in D
    BY <1>1, <1>2
  <1> QED
    BY Zenon, <1>3 DEF Steps

LEMMA ChecksPre == ASSUME NEW F, NEW f \in Seq(F) PROVE Pre(Checks(f))
  <1>1. PICK S : S = {Check(x) : x \in F}
    OBVIOUS
  <1>2. Checks(f) \in Seq(S)
    BY <1>1 DEF Checks
  <1>3. \A x \in S : x.do \in Leading
    BY <1>1 DEF Check, Step, Leading
  <1> QED
    BY Zenon, <1>2, <1>3 DEF Pre, Steps

LEMMA Small ==
  /\ \A f : Pre(<<Check(f)>>)
  /\ PreK(account_of) /\ PreK(resolve_only) /\ Pre(stage_upload)
  /\ \A op, err : Does(Call(op, err))
  /\ \A op : Does(Quiet(op)) /\ Does(run_isolated(op))
  /\ Does(<<Step("tally", "aggregate_votes", "client_err")>>)
  /\ Does(lid_mapping_list)
  <1>1. /\ "check" \in Leading /\ "account" \in Leading /\ "known" \in Leading
        /\ "stage" \in Leading
        /\ "call" \in Doing /\ "quiet" \in Doing /\ "tally" \in Doing /\ "read" \in Doing
    BY Zenon DEF Leading, Doing
  <1>2. \A f : Pre(<<Check(f)>>)
    BY <1>1, Single, Zenon DEF Pre, Check
  <1>3. Pre(account_of) /\ Pre(resolve_only) /\ Pre(stage_upload)
    BY <1>1, Single, Zenon DEF Pre, account_of, resolve_only, stage_upload
  <1>4. \A op, err : Does(Call(op, err))
    BY <1>1, Single, Zenon DEF Does, Call
  <1>5. \A op : Does(Quiet(op)) /\ Does(run_isolated(op))
    BY <1>1, <1>4, Single, Zenon DEF Does, Quiet, run_isolated
  <1>6. Does(<<Step("tally", "aggregate_votes", "client_err")>>) /\ Does(lid_mapping_list)
    BY <1>1, Single, Zenon DEF Does, lid_mapping_list
  <1>7. Known(account_of) /\ Known(resolve_only)
    <2>1. 1 \in DOMAIN account_of /\ 1 \in DOMAIN resolve_only
      BY DEF account_of, resolve_only
    <2>2. account_of[1].do \in Naming /\ resolve_only[1].do \in Naming
      BY Zenon DEF account_of, resolve_only, Step, Naming
    <2> QED
      BY Zenon, <2>1, <2>2 DEF Known
  <1> QED
    BY Zenon, <1>2, <1>3, <1>4, <1>5, <1>6, <1>7 DEF PreK

(* An account that one part has found stays found, and parts in order stay *)
(* in order when the first makes no call or the second checks nothing.     *)
LEMMA KnownConcat ==
  ASSUME NEW D, NEW s, Steps(s, D), NEW t, Steps(t, D), Known(s) \/ Known(t)
  PROVE  Known(s \o t)
  <1>1. /\ Steps(s \o t, D) /\ Len(s \o t) = Len(s) + Len(t)
        /\ \A i \in 1 .. Len(s) + Len(t) :
             (s \o t)[i] = IF i <= Len(s) THEN s[i] ELSE t[i - Len(s)]
    BY StepsConcat
  <1>2. ASSUME NEW i \in DOMAIN s, s[i].do \in Naming PROVE Known(s \o t)
    <2>1. i \in DOMAIN (s \o t) /\ (s \o t)[i] = s[i]
      BY <1>1
    <2> QED
      BY Zenon, <1>2, <2>1 DEF Known
  <1>3. ASSUME NEW i \in DOMAIN t, t[i].do \in Naming PROVE Known(s \o t)
    <2>1. i + Len(s) \in DOMAIN (s \o t) /\ (s \o t)[i + Len(s)] = t[i]
      BY <1>1
    <2> QED
      BY Zenon, <1>3, <2>1 DEF Known
  <1> QED
    BY Zenon, <1>2, <1>3 DEF Known

LEMMA OrderedConcat ==
  ASSUME NEW D, NEW s, Steps(s, D), NEW t, Steps(t, D), Ordered(s), Ordered(t),
         \/ \A j \in DOMAIN s : s[j].do \notin Calls
         \/ \A i \in DOMAIN t : t[i].do \notin Leading
  PROVE  Ordered(s \o t)
  <1>1. /\ Steps(s \o t, D) /\ Len(s \o t) = Len(s) + Len(t)
        /\ \A i \in 1 .. Len(s) + Len(t) :
             (s \o t)[i] = IF i <= Len(s) THEN s[i] ELSE t[i - Len(s)]
    BY StepsConcat
  <1> SUFFICES ASSUME NEW i \in DOMAIN (s \o t), NEW j \in DOMAIN (s \o t),
                      (s \o t)[i].do \in Leading, (s \o t)[j].do \in Calls
               PROVE  i < j
    BY Zenon DEF Ordered
  <1>2. i \in 1 .. Len(s) + Len(t) /\ j \in 1 .. Len(s) + Len(t)
    BY <1>1
  <1>3. CASE i <= Len(s) /\ j <= Len(s)
    BY <1>1, <1>2, <1>3 DEF Ordered
  <1>4. CASE i <= Len(s) /\ j > Len(s)
    BY <1>2, <1>4
  <1>5. CASE i > Len(s) /\ j > Len(s)
    <2>1. i - Len(s) \in DOMAIN t /\ j - Len(s) \in DOMAIN t
          /\ (s \o t)[i] = t[i - Len(s)] /\ (s \o t)[j] = t[j - Len(s)]
      BY <1>1, <1>2, <1>5
    <2>2. i - Len(s) < j - Len(s)
      BY Zenon, <2>1 DEF Ordered
    <2> QED
      BY <1>2, <2>2
  <1>6. CASE i > Len(s) /\ j <= Len(s)
    <2>1. i - Len(s) \in DOMAIN t /\ j \in DOMAIN s
          /\ (s \o t)[i] = t[i - Len(s)] /\ (s \o t)[j] = s[j]
      BY <1>1, <1>2, <1>6
    <2> QED
      BY Zenon, <2>1
  <1> QED
    BY <1>2, <1>3, <1>4, <1>5, <1>6

(* What checks makes no call; what calls checks nothing.                   *)
LEMMA PreHas ==
  ASSUME NEW s, Pre(s)
  PROVE  /\ Steps(s, Leading \cup Doing) /\ Steps(s, Kinds) /\ Ordered(s)
         /\ \A j \in DOMAIN s : s[j].do \in Leading /\ s[j].do \notin Calls
  <1>1. Steps(s, Leading \cup Doing) /\ Steps(s, Kinds)
    BY Zenon, StepsMono DEF Pre, Kinds
  <1>2. ASSUME NEW j \in DOMAIN s PROVE s[j].do \in Leading /\ s[j].do \notin Calls
    <2>1. s[j].do \in Leading
      BY Zenon, StepsHas DEF Pre
    <2> QED
      BY Zenon, <2>1 DEF Leading, Calls
  <1> QED
    BY Zenon, <1>1, <1>2 DEF Ordered

LEMMA DoesHas ==
  ASSUME NEW s, Does(s)
  PROVE  /\ Steps(s, Leading \cup Doing) /\ Steps(s, Kinds) /\ Ordered(s)
         /\ \A j \in DOMAIN s : s[j].do \notin Leading
  <1>1. Steps(s, Leading \cup Doing) /\ Steps(s, Kinds)
    BY Zenon, StepsMono DEF Does, Kinds
  <1>2. ASSUME NEW j \in DOMAIN s PROVE s[j].do \notin Leading
    <2>1. s[j].do \in Doing
      BY Zenon, StepsHas DEF Does
    <2> QED
      BY Zenon, <2>1 DEF Leading, Doing
  <1> QED
    BY Zenon, <1>1, <1>2 DEF Ordered

(* How the parts of a handler go together. *)
LEMMA PreRules ==
  /\ \A s, t : Pre(s) /\ Pre(t) => Pre(s \o t)
  /\ \A s, t : PreK(s) /\ Pre(t) => PreK(s \o t)
  /\ \A s, t : Pre(s) /\ PreK(t) => PreK(s \o t)
  <1>1. \A s, t : Pre(s) /\ Pre(t) => Pre(s \o t)
    BY Zenon, StepsConcat DEF Pre
  <1>2. \A s, t : Pre(s) /\ Pre(t) /\ (Known(s) \/ Known(t)) => Known(s \o t)
    BY Zenon, KnownConcat DEF Pre
  <1> QED
    BY Zenon, <1>1, <1>2 DEF PreK

LEMMA BodyRules ==
  /\ \A s, t : Does(s) /\ Does(t) => Does(s \o t)
  /\ \A s : Does(s) \/ Pre(s) => Body(s)
  /\ \A s, t : Pre(s) /\ Body(t) => Body(s \o t)
  /\ \A s, t : Body(s) /\ Does(t) => Body(s \o t)
  /\ \A s, t : PreK(s) /\ Body(t) => BodyK(s \o t)
  /\ \A s, t : BodyK(s) /\ Does(t) => BodyK(s \o t)
  <1>1. \A s, t : Does(s) /\ Does(t) => Does(s \o t)
    BY Zenon, StepsConcat DEF Does
  <1>2. \A s : Does(s) \/ Pre(s) => Body(s)
    BY Zenon, PreHas, DoesHas DEF Body
  <1>3. ASSUME NEW s, NEW t, Pre(s), Body(t) PROVE Body(s \o t) /\ (Known(s) => Known(s \o t))
    <2>1. Steps(s \o t, Leading \cup Doing)
      BY Zenon, <1>3, PreHas, StepsConcat DEF Body
    <2>2. Ordered(s \o t)
      BY Zenon, <1>3, PreHas, OrderedConcat DEF Body
    <2>3. Known(s) => Known(s \o t)
      BY Zenon, <1>3, PreHas, KnownConcat DEF Body
    <2> QED
      BY Zenon, <2>1, <2>2, <2>3 DEF Body
  <1>4. ASSUME NEW s, NEW t, Body(s), Does(t) PROVE Body(s \o t) /\ (Known(s) => Known(s \o t))
    <2>1. Steps(s \o t, Leading \cup Doing)
      BY Zenon, <1>4, DoesHas, StepsConcat DEF Body
    <2>2. Ordered(s \o t)
      BY Zenon, <1>4, DoesHas, OrderedConcat DEF Body
    <2>3. Known(s) => Known(s \o t)
      BY Zenon, <1>4, DoesHas, KnownConcat DEF Body
    <2> QED
      BY Zenon, <2>1, <2>2, <2>3 DEF Body
  <1> QED
    BY Zenon, <1>1, <1>2, <1>3, <1>4 DEF PreK, BodyK

-----------------------------------------------------------------------------
(* A whole handler: it ends with its answer; a message goes out third from   *)
(* the end, its echo next; before a call every field it ever checks has been *)
(* checked, and the account found.                                           *)
Guarded(p) ==
  \A i \in DOMAIN p : p[i].do \in Calls =>
    /\ \A f \in Asked(p) : \E j \in 1 .. i - 1 : p[j].do = "check" /\ p[j].on = f
    /\ \E j \in 1 .. i - 1 : p[j].do \in Naming

(* A plan ends with its answer, sends at most once and right before its     *)
(* echo and its answer, and calls nothing unguarded.                        *)
PlanOK(p) ==
  /\ Steps(p, Kinds) /\ Len(p) > 0
  /\ \A i \in DOMAIN p : p[i].do = "answer" <=> i = Len(p)
  /\ \A i \in DOMAIN p : p[i].do = "send" => i + 2 = Len(p)
  /\ Guarded(p)

(* A plan that sends nothing; one that answers with the chat and the stanza *)
(* it sent.                                                                 *)
Silent(p) == \A i \in DOMAIN p : p[i].do # "send"
Keyed(p) == Silent(p) \/ (p[Len(p)].on = "addressed" /\ p[Len(p)].err = "stanza")

(* A handler whose checks all come before its calls guards every call.     *)
LEMMA OrderedGuards ==
  ASSUME NEW p, Steps(p, Kinds), Ordered(p), Known(p)
  PROVE  Guarded(p)
  <1> SUFFICES ASSUME NEW i \in DOMAIN p, p[i].do \in Calls
               PROVE  /\ \A f \in Asked(p) : \E j \in 1 .. i - 1 : p[j].do = "check" /\ p[j].on = f
                      /\ \E j \in 1 .. i - 1 : p[j].do \in Naming
    BY Zenon DEF Guarded
  <1>1. \A j \in DOMAIN p : p[j].do \in Leading => j \in 1 .. i - 1
    BY StepsHas DEF Ordered
  <1>2. "check" \in Leading /\ Naming \subseteq Leading
    BY Zenon DEF Leading, Naming
  <1>3. \E j \in 1 .. i - 1 : p[j].do \in Naming
    BY Zenon, <1>1, <1>2 DEF Known
  <1>4. \A f \in Asked(p) : \E j \in 1 .. i - 1 : p[j].do = "check" /\ p[j].on = f
    BY Zenon, <1>1, <1>2 DEF Asked
  <1> QED
    BY Zenon, <1>3, <1>4

(* The answer, and what a part at the end adds to a handler.               *)
LEMMA AnswerIs ==
  ASSUME NEW chat , NEW id 
  PROVE  /\ Steps(Answer(chat, id), Kinds) /\ Len(Answer(chat, id)) = 1
         /\ Answer(chat, id)[1].do = "answer"
         /\ Answer(chat, id)[1].on = chat /\ Answer(chat, id)[1].err = id
  <1>1. [Step("answer", chat, "none") EXCEPT !.err = id] = Step("answer", chat, id)
    BY DEF Step
  <1>2. Answer(chat, id) = <<Step("answer", chat, id)>> /\ "answer" \in Kinds
    BY Zenon, <1>1 DEF Answer, Kinds
  <1>3. Steps(Answer(chat, id), Kinds)
    BY <1>2, Single, Zenon
  <1>4. /\ Step("answer", chat, id).do = "answer" /\ Step("answer", chat, id).on = chat
        /\ Step("answer", chat, id).err = id
    BY Zenon DEF Step
  <1> QED
    BY <1>2, <1>3, <1>4

LEMMA EndsWith ==
  ASSUME NEW s, NEW t, Steps(s, Kinds), Steps(t, Kinds)
  PROVE  /\ Steps(s \o t, Kinds) /\ Len(s \o t) = Len(s) + Len(t)
         /\ \A i \in 1 .. Len(s) : (s \o t)[i] = s[i]
         /\ \A i \in 1 .. Len(t) : (s \o t)[Len(s) + i] = t[i]
  <1>1. /\ Steps(s \o t, Kinds) /\ Len(s \o t) = Len(s) + Len(t)
        /\ \A i \in 1 .. Len(s) + Len(t) :
             (s \o t)[i] = IF i <= Len(s) THEN s[i] ELSE t[i - Len(s)]
    BY StepsConcat
  <1>2. Len(s) \in Nat /\ Len(t) \in Nat
    BY Zenon, StepsHas
  <1>3. ASSUME NEW i \in 1 .. Len(t) PROVE (s \o t)[Len(s) + i] = t[i]
    <2>1. (s \o t)[Len(s) + i] = t[(Len(s) + i) - Len(s)]
      BY <1>1, <1>2
    <2> QED
      BY <1>2, <2>1
  <1> QED
    BY <1>1, <1>2, <1>3

(* A handler that sends no message. *)
LEMMA QuietPlan ==
  ASSUME NEW s, BodyK(s), NEW chat , NEW id 
  PROVE  PlanOK(s \o Answer(chat, id)) /\ Silent(s \o Answer(chat, id))
  <1> DEFINE t == Answer(chat, id)
             p == s \o t
  <1>1. Steps(s, Kinds) /\ Ordered(s) /\ Known(s)
    BY Zenon, StepsMono DEF BodyK, Body, Kinds
  <1>a. Steps(t, Kinds)
    BY Zenon, AnswerIs
  <1>2. /\ Steps(t, Kinds) /\ Len(t) = 1 /\ t[1].do = "answer"
    BY AnswerIs
  <1>3. \A i \in DOMAIN s : s[i].do \notin {"answer", "send", "echo"}
    <2> SUFFICES ASSUME NEW i \in DOMAIN s PROVE s[i].do \notin {"answer", "send", "echo"}
      OBVIOUS
    <2>1. s[i].do \in Leading \cup Doing
      BY Zenon, StepsHas DEF BodyK, Body
    <2> QED
      BY Zenon, <2>1 DEF Leading, Doing
  <1>4. \A j \in DOMAIN t : t[j].do \notin Leading /\ t[j].do \notin Calls
    BY <1>2 DEF Leading, Calls
  <1> HIDE DEF t
  <1>5. /\ Steps(p, Kinds) /\ Len(p) = Len(s) + 1
        /\ \A i \in 1 .. Len(s) : p[i] = s[i]
        /\ p[Len(p)] = t[1]
    <2>1. /\ Steps(s \o t, Kinds) /\ Len(s \o t) = Len(s) + Len(t)
          /\ \A i \in 1 .. Len(s) : (s \o t)[i] = s[i]
          /\ \A i \in 1 .. Len(t) : (s \o t)[Len(s) + i] = t[i]
      BY <1>1, <1>a, EndsWith
    <2> QED
      BY <1>2, <2>1
  <1>6. Ordered(t)
    BY Zenon, <1>4 DEF Ordered
  <1>7. Ordered(p) /\ Known(p)
    BY Zenon, <1>1, <1>2, <1>4, <1>6, OrderedConcat, KnownConcat
  <1> HIDE DEF p
  <1>8. Guarded(p)
    BY Zenon, <1>5, <1>7, OrderedGuards
  <1>9. \A i \in DOMAIN p : i = Len(p) \/ (i \in 1 .. Len(s) /\ i \in DOMAIN s)
    BY <1>1, <1>5
  <1>10. \A i \in DOMAIN p : (p[i].do = "answer" <=> i = Len(p)) /\ p[i].do # "send"
    BY Zenon, <1>1, <1>2, <1>3, <1>5, <1>9
  <1> QED
    BY <1>5, <1>8, <1>10 DEF PlanOK, Silent, p, t

-----------------------------------------------------------------------------
(* The handlers of the group, contact, newsletter and call services. *)

(* One query after the other, for any number of queries.                   *)
LEMMA LidResolve == Does(lid_mapping_resolve(Queries))
  <1> DEFINE x == Step("call", "get_lid_pn_entry", "client_err")
  <1>1. x.do \in Doing
    BY Zenon DEF Step, Doing
  <1> HIDE DEF x
  <1>2. [i \in 1 .. Queries |-> x] \in Seq({x})
    BY RequestAssumption
  <1>3. lid_mapping_resolve(Queries) = [i \in 1 .. Queries |-> x]
    BY Zenon DEF lid_mapping_resolve, x
  <1> QED
    BY <1>1, <1>2, <1>3 DEF Does, Steps

(* The handlers of the group, contact, newsletter and call services are     *)
(* guarded and send no message.                                             *)
LEMMA DirectoryFine ==
  ASSUME NEW r \in DOMAIN DirectoryPlans(Queries)
  PROVE  PlanOK(DirectoryPlans(Queries)[r]) /\ Silent(DirectoryPlans(Queries)[r])
  <1> DEFINE Fine(p) == PlanOK(p) /\ Silent(p)
  <1> SUFFICES Fine(DirectoryPlans(Queries)[r])
    OBVIOUS
  <1>0. \A s : BodyK(s) => Fine(s \o Plain)
    BY Zenon, QuietPlan DEF Plain
  <1> HIDE DEF Fine
  <1>1. \A s, t : PreK(s) /\ Does(t) => BodyK(s \o t)
    BY Zenon, BodyRules
  (* The account, then the call. *)
  <1>2. \A op, err  : Fine(client_of \o Call(op, err) \o Plain)
    BY Zenon, <1>0, <1>1, Small DEF client_of
  (* The account, a field, then the call. *)
  <1>3. \A f, op, err  :
          /\ PreK(client_of \o <<Check(f)>>)
          /\ Fine(client_of \o <<Check(f)>> \o Call(op, err) \o Plain)
    BY Zenon, <1>0, <1>1, Small, PreRules DEF client_of
  <1>4. \A f, g, op, err  :
          /\ PreK(client_of \o <<Check(f)>> \o <<Check(g)>>)
          /\ Fine(client_of \o <<Check(f)>> \o <<Check(g)>> \o Call(op, err) \o Plain)
    BY Zenon, <1>0, <1>1, <1>3, Small, PreRules
  (* The domain side checks a field of its own. *)
  <1>5. \A g, op, err  : Body(<<Check(g)>> \o Call(op, err))
    BY Zenon, Small, BodyRules
  <1>6. \A g, op, err  : Fine(client_of \o (<<Check(g)>> \o Call(op, err)) \o Plain)
    BY Zenon, <1>0, <1>5, Small, BodyRules DEF client_of
  <1>7. \A f, g, op, err  :
          Fine(client_of \o <<Check(f)>> \o (<<Check(g)>> \o Call(op, err)) \o Plain)
    BY Zenon, <1>0, <1>3, <1>5, BodyRules
  <1>8. \A f, h, g, op, err  :
          Fine(client_of \o <<Check(f)>> \o <<Check(h)>> \o (<<Check(g)>> \o Call(op, err)) \o Plain)
    BY Zenon, <1>0, <1>4, <1>5, BodyRules
  <1>9. /\ Fine(create_group) /\ Fine(get_profile_picture) /\ Fine(get_business_profile)
        /\ Fine(subscribe_presence) /\ Fine(invite_link_request) /\ Fine(leave_group)
        /\ Fine(get_membership_requests) /\ Fine(set_group_ephemeral)
        /\ Fine(set_group_membership_approval) /\ Fine(get_newsletter_metadata)
        /\ Fine(subscribe_newsletter_live_updates) /\ Fine(check_on_whats_app)
        /\ Fine(get_about)
        /\ \A op : Fine(setting_request(op)) /\ Fine(follow_request(op))
        /\ \A empty \in BOOLEAN : Fine(set_group_photo(empty))
    BY Zenon, <1>3 DEF create_group, get_profile_picture, get_business_profile, subscribe_presence,
       invite_link_request, leave_group, get_membership_requests, set_group_ephemeral,
       set_group_membership_approval, get_newsletter_metadata,
       subscribe_newsletter_live_updates, check_on_whats_app, get_about, setting_request,
       follow_request, set_group_photo, jid_list, jid_from_required_wire, jid_parse, group_jid,
       newsletter_jid, groups_create_group, contacts_picture, contacts_get_business_profile,
       contacts_subscribe_presence, groups_invite_link, groups_leave, membership,
       groups_set_ephemeral, change_setting, newsletters_get_metadata, newsletters_subscribe,
       newsletters_follow, groups_set_photo, contacts_check_on_whatsapp, contacts_get_about,
       run_isolated
  <1>10. /\ Fine(join_with_invite) /\ Fine(list_participating) /\ Fine(preview_invite)
         /\ Fine(set_about) /\ Fine(get_blocklist) /\ Fine(list_subscribed_newsletters)
         /\ \A op : Fine(own_picture(op))
    BY Zenon, <1>2 DEF join_with_invite, list_participating, preview_invite, set_about, get_blocklist,
       list_subscribed_newsletters, own_picture, groups_join_with_invite,
       groups_list_participating, groups_preview_invite, contacts_set_about, blocklist_get,
       newsletters_list_subscribed, contacts_picture, run_isolated
  <1>11. \A op : Fine(participants_request(op)) /\ Fine(decide_membership(op)) /\ Fine(mode_request(op))
    BY Zenon, <1>4 DEF participants_request, decide_membership, mode_request, jid_list, group_jid,
       jid_from_required_wire, jid_parse, change_participants, membership, change_setting,
       setting_mode
  <1>12. Fine(set_push_name) /\ Fine(create_newsletter)
    BY Zenon, <1>6 DEF set_push_name, create_newsletter, contacts_set_push_name, newsletters_create
  <1>13. /\ Fine(set_group_subject) /\ Fine(set_group_description)
         /\ \A op : Fine(blocklist_request(op))
    BY Zenon, <1>7 DEF set_group_subject, set_group_description, blocklist_request, group_jid,
       groups_set_subject, groups_set_description, blocklist_change, require_user_jid,
       jid_from_required_wire, jid_parse
  <1>14. Fine(reject_call)
    BY Zenon, <1>8 DEF reject_call, calls_reject_call, jid_from_required_wire, jid_parse
  <1>15. \A q : Pre(q) => \A d : Does(d) => Fine(client_of \o q \o d \o Plain)
    BY Zenon, <1>0, <1>1, Small, PreRules DEF client_of
  <1>16. Pre(option_hashes)
    <2>1. <<"too_many_hashes", "hash_length", "repeated_hash">>
            \in Seq({"too_many_hashes", "hash_length", "repeated_hash"})
      OBVIOUS
    <2> QED
      BY Zenon, <2>1, ChecksPre DEF option_hashes
  <1>17. Pre(NewsletterHistoryQuery) /\ Pre(NewsletterPollVote) /\ Pre(NewsletterAddOnsQuery)
    BY Zenon, <1>16, Small, PreRules DEF NewsletterHistoryQuery, NewsletterPollVote,
       NewsletterAddOnsQuery, newsletter_jid, require_at_least_one
  <1>18. /\ Fine(get_newsletter_messages) /\ Fine(send_newsletter_poll_vote)
         /\ Fine(get_my_newsletter_add_ons) /\ Fine(resolve_lid_pn(Queries))
    BY Zenon, <1>15, <1>17, Small, LidResolve DEF get_newsletter_messages, send_newsletter_poll_vote,
       get_my_newsletter_add_ons, resolve_lid_pn, newsletters_get_messages,
       newsletters_send_poll_vote, newsletters_get_my_addons, LidPnQuery, jid_list,
       jid_from_required_wire, jid_parse
  <1>19. Fine(get_group_metadata)
    <2>1. Does(groups_get_metadata)
      BY Zenon, Small, BodyRules DEF groups_get_metadata
    <2> QED
      BY Zenon, <1>15, <2>1, Small DEF get_group_metadata, group_jid
  <1>20. Fine(get_push_name) /\ Fine(list_lid_mappings)
    BY Zenon, <1>0, <1>1, Small DEF get_push_name, list_lid_mappings, client_of, contacts_get_push_name
  <1> DEFINE P == DirectoryPlans(Queries)
  <1>21. r \in {"create_group", "set_group_subject", "add_participants",
                "remove_participants", "promote_admins", "demote_admins",
                "set_group_description", "get_group_metadata",
                "get_invite_link", "revoke_invite_link", "join_with_invite",
                "list_participating", "leave_group", "set_group_announce",
                "set_group_locked", "set_group_membership_approval",
                "set_group_ephemeral", "preview_invite", "set_group_photo",
                "remove_group_photo", "get_membership_requests",
                "approve_membership_requests", "reject_membership_requests",
                "set_group_member_add_mode", "set_group_member_link_mode",
                "set_group_member_share_history_mode", "check_on_whats_app",
                "get_profile_picture", "set_profile_picture",
                "remove_profile_picture", "get_push_name", "set_push_name",
                "get_about", "set_about", "block_contact", "unblock_contact",
                "get_blocklist", "get_business_profile",
                "subscribe_presence", "resolve_lid_pn", "list_lid_mappings",
                "list_subscribed_newsletters", "get_newsletter_metadata",
                "get_newsletter_messages", "send_newsletter_poll_vote",
                "get_my_newsletter_add_ons",
                "subscribe_newsletter_live_updates", "follow_newsletter",
                "unfollow_newsletter", "mute_newsletter",
                "create_newsletter", "reject_call"}
    BY Zenon DEF DirectoryPlans
  <1>22. /\ P["create_group"] = create_group
         /\ P["set_group_subject"] = set_group_subject
         /\ P["add_participants"] = participants_request("add_participants")
         /\ P["remove_participants"] = participants_request("remove_participants")
         /\ P["promote_admins"] = participants_request("promote_participants")
         /\ P["demote_admins"] = participants_request("demote_participants")
         /\ P["set_group_description"] = set_group_description
         /\ P["get_group_metadata"] = get_group_metadata
         /\ P["get_invite_link"] = invite_link_request
         /\ P["revoke_invite_link"] = invite_link_request
         /\ P["join_with_invite"] = join_with_invite
         /\ P["list_participating"] = list_participating
         /\ P["leave_group"] = leave_group
    BY Zenon DEF DirectoryPlans
  <1>23. /\ P["set_group_announce"] = setting_request("set_announce")
         /\ P["set_group_locked"] = setting_request("set_locked")
         /\ P["set_group_membership_approval"] = set_group_membership_approval
         /\ P["set_group_ephemeral"] = set_group_ephemeral
         /\ P["preview_invite"] = preview_invite
         /\ P["set_group_photo"] = set_group_photo(FALSE)
         /\ P["remove_group_photo"] = set_group_photo(TRUE)
         /\ P["get_membership_requests"] = get_membership_requests
         /\ P["approve_membership_requests"] = decide_membership("approve_membership_requests")
         /\ P["reject_membership_requests"] = decide_membership("reject_membership_requests")
         /\ P["set_group_member_add_mode"] = mode_request("set_member_add_mode")
         /\ P["set_group_member_link_mode"] = mode_request("set_member_link_mode")
         /\ P["set_group_member_share_history_mode"] = mode_request("set_member_share_history_mode")
    BY Zenon DEF DirectoryPlans
  <1>24. /\ P["check_on_whats_app"] = check_on_whats_app
         /\ P["get_profile_picture"] = get_profile_picture
         /\ P["set_profile_picture"] = own_picture("set_profile_picture")
         /\ P["remove_profile_picture"] = own_picture("remove_profile_picture")
         /\ P["get_push_name"] = get_push_name
         /\ P["set_push_name"] = set_push_name
         /\ P["get_about"] = get_about
         /\ P["set_about"] = set_about
         /\ P["block_contact"] = blocklist_request("block")
         /\ P["unblock_contact"] = blocklist_request("unblock")
         /\ P["get_blocklist"] = get_blocklist
         /\ P["get_business_profile"] = get_business_profile
         /\ P["subscribe_presence"] = subscribe_presence
    BY Zenon DEF DirectoryPlans
  <1>25. /\ P["resolve_lid_pn"] = resolve_lid_pn(Queries)
         /\ P["list_lid_mappings"] = list_lid_mappings
         /\ P["list_subscribed_newsletters"] = list_subscribed_newsletters
         /\ P["get_newsletter_metadata"] = get_newsletter_metadata
         /\ P["get_newsletter_messages"] = get_newsletter_messages
         /\ P["send_newsletter_poll_vote"] = send_newsletter_poll_vote
         /\ P["get_my_newsletter_add_ons"] = get_my_newsletter_add_ons
         /\ P["subscribe_newsletter_live_updates"] = subscribe_newsletter_live_updates
         /\ P["follow_newsletter"] = follow_request("newsletter_join")
         /\ P["unfollow_newsletter"] = follow_request("newsletter_leave")
         /\ P["mute_newsletter"] = follow_request("set_admin_mute")
         /\ P["create_newsletter"] = create_newsletter
         /\ P["reject_call"] = reject_call
    BY Zenon DEF DirectoryPlans
  <1> HIDE DEF P
  <1>26. r \in {"create_group", "set_group_subject", "add_participants",
                "remove_participants", "promote_admins", "demote_admins",
                "set_group_description", "get_group_metadata",
                "get_invite_link", "revoke_invite_link", "join_with_invite",
                "list_participating", "leave_group"} => Fine(P[r])
    BY Zenon, <1>22, <1>9, <1>10, <1>11, <1>12, <1>13, <1>14, <1>18, <1>19, <1>20
  <1>27. r \in {"set_group_announce", "set_group_locked",
                "set_group_membership_approval", "set_group_ephemeral",
                "preview_invite", "set_group_photo", "remove_group_photo",
                "get_membership_requests", "approve_membership_requests",
                "reject_membership_requests", "set_group_member_add_mode",
                "set_group_member_link_mode",
                "set_group_member_share_history_mode"} => Fine(P[r])
    BY Zenon, <1>23, <1>9, <1>10, <1>11, <1>12, <1>13, <1>14, <1>18, <1>19, <1>20
  <1>28. r \in {"check_on_whats_app", "get_profile_picture",
                "set_profile_picture", "remove_profile_picture",
                "get_push_name", "set_push_name", "get_about", "set_about",
                "block_contact", "unblock_contact", "get_blocklist",
                "get_business_profile", "subscribe_presence"} => Fine(P[r])
    BY Zenon, <1>24, <1>9, <1>10, <1>11, <1>12, <1>13, <1>14, <1>18, <1>19, <1>20
  <1>29. r \in {"resolve_lid_pn", "list_lid_mappings",
                "list_subscribed_newsletters", "get_newsletter_metadata",
                "get_newsletter_messages", "send_newsletter_poll_vote",
                "get_my_newsletter_add_ons",
                "subscribe_newsletter_live_updates", "follow_newsletter",
                "unfollow_newsletter", "mute_newsletter",
                "create_newsletter", "reject_call"} => Fine(P[r])
    BY Zenon, <1>25, <1>9, <1>10, <1>11, <1>12, <1>13, <1>14, <1>18, <1>19, <1>20
  <1> QED
    BY Zenon, <1>21, <1>26, <1>27, <1>28, <1>29 DEF P

-----------------------------------------------------------------------------
(* The handlers that put a message in a chat. *)

(* The library call that sends comes last. *)
Sends(s) ==
  /\ Steps(s, Leading \cup Doing \cup {"send"}) /\ Len(s) > 0
  /\ \A i \in DOMAIN s : s[i].do = "send" <=> i = Len(s)
SBody(s) == Sends(s) /\ Ordered(s)
SBodyK(s) == SBody(s) /\ Known(s)

(* A send, alone and at the end of a handler's own steps.                  *)
LEMMA SendIs ==
  ASSUME NEW op
  PROVE  /\ SBody(Send(op)) /\ \A i \in DOMAIN Send(op) : Send(op)[i].do \notin Leading
  <1>1. Steps(Send(op), Leading \cup Doing \cup {"send"})
    BY Zenon, Single DEF Send
  <1>2. Len(Send(op)) = 1 /\ Send(op)[1].do = "send" /\ DOMAIN Send(op) = {1}
    BY DEF Send, Step
  <1>3. "send" \notin Leading
    BY Zenon DEF Leading
  <1> QED
    BY <1>1, <1>2, <1>3 DEF SBody, Sends, Ordered

LEMMA SendsConcat ==
  ASSUME NEW s, NEW t, Body(s), Sends(t)
  PROVE  Sends(s \o t)
  <1> DEFINE D == Leading \cup Doing \cup {"send"}
  <1>1. Steps(s, D) /\ Steps(t, D)
    BY Zenon, StepsMono DEF Body, Sends
  <1> HIDE DEF D
  <1>2. /\ Steps(s \o t, D) /\ Len(s \o t) = Len(s) + Len(t)
        /\ \A i \in 1 .. Len(s) + Len(t) :
             (s \o t)[i] = IF i <= Len(s) THEN s[i] ELSE t[i - Len(s)]
    BY <1>1, StepsConcat
  <1>3. /\ Len(s) \in Nat /\ DOMAIN s = 1 .. Len(s) /\ Len(t) \in Nat /\ DOMAIN t = 1 .. Len(t)
        /\ DOMAIN (s \o t) = 1 .. Len(s \o t)
    BY Zenon, <1>1, <1>2, StepsHas
  <1>4. \A i \in DOMAIN s : s[i].do # "send"
    <2>1. \A i \in DOMAIN s : s[i].do \in Leading \cup Doing
      BY Zenon, StepsHas DEF Body
    <2> QED
      BY Zenon, <2>1 DEF Leading, Doing
  <1>5. Len(t) > 0 /\ \A i \in DOMAIN t : t[i].do = "send" <=> i = Len(t)
    BY Zenon DEF Sends
  <1>6. ASSUME NEW i \in DOMAIN (s \o t) PROVE (s \o t)[i].do = "send" <=> i = Len(s \o t)
    <2>1. CASE i <= Len(s)
      BY <1>2, <1>3, <1>4, <1>5, <2>1
    <2>2. CASE i > Len(s)
      <3>1. i - Len(s) \in DOMAIN t /\ (s \o t)[i] = t[i - Len(s)]
        BY <1>2, <1>3, <2>2
      <3>2. t[i - Len(s)].do = "send" <=> i - Len(s) = Len(t)
        BY Zenon, <1>5, <3>1
      <3> QED
        BY <1>2, <1>3, <3>1, <3>2
    <2> QED
      BY <1>3, <2>1, <2>2
  <1> QED
    BY <1>2, <1>3, <1>5, <1>6 DEF Sends, D

LEMMA SendRules ==
  /\ \A s, t : Pre(s) /\ SBody(t) => SBody(s \o t)
  /\ \A s, t : PreK(s) /\ SBody(t) => SBodyK(s \o t)
  /\ \A s, op : Body(s) => SBody(s \o Send(op))
  /\ \A s, op : BodyK(s) => SBodyK(s \o Send(op))
  <1> DEFINE D == Leading \cup Doing \cup {"send"}
  <1>0. \A s : Pre(s) => Body(s)
    BY Zenon, BodyRules
  <1>1. ASSUME NEW s, NEW t, Pre(s), SBody(t)
        PROVE  SBody(s \o t) /\ (Known(s) => Known(s \o t))
    <2>1. Sends(s \o t)
      BY Zenon, <1>0, <1>1, SendsConcat DEF SBody
    <2>2. Steps(s, D) /\ Steps(t, D)
      BY Zenon, <1>1, StepsMono DEF Pre, SBody, Sends
    <2>3. Ordered(s \o t)
      BY Zenon, <1>1, <2>2, PreHas, OrderedConcat DEF SBody
    <2>4. Known(s) => Known(s \o t)
      BY Zenon, <2>2, KnownConcat
    <2> QED
      BY Zenon, <2>1, <2>3, <2>4 DEF SBody
  <1>2. ASSUME NEW s, NEW op, Body(s)
        PROVE  SBody(s \o Send(op)) /\ (Known(s) => Known(s \o Send(op)))
    <2>0. SBody(Send(op)) /\ \A i \in DOMAIN Send(op) : Send(op)[i].do \notin Leading
      BY Zenon, SendIs
    <2>1. Sends(s \o Send(op))
      BY Zenon, <1>2, <2>0, SendsConcat DEF SBody
    <2>2. Steps(s, D) /\ Steps(Send(op), D)
      BY Zenon, <1>2, <2>0, StepsMono DEF Body, SBody, Sends
    <2>3. Ordered(s \o Send(op))
      BY Zenon, <1>2, <2>0, <2>2, OrderedConcat DEF SBody, Body
    <2>4. Known(s) => Known(s \o Send(op))
      BY Zenon, <2>2, KnownConcat
    <2> QED
      BY Zenon, <2>1, <2>3, <2>4 DEF SBody
  <1> QED
    BY Zenon, <1>1, <1>2 DEF PreK, BodyK, SBodyK

LEMMA EchoIs == Steps(echo, Kinds) /\ Len(echo) = 1 /\ echo[1].do = "echo"
  <1>1. Steps(echo, Kinds)
    BY Zenon, Single DEF echo, Kinds
  <1> QED
    BY Zenon, <1>1 DEF echo, Step

(* Where the brackets are makes no difference.                             *)
LEMMA StepsAssoc ==
  ASSUME NEW D, NEW s, NEW t, NEW u, Steps(s, D), Steps(t, D), Steps(u, D)
  PROVE  (s \o t) \o u = s \o (t \o u)
  <1>1. PICK S : s \in Seq(S)
    BY Zenon DEF Steps
  <1>2. PICK T : t \in Seq(T)
    BY Zenon DEF Steps
  <1>3. PICK U : u \in Seq(U)
    BY Zenon DEF Steps
  <1>4. PICK V : V = S \cup T \cup U
    OBVIOUS
  <1>5. s \in Seq(V) /\ t \in Seq(V) /\ u \in Seq(V)
    BY <1>1, <1>2, <1>3, <1>4
  <1> QED
    BY <1>5

(* A message, its echo, the answer. *)
LEMMA SendPlan ==
  ASSUME NEW s, Sends(s), Guarded(s), NEW chat, NEW id
  PROVE  /\ PlanOK(s \o (echo \o Answer(chat, id)))
         /\ Len(s \o (echo \o Answer(chat, id))) = Len(s) + 2
         /\ (s \o (echo \o Answer(chat, id)))[Len(s) + 2].on = chat
         /\ (s \o (echo \o Answer(chat, id)))[Len(s) + 2].err = id
         /\ (s \o echo) \o Answer(chat, id) = s \o (echo \o Answer(chat, id))
  <1> DEFINE a == Answer(chat, id)
             e == echo \o a
             p == s \o e
  <1>1. Steps(s, Kinds) /\ Steps(echo, Kinds) /\ Steps(a, Kinds)
    BY Zenon, EchoIs, AnswerIs, StepsMono DEF Sends, Kinds
  <1>2. Len(a) = 1 /\ a[1].do = "answer" /\ a[1].on = chat /\ a[1].err = id
    BY AnswerIs
  <1> HIDE DEF a
  <1>3. (s \o echo) \o a = s \o e
    BY SMTT(30), <1>1, StepsAssoc
  <1>4. /\ Steps(e, Kinds) /\ Len(e) = Len(echo) + Len(a)
        /\ \A i \in 1 .. Len(echo) : e[i] = echo[i]
        /\ \A i \in 1 .. Len(a) : e[Len(echo) + i] = a[i]
    BY <1>1, EndsWith
  <1>5. /\ Steps(e, Kinds) /\ Len(e) = 2 /\ e[1].do = "echo" /\ e[2] = a[1]
    BY <1>2, <1>4, EchoIs
  <1> HIDE DEF e
  <1>6. /\ Steps(p, Kinds) /\ Len(p) = Len(s) + Len(e)
        /\ \A i \in 1 .. Len(s) : p[i] = s[i]
        /\ \A i \in 1 .. Len(e) : p[Len(s) + i] = e[i]
    BY <1>1, <1>4, EndsWith
  <1> HIDE DEF p
  <1>7. /\ Len(s) \in Nat /\ DOMAIN s = 1 .. Len(s) /\ DOMAIN p = 1 .. Len(p)
        /\ \A i \in DOMAIN s : s[i].do \in Leading \cup Doing \cup {"send"}
    BY Zenon, <1>1, <1>6, StepsHas DEF Sends
  <1>8. /\ Len(p) = Len(s) + 2 /\ p[Len(s) + 1].do = "echo" /\ p[Len(s) + 2] = a[1]
    BY <1>5, <1>6, <1>7
  <1>9. \A i \in DOMAIN p : i \in DOMAIN s \/ i = Len(s) + 1 \/ i = Len(s) + 2
    BY <1>7, <1>8
  <1>10. \A i \in DOMAIN s : s[i].do # "answer"
    BY Zenon, <1>7 DEF Leading, Doing
  <1>11. \A i \in DOMAIN p : p[i].do = "answer" <=> i = Len(p)
    BY Zenon, <1>2, <1>6, <1>7, <1>8, <1>9, <1>10
  <1>12. \A i \in DOMAIN p : p[i].do = "send" => i + 2 = Len(p)
    BY <1>2, <1>6, <1>7, <1>8, <1>9 DEF Sends
  <1>13. Guarded(p)
    <2>1. Asked(p) \subseteq Asked(s)
      <3> SUFFICES ASSUME NEW i \in DOMAIN p, p[i].do = "check" PROVE p[i].on \in Asked(s)
        BY Zenon DEF Asked
      <3>1. i \in DOMAIN s /\ p[i] = s[i]
        BY Zenon, <1>2, <1>6, <1>7, <1>8, <1>9
      <3> QED
        BY Zenon, <3>1 DEF Asked
    <2> SUFFICES ASSUME NEW i \in DOMAIN p, p[i].do \in Calls
                 PROVE  /\ \A f \in Asked(p) :
                             \E j \in 1 .. i - 1 : p[j].do = "check" /\ p[j].on = f
                        /\ \E j \in 1 .. i - 1 : p[j].do \in Naming
      BY Zenon DEF Guarded
    <2>2. i \in DOMAIN s /\ p[i] = s[i]
      BY Zenon, <1>2, <1>6, <1>7, <1>8, <1>9 DEF Calls
    <2>3. \A j \in 1 .. i - 1 : p[j] = s[j]
      BY <1>6, <1>7, <2>2
    <2>4. /\ \A f \in Asked(s) : \E j \in 1 .. i - 1 : s[j].do = "check" /\ s[j].on = f
          /\ \E j \in 1 .. i - 1 : s[j].do \in Naming
      BY Zenon, <2>2 DEF Guarded
    <2> QED
      BY Zenon, <2>1, <2>3, <2>4
  <1>14. PlanOK(p)
    BY <1>6, <1>7, <1>8, <1>11, <1>12, <1>13 DEF PlanOK
  <1> QED
    BY Zenon, <1>2, <1>3, <1>8, <1>14 DEF p, e, a

(* The same for the answer that names the chat and the stanza.             *)
LEMMA SentPlan ==
  ASSUME NEW s, SBodyK(s), NEW chat, NEW id
  PROVE  /\ PlanOK(s \o (echo \o Answer(chat, id))) /\ PlanOK((s \o echo) \o Answer(chat, id))
         /\ Keyed(s \o echoed) /\ Keyed((s \o echo) \o sent_message_key)
         /\ PlanOK(s \o echoed) /\ PlanOK((s \o echo) \o sent_message_key)
  <1>1. Steps(s, Kinds) /\ Ordered(s) /\ Known(s) /\ Sends(s)
    BY Zenon, StepsMono DEF SBodyK, SBody, Sends, Kinds
  <1>2. Guarded(s)
    BY Zenon, <1>1, OrderedGuards
  <1>3. \A c, d :
          /\ PlanOK(s \o (echo \o Answer(c, d)))
          /\ Len(s \o (echo \o Answer(c, d))) = Len(s) + 2
          /\ (s \o (echo \o Answer(c, d)))[Len(s) + 2].on = c
          /\ (s \o (echo \o Answer(c, d)))[Len(s) + 2].err = d
          /\ (s \o echo) \o Answer(c, d) = s \o (echo \o Answer(c, d))
    BY <1>1, <1>2, SendPlan, Zenon
  <1>4. PlanOK(s \o (echo \o Answer(chat, id))) /\ PlanOK((s \o echo) \o Answer(chat, id))
    BY Zenon, <1>3
  <1>5. /\ PlanOK(s \o echoed) /\ PlanOK((s \o echo) \o sent_message_key)
        /\ (s \o echo) \o sent_message_key = s \o echoed
    BY Zenon, <1>3 DEF echoed, sent_message_key
  <1>6. Keyed(s \o echoed)
    BY <1>3 DEF echoed, sent_message_key, Keyed
  <1> QED
    BY Zenon, <1>4, <1>5, <1>6

(* SendMedia uploads between two passes over the same fields: nothing is      *)
(* left to check that was not checked before the upload.                      *)
LEMMA AskedConcat ==
  ASSUME NEW D, NEW s, NEW t, Steps(s, D), Steps(t, D)
  PROVE  Asked(s) \subseteq Asked(s \o t) /\ Asked(t) \subseteq Asked(s \o t)
         /\ Asked(s \o t) \subseteq Asked(s) \cup Asked(t)
  <1>1. /\ Steps(s \o t, D) /\ Len(s \o t) = Len(s) + Len(t)
        /\ \A i \in 1 .. Len(s) + Len(t) :
             (s \o t)[i] = IF i <= Len(s) THEN s[i] ELSE t[i - Len(s)]
    BY StepsConcat
  <1>2. /\ Len(s) \in Nat /\ DOMAIN s = 1 .. Len(s) /\ Len(t) \in Nat /\ DOMAIN t = 1 .. Len(t)
        /\ DOMAIN (s \o t) = 1 .. Len(s \o t)
    BY Zenon, <1>1, StepsHas
  <1>3. \A i \in DOMAIN s : i \in DOMAIN (s \o t) /\ (s \o t)[i] = s[i]
    BY <1>1, <1>2
  <1>4. ASSUME NEW i \in DOMAIN t
        PROVE  Len(s) + i \in DOMAIN (s \o t) /\ (s \o t)[Len(s) + i] = t[i]
    <2>1. (Len(s) + i) - Len(s) = i /\ Len(s) + i \in DOMAIN (s \o t)
      BY <1>1, <1>2
    <2> QED
      BY <1>1, <1>2, <2>1
  <1>5. ASSUME NEW i \in DOMAIN (s \o t)
        PROVE  \/ i \in DOMAIN s /\ (s \o t)[i] = s[i]
               \/ i - Len(s) \in DOMAIN t /\ (s \o t)[i] = t[i - Len(s)]
    BY <1>1, <1>2
  <1>6. Asked(s) \subseteq Asked(s \o t)
    BY Zenon, <1>3 DEF Asked
  <1>7. Asked(t) \subseteq Asked(s \o t)
    BY Zenon, <1>4 DEF Asked
  <1>8. Asked(s \o t) \subseteq Asked(s) \cup Asked(t)
    BY Zenon, <1>5 DEF Asked
  <1> QED
    BY Zenon, <1>6, <1>7, <1>8

(* Fields checked after a call do no harm when they are all checked before *)
(* it as well.                                                             *)
LEMMA GuardedBy ==
  ASSUME NEW D, NEW s, NEW t, Steps(s, D), Steps(t, D), Known(s),
         \A i \in DOMAIN s : s[i].do \notin Calls,
         \A i \in DOMAIN t, f \in Asked(t) :
           t[i].do \in Calls =>
             f \in Asked(s) \/ \E j \in 1 .. i - 1 : t[j].do = "check" /\ t[j].on = f
  PROVE  Guarded(s \o t)
  <1>1. /\ Steps(s \o t, D) /\ Len(s \o t) = Len(s) + Len(t)
        /\ \A i \in 1 .. Len(s) + Len(t) :
             (s \o t)[i] = IF i <= Len(s) THEN s[i] ELSE t[i - Len(s)]
    BY StepsConcat
  <1>2. /\ Len(s) \in Nat /\ DOMAIN s = 1 .. Len(s) /\ Len(t) \in Nat /\ DOMAIN t = 1 .. Len(t)
        /\ DOMAIN (s \o t) = 1 .. Len(s \o t)
    BY Zenon, <1>1, StepsHas
  <1>3. Asked(s \o t) \subseteq Asked(s) \cup Asked(t)
    BY Zenon, AskedConcat
  <1> SUFFICES ASSUME NEW i \in DOMAIN (s \o t), (s \o t)[i].do \in Calls
               PROVE  /\ \A f \in Asked(s \o t) :
                           \E j \in 1 .. i - 1 : (s \o t)[j].do = "check" /\ (s \o t)[j].on = f
                      /\ \E j \in 1 .. i - 1 : (s \o t)[j].do \in Naming
    BY Zenon DEF Guarded
  <1>4. i > Len(s) /\ i - Len(s) \in DOMAIN t /\ (s \o t)[i] = t[i - Len(s)]
    BY <1>1, <1>2
  <1>5. \A j \in DOMAIN s : j \in 1 .. i - 1 /\ (s \o t)[j] = s[j]
    BY <1>1, <1>2, <1>4
  <1>6. \A f \in Asked(s) :
          \E j \in 1 .. i - 1 : (s \o t)[j].do = "check" /\ (s \o t)[j].on = f
    BY <1>5 DEF Asked
  <1>7. \E j \in 1 .. i - 1 : (s \o t)[j].do \in Naming
    BY Zenon, <1>5 DEF Known
  <1>8. ASSUME NEW f \in Asked(t), f \notin Asked(s)
        PROVE  \E j \in 1 .. i - 1 : (s \o t)[j].do = "check" /\ (s \o t)[j].on = f
    <2>1. PICK j \in 1 .. (i - Len(s)) - 1 : t[j].do = "check" /\ t[j].on = f
      BY Zenon, <1>4, <1>8
    <2>2. Len(s) + j \in 1 .. i - 1 /\ (Len(s) + j) - Len(s) = j /\ j \in DOMAIN t
      BY <1>1, <1>2, <1>4
    <2>3. (s \o t)[Len(s) + j] = t[j]
      BY <1>1, <1>2, <2>2
    <2> QED
      BY Zenon, <2>1, <2>2, <2>3
  <1> QED
    BY Zenon, <1>3, <1>6, <1>7, <1>8

-----------------------------------------------------------------------------
(* The handlers of the messaging service. *)

(* One vote after the other, for any number of votes.                      *)
LEMMA Counts == Does(count_undecryptable(Votes))
  <1> DEFINE x(i) == Step("open", ToString(i), "none")
  <1>1. PICK S : S = {x(i) : i \in 1 .. Votes}
    OBVIOUS
  <1>2. \A i : x(i).do \in Doing
    BY Zenon DEF Step, Doing
  <1> HIDE DEF x
  <1>3. [i \in 1 .. Votes |-> x(i)] \in Seq(S)
    BY <1>1, RequestAssumption
  <1>4. count_undecryptable(Votes) = [i \in 1 .. Votes |-> x(i)]
    BY Zenon DEF count_undecryptable, x
  <1>5. \A y \in S : y.do \in Doing
    BY Zenon, <1>1, <1>2
  <1> QED
    BY Zenon, <1>3, <1>4, <1>5 DEF Does, Steps

(* The conversions of the wire types only check. *)
LEMMA Conversions ==
  /\ Pre(<<>>) /\ Does(<<>>)
  /\ Pre(QuotedRef) /\ Pre(message_ref_of) /\ Pre(require_recipients)
  /\ Pre(MessageTarget) /\ Pre(OutgoingContext) /\ Pre(OutgoingText) /\ Pre(OutgoingMedia)
  /\ Pre(PollVoteCast) /\ Pre(PollVotesToTally) /\ Pre(ContactCard) /\ Pre(InteractiveReply)
  /\ Pre(StatusText) /\ Pre(StatusMedia) /\ Pre(StatusRevoke)
  /\ Pre(build_text_message) /\ Pre(outgoing_context) /\ Pre(build_media_message)
  /\ Pre(build_interactive_reply)
  <1>0. Pre(<<>>) /\ Does(<<>>)
    <2>1. PICK S : S = {}
      OBVIOUS
    <2>2. <<>> \in Seq(S) /\ \A x \in S : x.do \in Leading /\ x.do \in Doing
      BY <2>1
    <2> QED
      BY Zenon, <2>2 DEF Pre, Does, Steps
  <1>1. Pre(QuotedRef)
    <2>1. <<"orphan_quoted_message", "quoted_id", "quoted_participant", "quoted_chat">>
            \in Seq({"orphan_quoted_message", "quoted_id", "quoted_participant", "quoted_chat"})
      OBVIOUS
    <2> QED
      BY Zenon, <2>1, ChecksPre DEF QuotedRef
  <1>2. Pre(message_ref_of) /\ Pre(require_recipients)
    <2>1. <<"id", "message_ref">> \in Seq({"id", "message_ref"})
      OBVIOUS
    <2>2. <<"no_recipients", "recipients">> \in Seq({"no_recipients", "recipients"})
      OBVIOUS
    <2> QED
      BY Zenon, <2>1, <2>2, ChecksPre DEF message_ref_of, require_recipients
  <1>3. Pre(MessageTarget)
    BY Zenon, Small, PreRules DEF MessageTarget, jid_from_required_wire, jid_from_optional_wire,
       jid_parse, message_id
  <1>4. Pre(OutgoingContext) /\ Pre(OutgoingText) /\ Pre(OutgoingMedia)
    BY Zenon, <1>1, Small, PreRules DEF OutgoingContext, OutgoingText, OutgoingMedia, jid_list,
       jid_from_required_wire, jid_parse, parse_sendable, parse_within
  <1>5. Pre(vote_identity)
    BY Zenon, Small, PreRules DEF vote_identity, jid_from_required_wire, jid_parse, message_id
  <1>6. Pre(PollVoteCast) /\ Pre(PollVotesToTally)
    BY Zenon, <1>5, Small, PreRules DEF PollVoteCast, PollVotesToTally, jid_list,
       jid_from_required_wire, jid_parse
  <1>7. Pre(ContactCard) /\ Pre(InteractiveReply)
    BY Zenon, <1>1, Small, PreRules DEF ContactCard, InteractiveReply, offer_quote, ReplyChoice
  <1>8. Pre(StatusText) /\ Pre(StatusMedia) /\ Pre(StatusRevoke)
    BY Zenon, <1>2, Small, PreRules DEF StatusText, StatusMedia, StatusRevoke, parse_status, parse_within
  <1>9. Pre(build_text_message) /\ Pre(outgoing_context) /\ Pre(build_media_message)
        /\ Pre(build_interactive_reply)
    BY Zenon, Small, PreRules DEF build_text_message, outgoing_context, copy_quote,
       decode_quoted_message, copy_link_preview, build_media_message, parse_within,
       build_interactive_reply
  <1> QED
    BY Zenon, <1>0, <1>1, <1>2, <1>3, <1>4, <1>6, <1>7, <1>8, <1>9

(* The upload comes after the last field that is not checked a second time. *)
LEMMA MediaFine == PlanOK(send_media) /\ Keyed(send_media)
  <1> DEFINE s == <<Check("header")>> \o account_of \o require_typed_jid("to") \o parse_sendable
                  \o stage_upload \o OutgoingMedia
             t == media_transfer_send_media
             D == Leading \cup Doing \cup {"send"}
  <1>1. PreK(s)
    BY Zenon, Small, PreRules, Conversions DEF require_typed_jid, jid_from_required_wire, jid_parse,
       parse_sendable, parse_within
  <1>2. "media_type" \in Asked(s)
    <2>1. OutgoingMedia = <<Check("media_type")>> \o OutgoingContext
      BY Zenon DEF OutgoingMedia, parse_sendable, parse_within
    <2>2. "media_type" \in Asked(<<Check("media_type")>>)
      BY DEF Asked, Check, Step
    <2>3. Pre(<<Check("media_type")>>) /\ Pre(OutgoingContext) /\ Pre(OutgoingMedia)
      BY Zenon, Small, Conversions
    <2>4. "media_type" \in Asked(OutgoingMedia)
      BY Zenon, <2>1, <2>2, <2>3, AskedConcat DEF Pre
    <2> DEFINE u == <<Check("header")>> \o account_of \o require_typed_jid("to")
                    \o parse_sendable \o stage_upload
    <2>5. Pre(u)
      BY Zenon, Small, PreRules DEF PreK, require_typed_jid, jid_from_required_wire, jid_parse,
         parse_sendable, parse_within
    <2>6. s = u \o OutgoingMedia
      OBVIOUS
    <2> HIDE DEF u, s
    <2> QED
      BY Zenon, <2>3, <2>4, <2>5, <2>6, AskedConcat DEF Pre
  <1>3. /\ Len(t) = 5 /\ t[1] = Check("quoted_message")
        /\ t[2] = Step("call", "upload_stream", "client_err")
        /\ t[3] = Check("quoted_message") /\ t[4] = Check("media_type")
        /\ t[5] = Step("send", "send_message", "client_err") /\ DOMAIN t = 1 .. 5
    <2> DEFINE q == <<Check("quoted_message")>>
               u == <<Step("call", "upload_stream", "client_err")>>
               m == <<Check("media_type")>>
               z == <<Step("send", "send_message", "client_err")>>
    <2>1. t = ((q \o u) \o (q \o m)) \o z
      BY Zenon DEF media_transfer_send_media, outgoing_context, copy_quote, decode_quoted_message,
             upload_staged, build_media_message, parse_within, Send, Call
    <2>2. Steps(q, Kinds) /\ Steps(u, Kinds) /\ Steps(m, Kinds) /\ Steps(z, Kinds)
      <3>1. "check" \in Kinds /\ "call" \in Kinds /\ "send" \in Kinds
        BY Zenon DEF Kinds, Leading, Doing
      <3> QED
        BY <3>1, Single, Zenon DEF Check
    <2>3. /\ Len(q) = 1 /\ Len(u) = 1 /\ Len(m) = 1 /\ Len(z) = 1
          /\ q[1] = Check("quoted_message") /\ m[1] = Check("media_type")
          /\ u[1] = Step("call", "upload_stream", "client_err")
          /\ z[1] = Step("send", "send_message", "client_err")
      OBVIOUS
    <2> HIDE DEF q, u, m, z, t
    <2>5. PICK a : a = q \o u
      OBVIOUS
    <2>6. PICK b : b = q \o m
      OBVIOUS
    <2>7. PICK c : c = a \o b
      OBVIOUS
    <2>8a. /\ Steps(a, Kinds) /\ Len(a) = Len(q) + Len(u)
           /\ \A i \in 1 .. Len(q) : a[i] = q[i]
           /\ \A i \in 1 .. Len(u) : a[Len(q) + i] = u[i]
      BY <2>2, <2>5, EndsWith
    <2>8. Len(a) = 2 /\ a[1] = q[1] /\ a[2] = u[1]
      BY <2>3, <2>8a
    <2>9a. /\ Steps(b, Kinds) /\ Len(b) = Len(q) + Len(m)
           /\ \A i \in 1 .. Len(q) : b[i] = q[i]
           /\ \A i \in 1 .. Len(m) : b[Len(q) + i] = m[i]
      BY <2>2, <2>6, EndsWith
    <2>9. Len(b) = 2 /\ b[1] = q[1] /\ b[2] = m[1]
      BY <2>3, <2>9a
    <2>9b. Steps(a, Kinds) /\ Steps(b, Kinds)
      BY <2>8a, <2>9a, Zenon
    <2>10a. /\ Steps(c, Kinds) /\ Len(c) = Len(a) + Len(b)
            /\ \A i \in 1 .. Len(a) : c[i] = a[i]
            /\ \A i \in 1 .. Len(b) : c[Len(a) + i] = b[i]
      BY <2>7, <2>9b, EndsWith
    <2>10. Len(c) = 4 /\ c[1] = a[1] /\ c[2] = a[2] /\ c[3] = b[1] /\ c[4] = b[2]
      BY <2>8, <2>9, <2>10a
    <2>11. t = c \o z
      BY Zenon, <2>1, <2>5, <2>6, <2>7
    <2>10b. Steps(c, Kinds)
      BY <2>10a, Zenon
    <2>12a. /\ Steps(t, Kinds) /\ Len(t) = Len(c) + Len(z)
            /\ \A i \in 1 .. Len(c) : t[i] = c[i]
            /\ \A i \in 1 .. Len(z) : t[Len(c) + i] = z[i]
      BY <2>2, <2>10b, <2>11, EndsWith
    <2>12. /\ Len(t) = 5 /\ t[1] = c[1] /\ t[2] = c[2] /\ t[3] = c[3]
           /\ t[4] = c[4] /\ t[5] = z[1]
      BY <2>3, <2>10, <2>12a
    <2>13a. Len(t) \in Nat /\ DOMAIN t = 1 .. Len(t)
      BY Zenon, <2>12a, StepsHas
    <2>13. DOMAIN t = 1 .. 5
      BY Zenon, <2>12, <2>13a
    <2> QED
      BY Zenon, <2>3, <2>8, <2>9, <2>10, <2>12, <2>13
  <1>4. /\ t[1].do = "check" /\ t[1].on = "quoted_message" /\ t[2].do = "call"
        /\ t[3].do = "check" /\ t[3].on = "quoted_message"
        /\ t[4].do = "check" /\ t[4].on = "media_type" /\ t[5].do = "send"
    BY <1>3 DEF Check, Step
  <1>5. Sends(t)
    <2>1. Pre(outgoing_context) /\ Does(upload_staged) /\ Pre(build_media_message)
      BY Zenon, Small, Conversions DEF upload_staged
    <2>2. Steps(t, D)
      <3>1. /\ Steps(outgoing_context, D) /\ Steps(upload_staged, D)
            /\ Steps(build_media_message, D) /\ Steps(Send("send_message"), D)
        BY Zenon, <2>1, StepsMono, SendIs DEF Pre, Does, SBody, Sends
      <3> HIDE DEF D
      <3> QED
        BY Zenon, <3>1, StepsConcat DEF media_transfer_send_media
    <2> HIDE DEF t
    <2> QED
      BY <1>3, <1>4, <2>2 DEF Sends
  <1> HIDE DEF s, t
  <1>6. Body(s) /\ Known(s) /\ \A i \in DOMAIN s : s[i].do \notin Calls
    BY Zenon, <1>1, BodyRules, PreHas DEF PreK
  <1>7. Sends(s \o t)
    BY Zenon, <1>5, <1>6, SendsConcat
  <1>8. Steps(s, D) /\ Steps(t, D)
    BY Zenon, <1>5, <1>6, StepsMono DEF Body, Sends
  <1>9. Asked(t) \subseteq {"quoted_message", "media_type"}
    BY <1>3, <1>4 DEF Asked
  <1>10. \A i \in DOMAIN t : t[i].do \in Calls => i > 1
    BY <1>3, <1>4 DEF Calls
  <1>11. \A i \in DOMAIN t, f \in Asked(t) :
           t[i].do \in Calls =>
             f \in Asked(s) \/ \E j \in 1 .. i - 1 : t[j].do = "check" /\ t[j].on = f
    BY <1>2, <1>3, <1>4, <1>9, <1>10
  <1> HIDE DEF D
  <1>12. Guarded(s \o t)
    BY Zenon, <1>6, <1>8, <1>11, GuardedBy
  <1>13. PICK x : x = s \o t
    OBVIOUS
  <1>14. send_media = x \o (echo \o Answer("addressed", "stanza"))
    BY Zenon, <1>13 DEF send_media, echoed, sent_message_key, s, t
  <1>14a. Sends(x) /\ Guarded(x)
    BY Zenon, <1>7, <1>12, <1>13
  <1>15. PlanOK(send_media) /\ Len(send_media) = Len(x) + 2
         /\ send_media[Len(x) + 2].on = "addressed" /\ send_media[Len(x) + 2].err = "stanza"
    BY <1>14, <1>14a, SendPlan
  <1> QED
    BY Zenon, <1>15 DEF Keyed

(* Every handler of the messaging service keeps the order, and a send's    *)
(* answer names the chat it was addressed to and the id of the stanza, but *)
(* for an edit and a delete for everyone.                                  *)
LEMMA MessagingFine ==
  ASSUME NEW r \in DOMAIN MessagingPlans(Votes)
  PROVE  /\ PlanOK(MessagingPlans(Votes)[r])
         /\ r \notin {"edit_message", "delete_for_everyone"} => Keyed(MessagingPlans(Votes)[r])
  <1> DEFINE Fine(p) == PlanOK(p) /\ Keyed(p)
  <1>0. \A s, chat, id : BodyK(s) => Fine(s \o Answer(chat, id))
    BY Zenon, QuietPlan DEF Keyed
  <1>1. \A s : SBodyK(s) => /\ Fine(s \o echoed) /\ Fine((s \o echo) \o sent_message_key)
                           /\ \A chat, id : PlanOK((s \o echo) \o Answer(chat, id))
    BY Zenon, SentPlan
  <1>2. Fine(send_media)
    BY Zenon, MediaFine
  <1> HIDE DEF Fine
  <1>3. /\ \A s, t : PreK(s) /\ Does(t) => BodyK(s \o t)
        /\ \A s, op : PreK(s) => SBodyK(s \o Send(op))
        /\ \A s, op : Pre(s) => SBody(s \o Send(op))
        /\ \A s, t : PreK(s) /\ SBody(t) => SBodyK(s \o t)
        /\ \A op : SBody(Send(op))
    BY Zenon, BodyRules, SendRules, SendIs
  <1>4. /\ \A f : Pre(<<Check(f)>>) /\ PreK(account_of \o <<Check(f)>>)
        /\ \A f, op, err : BodyK(account_of \o <<Check(f)>> \o Call(op, err))
    BY Zenon, <1>3, Small, PreRules
  <1>5. \A f, t : Pre(t) => PreK(account_of \o <<Check(f)>> \o t)
    BY Zenon, <1>4, PreRules
  (* The account, a field, then the call. *)
  <1>6. /\ Fine(fetch_message_history)
        /\ \A op : Fine(mark_chat(op)) /\ Fine(change_chat(op))
    BY Zenon, <1>0, <1>4 DEF fetch_message_history, mark_chat, change_chat, client_of, require_typed_jid,
       jid_from_required_wire, jid_parse, messaging_fetch_message_history, chat_actions, Plain
  <1>7. Fine(send_presence) /\ Fine(mark_read)
    BY Zenon, <1>0, <1>3, <1>4, <1>5, Small DEF send_presence, mark_read, client_of, require_typed_jid,
       jid_from_required_wire, jid_from_optional_wire, jid_parse, presence_state,
       messaging_send_presence, messaging_mark_read, Plain
  <1>8. Body(message_ref_of \o Call("star_message", "client_err"))
        /\ Body(message_ref_of \o Call("delete_message_for_me", "client_err"))
    BY Zenon, Conversions, Small, BodyRules
  <1>9. Fine(star_message)
    BY Zenon, <1>0, <1>5, <1>8, Conversions, BodyRules DEF star_message, client_of,
       chat_actions_star_message, Plain
  <1>10. Fine(get_status_audience)
    BY Zenon, <1>0, <1>3, Small DEF get_status_audience, client_of, status_audience, Plain
  <1>11. Fine(aggregate_poll_votes(Votes))
    <2>1. Does(aggregate_votes(Votes))
      BY Zenon, Counts, Small, BodyRules DEF aggregate_votes
    <2>2. PreK(client_of \o PollVotesToTally)
      BY Zenon, Conversions, Small, PreRules DEF client_of
    <2> QED
      BY Zenon, <1>0, <1>3, <2>1, <2>2 DEF aggregate_poll_votes, Plain
  (* The sends. *)
  <1>12. Fine(send_text)
    <2>1. SBody(messaging_send_text)
      BY Zenon, <1>3, Conversions DEF messaging_send_text
    <2> QED
      BY Zenon, <1>1, <1>3, <1>5, <2>1, Conversions DEF send_text, require_typed_jid,
         jid_from_required_wire, jid_parse
  <1>13. Fine(send_reaction)
    BY Zenon, <1>1, <1>3, <1>5, Conversions DEF send_reaction, messaging_send_reaction
  <1>14. PlanOK(edit_message)
    BY Zenon, <1>1, <1>3, <1>5, Conversions DEF edit_message, messaging_edit_message
  <1>15. Fine(send_contact) /\ Fine(send_interactive_reply)
    <2>1. SBody(send_rich_send_contact) /\ SBody(reply_send)
      BY Zenon, <1>3, Conversions DEF send_rich_send_contact, reply_send
    <2> QED
      BY Zenon, <1>1, <1>3, <1>5, <2>1, Conversions DEF send_contact, send_interactive_reply,
         require_typed_jid, jid_from_required_wire, jid_parse
  <1>16. Fine(send_poll(TRUE)) /\ Fine(send_poll(FALSE))
    <2>1. SBody(send_rich_send_poll(TRUE)) /\ SBody(send_rich_send_poll(FALSE))
      BY Zenon, <1>3 DEF send_rich_send_poll, send_channel_poll
    <2> QED
      BY Zenon, <1>1, <1>3, <1>4, <2>1 DEF send_poll, require_typed_jid, jid_from_required_wire, jid_parse
  <1>17. Fine(send_poll_vote)
    BY Zenon, <1>1, <1>3, <1>5, Conversions DEF send_poll_vote, polls_send_vote, require_typed_jid,
       jid_from_required_wire, jid_parse
  <1>18. Fine(post_status_text)
    <2>1. SBody(status_post_text) /\ PreK(account_of \o StatusText)
      BY Zenon, <1>3, <1>4, Small, Conversions, PreRules DEF status_post_text
    <2> QED
      BY Zenon, <1>1, <1>3, <2>1 DEF post_status_text
  <1>19. Fine(post_status_media)
    <2>1. SBody(status_post_media)
      BY Zenon, Small, BodyRules, SendRules DEF status_post_media, upload_staged
    <2>2. PreK(<<Check("header")>> \o account_of \o parse_status \o stage_upload \o StatusMedia)
      BY Zenon, <1>4, Small, Conversions, PreRules DEF parse_status, parse_within
    <2> QED
      BY Zenon, <1>1, <1>3, <2>1, <2>2 DEF post_status_media
  <1>20. Fine(revoke_status)
    <2>1. SBody(status_revoke_status) /\ PreK(StatusRevoke \o account_of)
      BY Zenon, <1>3, <1>4, Small, Conversions, PreRules DEF status_revoke_status, message_id
    <2> QED
      BY Zenon, <1>1, <1>3, <2>1 DEF revoke_status
  <1>21. PlanOK(delete_message(TRUE))
    <2>1. PreK(<<Check("target")>> \o (MessageTarget \o refuse_status_revoke \o account_of))
      BY Zenon, <1>4, Small, Conversions, PreRules DEF refuse_status_revoke
    <2>2. delete_message(TRUE) = <<Check("target")>>
            \o (MessageTarget \o refuse_status_revoke \o account_of)
            \o Send("revoke_message_raw") \o echo \o Answer("written", "target")
      BY Zenon DEF delete_message, delete_target, messaging_delete_message
    <2> QED
      BY Zenon, <1>1, <1>3, <2>1, <2>2
  <1>22. Fine(delete_message(FALSE))
    <2>1. PreK(<<Check("target")>> \o (MessageTarget \o <<>> \o account_of))
      BY Zenon, <1>4, Small, Conversions, PreRules
    <2>2. delete_message(FALSE) = <<Check("target")>> \o (MessageTarget \o <<>> \o account_of)
            \o (message_ref_of \o Call("delete_message_for_me", "client_err"))
            \o <<>> \o Answer("written", "target")
      BY Zenon DEF delete_message, delete_target, messaging_delete_message
    <2> QED
      BY Zenon, <1>0, <1>8, <2>1, <2>2, Conversions, BodyRules
  <1> DEFINE P == MessagingPlans(Votes)
  <1>23. r \in {"send_text", "send_media", "send_reaction", "edit_message",
                 "delete_for_everyone", "delete_for_me",
                 "fetch_message_history", "send_presence",
                 "mark_read", "mark_chat_read",
                 "mark_unread", "star_message",
                 "archive_chat", "pin_chat", "mute_chat",
                 "delete_chat", "send_contact",
                 "send_interactive_reply", "send_poll",
                 "send_newsletter_poll", "send_poll_vote",
                 "aggregate_poll_votes", "post_status_text",
                 "post_status_media", "revoke_status",
                 "get_status_audience"}
    BY Zenon DEF MessagingPlans
  <1>24. /\ P["send_text"] = send_text
         /\ P["send_media"] = send_media
         /\ P["send_reaction"] = send_reaction
         /\ P["edit_message"] = edit_message
         /\ P["delete_for_everyone"] = delete_message(TRUE)
         /\ P["delete_for_me"] = delete_message(FALSE)
         /\ P["fetch_message_history"] = fetch_message_history
         /\ P["send_presence"] = send_presence
         /\ P["mark_read"] = mark_read
         /\ P["mark_chat_read"] = mark_chat("mark_chat_as_read")
         /\ P["mark_unread"] = mark_chat("mark_chat_as_unread")
         /\ P["star_message"] = star_message
         /\ P["archive_chat"] = change_chat("archive")
    BY Zenon DEF MessagingPlans
  <1>25. /\ P["pin_chat"] = change_chat("pin")
         /\ P["mute_chat"] = change_chat("mute")
         /\ P["delete_chat"] = change_chat("delete_chat")
         /\ P["send_contact"] = send_contact
         /\ P["send_interactive_reply"] = send_interactive_reply
         /\ P["send_poll"] = send_poll(FALSE)
         /\ P["send_newsletter_poll"] = send_poll(TRUE)
         /\ P["send_poll_vote"] = send_poll_vote
         /\ P["aggregate_poll_votes"] = aggregate_poll_votes(Votes)
         /\ P["post_status_text"] = post_status_text
         /\ P["post_status_media"] = post_status_media
         /\ P["revoke_status"] = revoke_status
         /\ P["get_status_audience"] = get_status_audience
    BY Zenon DEF MessagingPlans
  <1> HIDE DEF P
  <1> DEFINE Good == PlanOK(P[r]) /\ (r \notin {"edit_message", "delete_for_everyone"} => Keyed(P[r]))
  <1>26. r \in {"send_text", "send_media", "send_reaction", "edit_message",
                 "delete_for_everyone", "delete_for_me",
                 "fetch_message_history", "send_presence",
                 "mark_read", "mark_chat_read",
                 "mark_unread", "star_message",
                 "archive_chat"} => Good
    BY Zenon, <1>24, <1>2, <1>6, <1>7, <1>9, <1>10, <1>11, <1>12, <1>13, <1>14, <1>15, <1>16, <1>17,
       <1>18, <1>19, <1>20, <1>21, <1>22 DEF Fine
  <1>27. r \in {"pin_chat", "mute_chat", "delete_chat", "send_contact",
                 "send_interactive_reply", "send_poll",
                 "send_newsletter_poll", "send_poll_vote",
                 "aggregate_poll_votes", "post_status_text",
                 "post_status_media", "revoke_status",
                 "get_status_audience"} => Good
    BY Zenon, <1>25, <1>2, <1>6, <1>7, <1>9, <1>10, <1>11, <1>12, <1>13, <1>14, <1>15, <1>16, <1>17,
       <1>18, <1>19, <1>20, <1>21, <1>22 DEF Fine
  <1> QED
    BY Zenon, <1>23, <1>26, <1>27 DEF P

(* What every handler keeps to. *)
LEMMA PlansFine ==
  ASSUME NEW r \in Rpcs
  PROVE  /\ PlanOK(Plans[r])
         /\ r \notin {"edit_message", "delete_for_everyone"} => Keyed(Plans[r])
  <1>1. CASE r \in DOMAIN MessagingPlans(Votes)
    <2>1. Plans[r] = MessagingPlans(Votes)[r]
      BY Zenon, <1>1 DEF Plans
    <2> QED
      BY <1>1, <2>1, MessagingFine, Zenon
  <1>2. CASE r \notin DOMAIN MessagingPlans(Votes)
    <2>1. r \in DOMAIN DirectoryPlans(Queries) /\ Plans[r] = DirectoryPlans(Queries)[r]
      BY Zenon, <1>2 DEF Plans, Rpcs
    <2> QED
      BY <2>1, DirectoryFine, Zenon DEF Keyed
  <1> QED
    BY Zenon, <1>1, <1>2

-----------------------------------------------------------------------------
(* Before a request came, nothing happened.                                *)
Untouched == step = 1 /\ doing = "done" /\ made = <<>> /\ reached = "no" /\ queued = FALSE
         /\ echoes = <<>> /\ unopened = {} /\ tallied = {} /\ answer = NoAnswer

(* The handler is at a step of its plan: at a call while it calls, at the  *)
(* last step but one while it waits for its echo.                          *)
Placed ==
  /\ rpc \in Rpcs \cup {"none"} /\ doing \in {"ready", "calling", "publishing", "done"}
  /\ rpc = "none" => Untouched
  /\ rpc # "none" => step \in DOMAIN plan
  /\ doing = "calling" => plan[step].do \in Calls
  /\ doing = "publishing" => step + 1 = Len(plan)

(* What is malformed was not met by a check that passed.                   *)
Passed ==
  \A j \in 1 .. step - 1 :
    /\ plan[j].do = "check" => plan[j].on # fault
    /\ plan[j].do \in Naming => fault # "account"

(* A malformed request is before its first call.                           *)
FaultInv ==
  /\ rpc = "none" => fault = "none"
  /\ rpc # "none" /\ fault # "none" =>
       fault \in Fields(rpc) /\ made = <<>> /\ doing \in {"ready", "done"} /\ ~queued /\ Passed

Echo == [chat |-> "addressed", id |-> "stanza"]
Working == doing = "calling" \/ (doing = "ready" /\ plan[step].do # "answer")

(* The echo of a message that went out is queued, then published, between  *)
(* the call and the answer.                                                *)
EchoInv ==
  /\ queued \in BOOLEAN /\ echoes \in {<<>>, <<Echo>>}
  /\ reached # "no" => ~Silent(plan)
  /\ Working => reached = "no" /\ ~queued /\ echoes = <<>>
  /\ doing = "ready" /\ plan[step].do = "answer" /\ reached = "stanza" =>
       echoes # <<>> \/ panicked
  /\ doing = "ready" => ~queued
  /\ doing = "publishing" => queued
  /\ doing # "done" => answer = NoAnswer
  /\ queued => echoes = <<>> /\ reached = "stanza" /\ answer.status = "none"
  /\ echoes # <<>> => reached = "stanza" /\ answer.status \in {"none", "ok"} /\ doing \in {"ready", "done"}
  /\ answer.status = "ok" =>
       /\ rpc # "none" /\ step = Len(plan) /\ answer.chat = plan[step].on /\ answer.id = plan[step].err
       /\ reached = "stanza" => echoes # <<>> \/ panicked

(* The votes begin after the account and the five checks of the request.   *)
FirstVote == 7
VoteInv ==
  rpc = "aggregate_poll_votes" =>
    /\ ~queued /\ doing # "publishing"
    /\ opens \subseteq 1 .. Votes /\ unopened \subseteq 1 .. Votes /\ tallied \subseteq 1 .. Votes
    /\ \A v \in 1 .. Votes : FirstVote + v <= step => v \in unopened \cup opens
    /\ step = Len(plan) => unopened \cup tallied = 1 .. Votes
    /\ answer.status = "ok" => step = Len(plan)

-----------------------------------------------------------------------------
(* What a step of a request does, by what becomes of its handler.          *)

InProcess == Leading \cup {"quiet", "read", "open"}
callVars == <<made, reached, queued, echoes, panicked>>

(* A step in the process is passed or refused. *)
Advances ==
  /\ doing = "ready" /\ plan[step].do \in InProcess
  /\ plan[step].do = "check" => plan[step].on # fault
  /\ plan[step].do \in Naming => fault # "account"
  /\ step' = step + 1 /\ doing' = "ready" /\ answer' = answer
  /\ UNCHANGED <<callVars, opens, tallied>>
  /\ unopened' = IF plan[step].do = "open"
                 THEN unopened \cup {v \in 1 .. Votes : ToString(v) = plan[step].on /\ v \notin opens}
                 ELSE unopened
Refused ==
  /\ doing = "ready" /\ plan[step].do \in InProcess /\ step' = step /\ doing' = "done"
  /\ answer'.status # "ok" /\ UNCHANGED <<callVars, voteVars>>
(* A call goes out, comes back, puts a message in a chat, or fails, in      *)
(* which case the message may have left.                                    *)
Begins ==
  /\ doing = "ready" /\ plan[step].do \in Calls /\ step' = step /\ doing' = "calling"
  /\ answer' = answer /\ UNCHANGED <<reached, queued, echoes, panicked, voteVars>>
Returns ==
  /\ doing = "calling" /\ plan[step].do \in {"call", "tally"} /\ step' = step + 1
  /\ doing' = "ready" /\ answer' = answer /\ UNCHANGED <<callVars, opens, unopened>>
  /\ tallied' = IF plan[step].do = "tally" THEN opens ELSE tallied
SentOff(id) ==
  /\ doing = "calling" /\ plan[step].do = "send" /\ reached' = id /\ answer' = answer
  /\ IF id = "empty" THEN step' = step + 2 /\ doing' = "ready" /\ queued' = queued
                     ELSE step' = step + 1 /\ doing' = "publishing" /\ queued' = TRUE
  /\ UNCHANGED <<made, echoes, panicked, voteVars>>
Errs ==
  /\ doing = "calling" /\ step' = step /\ doing' = "done" /\ answer'.status # "ok"
  /\ reached' = reached \/ (plan[step].do = "send" /\ reached' = "stanza")
  /\ UNCHANGED <<made, queued, echoes, panicked, voteVars>>
(* The publisher takes the echo, and may panic on it; the handler answers;  *)
(* its client leaves; another vote turns out to open.                       *)
Publishes(lost) ==
  /\ queued /\ queued' = FALSE /\ panicked' = lost /\ answer' = answer
  /\ echoes' = IF lost THEN echoes ELSE Append(echoes, Echo)
  /\ IF doing = "publishing" THEN step' = step + 1 /\ doing' = "ready"
                             ELSE step' = step /\ doing' = doing
  /\ UNCHANGED <<made, reached, voteVars>>
Responds ==
  /\ doing = "ready" /\ plan[step].do = "answer" /\ step' = step /\ doing' = "done"
  /\ answer' = [status |-> "ok", chat |-> plan[step].on, id |-> plan[step].err]
  /\ UNCHANGED <<callVars, voteVars>>
Drops ==
  /\ doing # "done" /\ (doing = "ready" => plan[step].do \in InProcess)
  /\ step' = step /\ doing' = "done" /\ answer' = answer
  /\ reached' = reached \/ (doing = "calling" /\ plan[step].do = "send" /\ reached' = "stanza")
  /\ UNCHANGED <<made, queued, echoes, panicked, voteVars>>
Stays ==
  /\ doing # "done" /\ step' = step /\ doing' = doing /\ answer' = answer
  /\ UNCHANGED <<callVars, unopened, tallied>>
  /\ opens' = opens \/ \E v \in 1 .. Votes : opens' = opens \cup {v}

(* No error is answered as a success.                                      *)
LEMMA StatusNotOk == \A e : Status(e) # "ok"
  <1>1. \A c : wa_server_status(c) # "ok"
    BY DEF wa_server_status
  <1> QED
    BY Zenon, <1>1 DEF Status

(* A refusal answers with its status and makes no call.                    *)
LEMMA RefuseIs ==
  ASSUME NEW e, Refuse(e)
  PROVE  answer'.status # "ok" /\ doing' = "done" /\ step' = step
  BY Zenon, StatusNotOk DEF Refuse, NoAnswer

LEMMA NoneIsNoRpc == "none" \notin Rpcs
  <1>1. "none" \notin DOMAIN MessagingPlans(Votes)
    BY Zenon DEF MessagingPlans
  <1>2. "none" \notin DOMAIN DirectoryPlans(Queries)
    BY Zenon DEF DirectoryPlans
  <1> QED
    BY Zenon, <1>1, <1>2 DEF Rpcs

(* Each action is one of these.                                            *)
LEMMA StepIs ==
  ASSUME Placed, RequestNext
  PROVE  /\ rpc # "none" /\ rpc \in Rpcs /\ rpc' = rpc /\ fault' = fault /\ plan' = plan
         /\ \/ Advances \/ Refused \/ Begins \/ Returns \/ Errs \/ Responds \/ Drops \/ Stays
            \/ \E id \in {"stanza", "empty"} : SentOff(id)
            \/ \E lost \in BOOLEAN : Publishes(lost)
  <1>1. doing # "done" \/ queued => rpc # "none" /\ rpc \in Rpcs
    BY Zenon DEF Placed, Untouched
  <1>2. rpc' = rpc => plan' = plan
    BY Zenon DEF plan
  <1>3. ASSUME TakeAccount
        PROVE  rpc' = rpc /\ fault' = fault /\ doing # "done" /\ (Advances \/ Refused)
    <2>1. /\ rpc' = rpc /\ fault' = fault /\ doing = "ready" /\ plan[step].do \in Naming
          /\ UNCHANGED <<callVars, voteVars>>
          /\ (\E e : Refuse(e)) \/ (from_proto /\ Go)
      BY Zenon, <1>3 DEF TakeAccount, At, Naming, callVars, echoVars
    <2>2. Naming \subseteq InProcess /\ "check" \notin Naming /\ "open" \notin Naming
      BY Zenon DEF Naming, InProcess, Leading
    <2> QED
      BY Zenon, <2>1, <2>2, RefuseIs DEF Advances, Refused, Go, from_proto, voteVars
  <1>4. ASSUME CheckField
        PROVE  rpc' = rpc /\ fault' = fault /\ doing # "done" /\ (Advances \/ Refused)
    <2>1. /\ rpc' = rpc /\ fault' = fault /\ doing = "ready" /\ plan[step].do = "check"
          /\ UNCHANGED <<callVars, voteVars>>
          /\ (\E e : Refuse(e)) \/ (plan[step].on # fault /\ Go)
      BY Zenon, <1>4 DEF CheckField, At, callVars, echoVars
    <2>2. "check" \in InProcess /\ "check" \notin Naming
      BY Zenon DEF Naming, InProcess, Leading
    <2> QED
      BY Zenon, <2>1, <2>2, RefuseIs DEF Advances, Refused, Go, voteVars
  <1>5. ASSUME Stage \/ ReadLocally
        PROVE  rpc' = rpc /\ fault' = fault /\ doing # "done" /\ (Advances \/ Refused)
    <2>1. /\ rpc' = rpc /\ fault' = fault /\ doing = "ready"
          /\ plan[step].do \in {"stage", "quiet", "read"}
          /\ UNCHANGED <<callVars, voteVars>>
          /\ (\E e : Refuse(e)) \/ Go
      BY Zenon, <1>5 DEF Stage, ReadLocally, At, callVars, echoVars
    <2>2. \A d \in {"stage", "quiet", "read"} :
            d \in InProcess /\ d \notin Naming /\ d # "check" /\ d # "open"
      BY Zenon DEF Naming, InProcess, Leading
    <2> QED
      BY Zenon, <2>1, <2>2, RefuseIs DEF Advances, Refused, Go, voteVars
  <1>6. ASSUME OpenVote PROVE rpc' = rpc /\ fault' = fault /\ doing # "done" /\ Advances
    BY Zenon, <1>6 DEF OpenVote, At, Go, Advances, InProcess, Leading, Naming, callVars, echoVars
  <1>7. ASSUME BeginCall PROVE rpc' = rpc /\ fault' = fault /\ doing # "done" /\ Begins
    BY Zenon, <1>7 DEF BeginCall, Begins, Calls, echoVars, voteVars
  <1>8. ASSUME Returned PROVE rpc' = rpc /\ fault' = fault /\ doing # "done" /\ Returns
    BY Zenon, <1>8 DEF Returned, Returns, Go, callVars, echoVars
  <1>9. ASSUME NEW id \in {"stanza", "empty"}, Sent(id)
        PROVE  rpc' = rpc /\ fault' = fault /\ doing # "done" /\ SentOff(id)
    BY Zenon, <1>9 DEF Sent, SentOff, voteVars
  <1>10. ASSUME NEW chain, Failed(chain)
         PROVE  rpc' = rpc /\ fault' = fault /\ doing # "done" /\ Errs
    BY Zenon, <1>10, RefuseIs DEF Failed, Errs, echoVars, voteVars
  <1>11. ASSUME NEW lost \in BOOLEAN, publish_sent(lost)
         PROVE  rpc' = rpc /\ fault' = fault /\ queued /\ Publishes(lost)
    BY Zenon, <1>11 DEF publish_sent, Publishes, Echo, voteVars
  <1>12. ASSUME Respond PROVE rpc' = rpc /\ fault' = fault /\ doing # "done" /\ Responds
    BY Zenon, <1>12 DEF Respond, Responds, At, callVars, echoVars, voteVars
  <1>13. ASSUME Dropped PROVE rpc' = rpc /\ fault' = fault /\ doing # "done" /\ Drops
    BY Zenon, <1>13 DEF Dropped, Drops, InProcess, Leading, echoVars, voteVars
  <1>14. ASSUME AccountMoves PROVE rpc' = rpc /\ fault' = fault /\ doing # "done" /\ Stays
    BY Zenon, <1>14 DEF AccountMoves, Stays, Pending, callVars, echoVars, voteVars
  <1>15. ASSUME NEW v \in 1 .. Votes, Learns(v)
         PROVE  rpc' = rpc /\ fault' = fault /\ doing # "done" /\ Stays
    BY Zenon, <1>15 DEF Learns, Stays, Pending, callVars, echoVars
  <1> QED
    BY Zenon, <1>1, <1>2, <1>3, <1>4, <1>5, <1>6, <1>7, <1>8, <1>9, <1>10, <1>11, <1>12, <1>13, <1>14,
       <1>15 DEF RequestNext, Handler

(* The plan of a request is that of its handler, and stays.                *)
LEMMA PlanIs ==
  ASSUME NEW r \in Rpcs
  PROVE  /\ Len(Plans[r]) \in Nat /\ Len(Plans[r]) > 0 /\ DOMAIN Plans[r] = 1 .. Len(Plans[r])
         /\ \A i \in DOMAIN Plans[r] : Plans[r][i].do = "answer" <=> i = Len(Plans[r])
         /\ \A i \in DOMAIN Plans[r] : Plans[r][i].do = "send" => i + 2 = Len(Plans[r])
         /\ Guarded(Plans[r])
  <1>1. PlanOK(Plans[r])
    BY Zenon, PlansFine
  <1>2. Steps(Plans[r], Kinds)
    BY Zenon, <1>1 DEF PlanOK
  <1>3. Len(Plans[r]) \in Nat /\ DOMAIN Plans[r] = 1 .. Len(Plans[r])
    BY Zenon, <1>2, StepsHas
  <1> QED
    BY Zenon, <1>1, <1>3 DEF PlanOK

(* The handler is where its plan says.                                     *)
LEMMA PlacedInit == RequestInit => Placed
  BY Zenon DEF RequestInit, Placed, Untouched

LEMMA PlacedNext == Placed /\ (Arrives \/ RequestNext) => Placed'
  <1>1. ASSUME Placed, NEW r \in Rpcs, NEW f, NEW a, Receive(r, f, a) PROVE Placed'
    <2>1. rpc' = r /\ step' = step /\ doing' = "ready" /\ rpc = "none"
      BY Zenon, <1>1 DEF Receive
    <2>2. step = 1
      BY Zenon, <1>1, <2>1 DEF Placed, Untouched
    <2>3. plan' = Plans[r]
      BY Zenon, <2>1 DEF plan
    <2>4. 1 \in DOMAIN Plans[r]
      BY PlanIs
    <2> QED
      BY Zenon, <2>1, <2>2, <2>3, <2>4, NoneIsNoRpc DEF Placed
  <1>2. ASSUME Placed, RequestNext PROVE Placed'
    <2>1. /\ rpc # "none" /\ rpc \in Rpcs /\ rpc' = rpc /\ plan' = plan
          /\ \/ Advances \/ Refused \/ Begins \/ Returns \/ Errs \/ Responds \/ Drops \/ Stays
             \/ \E id \in {"stanza", "empty"} : SentOff(id)
             \/ \E lost \in BOOLEAN : Publishes(lost)
      BY Zenon, <1>2, StepIs
    <2>2. /\ Len(plan) \in Nat /\ DOMAIN plan = 1 .. Len(plan)
          /\ \A i \in DOMAIN plan : plan[i].do = "answer" <=> i = Len(plan)
          /\ \A i \in DOMAIN plan : plan[i].do = "send" => i + 2 = Len(plan)
      BY Zenon, <2>1, PlanIs DEF plan
    <2>3. /\ step \in DOMAIN plan /\ (doing = "publishing" => step + 1 = Len(plan))
          /\ doing \in {"ready", "calling", "publishing", "done"}
          /\ doing = "calling" => plan[step].do \in Calls
      BY Zenon, <1>2, <2>1 DEF Placed
    <2> DEFINE Here == /\ step' \in DOMAIN plan
                       /\ doing' \in {"ready", "calling", "publishing", "done"}
                       /\ doing' = "calling" => plan[step'].do \in Calls
                       /\ doing' = "publishing" => step' + 1 = Len(plan)
    <2>4. SUFFICES Here
      BY Zenon, <2>1 DEF Placed
    <2>5. "answer" \notin InProcess /\ "answer" \notin Calls
      BY Zenon DEF InProcess, Leading, Calls
    <2>6. CASE Advances \/ Returns
      BY <2>2, <2>3, <2>5, <2>6 DEF Advances, Returns
    <2>7. CASE Refused \/ Begins \/ Errs \/ Responds \/ Drops \/ Stays
      BY Zenon, <2>2, <2>3, <2>7 DEF Refused, Begins, Errs, Responds, Drops, Stays
    <2>8. CASE \E id \in {"stanza", "empty"} : SentOff(id)
      BY <2>2, <2>3, <2>8 DEF SentOff
    <2>9. CASE \E lost \in BOOLEAN : Publishes(lost)
      BY <2>2, <2>3, <2>9 DEF Publishes
    <2> QED
      BY Zenon, <2>1, <2>6, <2>7, <2>8, <2>9
  <1> QED
    BY Zenon, <1>1, <1>2 DEF Arrives

(* A malformed request has made no call.                                   *)
LEMMA FaultInit == RequestInit => FaultInv
  BY Zenon DEF RequestInit, FaultInv

LEMMA FaultNext == Placed /\ FaultInv /\ (Arrives \/ RequestNext) => FaultInv'
  <1>1. ASSUME Placed, NEW r \in Rpcs, NEW a, NEW f \in Fields(r) \cup {"none"}, Receive(r, f, a)
        PROVE  FaultInv'
    <2>1. rpc' = r /\ fault' = f /\ step' = step /\ doing' = "ready" /\ rpc = "none"
          /\ made' = made /\ queued' = queued
      BY Zenon, <1>1 DEF Receive, echoVars
    <2>2. step = 1 /\ made = <<>> /\ ~queued
      BY Zenon, <1>1, <2>1 DEF Placed, Untouched
    <2>3. Passed'
      BY <2>1, <2>2 DEF Passed
    <2> QED
      BY Zenon, <2>1, <2>2, <2>3, NoneIsNoRpc DEF FaultInv
  <1>2. ASSUME Placed, FaultInv, RequestNext PROVE FaultInv'
    <2>1. /\ rpc # "none" /\ rpc \in Rpcs /\ rpc' = rpc /\ fault' = fault /\ plan' = plan
          /\ \/ Advances \/ Refused \/ Begins \/ Returns \/ Errs \/ Responds \/ Drops \/ Stays
             \/ \E id \in {"stanza", "empty"} : SentOff(id)
             \/ \E lost \in BOOLEAN : Publishes(lost)
      BY Zenon, <1>2, StepIs
    <2>2. DOMAIN plan = 1 .. Len(plan) /\ Len(plan) \in Nat /\ Guarded(plan)
      BY Zenon, <2>1, PlanIs DEF plan
    <2>3. step \in DOMAIN plan
      BY Zenon, <1>2, <2>1 DEF Placed
    <2>4. SUFFICES ASSUME fault # "none"
                   PROVE  made' = <<>> /\ doing' \in {"ready", "done"} /\ ~queued' /\ Passed'
      <3>1. Fields(rpc)' = Fields(rpc)
        BY Zenon, <2>1
      <3> QED
        BY Zenon, <1>2, <2>1, <2>4, <3>1 DEF FaultInv
    <2>5. fault \in Fields(rpc) /\ made = <<>> /\ doing \in {"ready", "done"} /\ ~queued /\ Passed
      BY Zenon, <1>2, <2>1, <2>4 DEF FaultInv
    <2>6. ~Begins
      <3>1. fault = "account" \/ fault \in Asked(plan)
        BY Zenon, <2>5 DEF Fields, Asked, plan
      <3> QED
        BY Zenon, <2>2, <2>3, <2>5, <3>1 DEF Begins, Guarded, Passed
    <2>7. step' = step => Passed'
      BY Zenon, <2>1, <2>5 DEF Passed
    <2>8. CASE Advances
      <3>1. Passed'
        BY <2>1, <2>2, <2>3, <2>5, <2>8 DEF Passed, Advances
      <3> QED
        BY Zenon, <2>5, <2>8, <3>1 DEF Advances, callVars
    <2>9. CASE Refused \/ Responds \/ Drops \/ Stays
      BY <2>5, <2>7, <2>9 DEF Refused, Responds, Drops, Stays, callVars
    <2>10. ~Returns /\ ~Errs /\ ~(\E id \in {"stanza", "empty"} : SentOff(id))
           /\ ~(\E lost \in BOOLEAN : Publishes(lost))
      BY Zenon, <2>5 DEF Returns, Errs, SentOff, Publishes
    <2> QED
      BY Zenon, <2>1, <2>6, <2>8, <2>9, <2>10
  <1> QED
    BY Zenon, <1>1, <1>2 DEF Arrives

LEMMA RefusedHolds == Placed /\ FaultInv => RefusedSendsNothing
  BY Zenon DEF Placed, Untouched, FaultInv, RefusedSendsNothing

(* The echo comes between the call and the answer.                         *)
LEMMA EchoInit == RequestInit => EchoInv
  <1> SUFFICES ASSUME RequestInit PROVE EchoInv
    OBVIOUS
  <1>1. /\ doing = "done" /\ reached = "no" /\ queued = FALSE /\ echoes = <<>>
        /\ answer.status = "none"
    BY Zenon DEF RequestInit, NoAnswer
  <1> QED
    BY Zenon, <1>1 DEF EchoInv, Working

LEMMA EchoNext == Placed /\ EchoInv /\ (Arrives \/ RequestNext) => EchoInv'
  <1>1. ASSUME Placed, EchoInv, NEW r \in Rpcs, NEW f, NEW a, Receive(r, f, a) PROVE EchoInv'
    <2>1. /\ rpc = "none" /\ rpc' = r /\ step' = step /\ doing' = "ready" /\ answer' = answer
          /\ reached' = reached /\ queued' = queued /\ echoes' = echoes
      BY Zenon, <1>1 DEF Receive, echoVars
    <2>2. reached = "no" /\ queued = FALSE /\ echoes = <<>> /\ answer = NoAnswer
      BY Zenon, <1>1, <2>1 DEF Placed, Untouched
    <2>3. NoAnswer.status = "none"
      BY Zenon DEF NoAnswer
    <2> QED
      BY Zenon, <2>1, <2>2, <2>3 DEF EchoInv, Working
  <1>2. ASSUME Placed, EchoInv, RequestNext PROVE EchoInv'
    <2>1. /\ rpc # "none" /\ rpc \in Rpcs /\ rpc' = rpc /\ plan' = plan
          /\ \/ Advances \/ Refused \/ Begins \/ Returns \/ Errs \/ Responds \/ Drops \/ Stays
             \/ \E id \in {"stanza", "empty"} : SentOff(id)
             \/ \E lost \in BOOLEAN : Publishes(lost)
      BY Zenon, <1>2, StepIs
    <2>2. /\ Len(plan) \in Nat /\ DOMAIN plan = 1 .. Len(plan)
          /\ \A i \in DOMAIN plan : plan[i].do = "answer" <=> i = Len(plan)
          /\ \A i \in DOMAIN plan : plan[i].do = "send" => i + 2 = Len(plan)
      BY Zenon, <2>1, PlanIs DEF plan
    <2>3. /\ step \in DOMAIN plan /\ (doing = "publishing" => step + 1 = Len(plan))
          /\ doing \in {"ready", "calling", "publishing", "done"}
      BY Zenon, <1>2, <2>1 DEF Placed
    <2>4. plan[step].do = "send" => ~Silent(plan)
      BY Zenon, <2>3 DEF Silent
    <2>5. Append(<<>>, Echo) = <<Echo>> /\ <<Echo>> # <<>>
      OBVIOUS
    <2>6. NoAnswer.status = "none"
      BY Zenon DEF NoAnswer
    <2>7. "answer" \notin InProcess /\ "answer" \notin Calls
      BY Zenon DEF InProcess, Leading, Calls
    <2>8. step = Len(plan) <=> plan[step].do = "answer"
      BY Zenon, <2>2, <2>3
    <2>9. step + 1 = Len(plan) => plan[step + 1].do = "answer"
      BY <2>2, <2>3
    <2>10. plan[step].do = "send" => plan[step + 2].do = "answer"
      BY <2>2, <2>3
    <2> DEFINE s == Silent(plan)
    <2> HIDE DEF s
    <2>11. CASE Advances
      BY Zenon, <1>2, <2>1, <2>6, <2>7, <2>8, <2>11 DEF Advances, EchoInv, Working, callVars
    <2>12. CASE Refused
      BY Zenon, <1>2, <2>1, <2>6, <2>7, <2>12 DEF Refused, EchoInv, Working, callVars
    <2>13. CASE Begins
      BY Zenon, <1>2, <2>1, <2>6, <2>7, <2>13 DEF Begins, EchoInv, Working
    <2>14. CASE Returns
      BY Zenon, <1>2, <2>1, <2>6, <2>14 DEF Returns, EchoInv, Working, callVars
    <2>15. CASE Errs
      BY Zenon, <1>2, <2>1, <2>4, <2>6, <2>15 DEF Errs, EchoInv, Working
    <2>16. CASE Responds
      BY Zenon, <1>2, <2>1, <2>6, <2>8, <2>16 DEF Responds, EchoInv, Working, callVars
    <2>17. CASE Drops
      BY Zenon, <1>2, <2>1, <2>4, <2>6, <2>7, <2>17 DEF Drops, EchoInv, Working
    <2>18. CASE Stays
      BY Zenon, <1>2, <2>1, <2>18 DEF Stays, EchoInv, Working, callVars
    <2>19. ASSUME NEW id \in {"stanza", "empty"}, SentOff(id) PROVE EchoInv'
      BY Zenon, <1>2, <2>1, <2>4, <2>6, <2>10, <2>19 DEF SentOff, EchoInv, Working
    <2>20. ASSUME NEW lost \in BOOLEAN, Publishes(lost) PROVE EchoInv'
      BY Zenon, <1>2, <2>1, <2>3, <2>5, <2>6, <2>9, <2>20 DEF Publishes, EchoInv, Working
    <2> QED
      BY Zenon, <2>1, <2>11, <2>12, <2>13, <2>14, <2>15, <2>16, <2>17, <2>18, <2>19, <2>20
  <1> QED
    BY Zenon, <1>1, <1>2 DEF Arrives

LEMMA EchoHolds == Placed /\ EchoInv => EchoedOnce
  <1> SUFFICES ASSUME Placed, EchoInv PROVE EchoedOnce
    OBVIOUS
  <1>1. Len(echoes) <= 1 /\ (echoes # <<>> => Len(echoes) = 1 /\ echoes[1] = Echo)
    <2>1. echoes = <<>> \/ echoes = <<Echo>>
      BY Zenon DEF EchoInv
    <2>2. CASE echoes = <<>>
      BY <2>2
    <2>3. CASE echoes = <<Echo>>
      BY <2>3
    <2> QED
      BY Zenon, <2>1, <2>2, <2>3
  <1>2. (queued \/ echoes # <<>>) => reached = "stanza" /\ answer.status \in {"none", "ok"}
    BY Zenon DEF EchoInv
  <1>3. ASSUME answer.status = "ok", reached = "stanza", ~panicked
        PROVE  /\ Len(echoes) = 1 /\ ~queued
               /\ rpc \notin {"edit_message", "delete_for_everyone"} =>
                    echoes[1] = [chat |-> answer.chat, id |-> answer.id]
    <2>1. /\ rpc # "none" /\ step = Len(plan) /\ answer.chat = plan[step].on
          /\ answer.id = plan[step].err /\ echoes # <<>> /\ ~queued /\ ~Silent(plan)
      BY Zenon, <1>3 DEF EchoInv
    <2>2. rpc \in Rpcs
      BY Zenon, <2>1 DEF Placed
    <2>3. rpc \notin {"edit_message", "delete_for_everyone"} =>
            plan[Len(plan)].on = "addressed" /\ plan[Len(plan)].err = "stanza"
      BY Zenon, <2>1, <2>2, PlansFine DEF Keyed, plan
    <2> QED
      BY Zenon, <1>1, <2>1, <2>3 DEF Echo
  <1> QED
    BY Zenon, <1>1, <1>2, <1>3 DEF EchoedOnce

(* The plan of AggregatePollVotes: six steps, the votes, the tally and the answer. *)
LEMMA VotePlan ==
  LET p == Plans["aggregate_poll_votes"] IN
  /\ "aggregate_poll_votes" \in Rpcs /\ Len(p) = Votes + 8 /\ DOMAIN p = 1 .. Votes + 8
  /\ \A i \in DOMAIN p : p[i].do # "send"
  /\ \A v \in 1 .. Votes : p[6 + v] = Step("open", ToString(v), "none")
  /\ p[Votes + 7] = Step("tally", "aggregate_votes", "client_err")
  <1> DEFINE p == Plans["aggregate_poll_votes"]
             D == Kinds \ {"send"}
             o == count_undecryptable(Votes)
             t == <<Step("tally", "aggregate_votes", "client_err")>>
             c == client_of \o PollVotesToTally
  <1>1. "aggregate_poll_votes" \in Rpcs /\ p = (c \o (o \o t)) \o Plain
    <2>1. "aggregate_poll_votes" \in DOMAIN MessagingPlans(Votes)
          /\ MessagingPlans(Votes)["aggregate_poll_votes"] = aggregate_poll_votes(Votes)
      BY Zenon DEF MessagingPlans
    <2> QED
      BY Zenon, <2>1 DEF Rpcs, Plans, aggregate_poll_votes, aggregate_votes
  <1>2. Steps(o, D) /\ Steps(t, D) /\ Steps(c, D) /\ Steps(Plain, D)
    <2>1. Does(o) /\ Does(t) /\ Pre(c)
      BY Zenon, Counts, Small, Conversions, PreRules DEF client_of, PreK
    <2>2. Doing \subseteq D /\ Leading \subseteq D
      BY Zenon DEF Doing, Leading, Kinds
    <2>3. Steps(Plain, D)
      <3>1. PICK S : S = {[Step("answer", "no_key", "none") EXCEPT !.err = "no_key"]}
        OBVIOUS
      <3>2. \A x \in S : x.do \in D
        BY Zenon, <3>1 DEF Step, Kinds
      <3>3. Plain \in Seq(S)
        BY <3>1 DEF Plain, Answer
      <3> QED
        BY Zenon, <3>2, <3>3 DEF Steps
    <2> HIDE DEF o, t, c, D
    <2> QED
      BY Zenon, <2>1, <2>2, <2>3, StepsMono DEF Does, Pre
  <1>3. Len(o) = Votes /\ \A v \in 1 .. Votes : o[v] = Step("open", ToString(v), "none")
    BY RequestAssumption DEF count_undecryptable
  <1>4. Len(t) = 1 /\ t[1] = Step("tally", "aggregate_votes", "client_err") /\ Len(Plain) = 1
    BY Zenon DEF Plain, Answer
  <1>5. Len(c) = 6
    <2> DEFINE a == account_of
               b == <<Check("creator")>>
               d == <<Check("poll_id")>>
               e == <<Check("message_secret")>>
               f == <<Check("options")>>
               g == <<Check("voters")>>
    <2>1. c = a \o ((((b \o d) \o e) \o f) \o g)
      BY Zenon DEF client_of, PollVotesToTally, vote_identity, jid_from_required_wire, jid_parse,
             message_id, jid_list
    <2>2. Pre(a) /\ Pre(b) /\ Pre(d) /\ Pre(e) /\ Pre(f) /\ Pre(g)
      BY Zenon, Small DEF PreK
    <2>3. Len(a) = 1 /\ Len(b) = 1 /\ Len(d) = 1 /\ Len(e) = 1 /\ Len(f) = 1 /\ Len(g) = 1
      BY Zenon DEF account_of
    <2> HIDE DEF a, b, d, e, f, g
    <2>4. \A x, y : Pre(x) /\ Pre(y) => Pre(x \o y) /\ Len(x \o y) = Len(x) + Len(y)
      BY Zenon, StepsConcat DEF Pre
    <2>5. Pre(b \o d) /\ Pre((b \o d) \o e) /\ Pre(((b \o d) \o e) \o f)
          /\ Pre((((b \o d) \o e) \o f) \o g)
      BY Zenon, <2>2, <2>4
    <2>6. /\ Len(b \o d) = Len(b) + Len(d) /\ Len((b \o d) \o e) = Len(b \o d) + Len(e)
          /\ Len(((b \o d) \o e) \o f) = Len((b \o d) \o e) + Len(f)
          /\ Len((((b \o d) \o e) \o f) \o g) = Len(((b \o d) \o e) \o f) + Len(g)
          /\ Len(a \o ((((b \o d) \o e) \o f) \o g)) = Len(a) + Len((((b \o d) \o e) \o f) \o g)
      BY Zenon, <2>2, <2>4, <2>5
    <2> QED
      BY <2>1, <2>3, <2>6
  <1> HIDE DEF o, t, c, p, D
  <1>6. /\ Steps(o \o t, D) /\ Len(o \o t) = Len(o) + Len(t)
        /\ \A i \in 1 .. Len(o) + Len(t) :
             (o \o t)[i] = IF i <= Len(o) THEN o[i] ELSE t[i - Len(o)]
    BY <1>2, StepsConcat
  <1>6a. Steps(o \o t, D)
    BY <1>6, Zenon
  <1>7. /\ Steps(c \o (o \o t), D) /\ Len(c \o (o \o t)) = Len(c) + Len(o \o t)
        /\ \A i \in 1 .. Len(c) + Len(o \o t) :
             (c \o (o \o t))[i] = IF i <= Len(c) THEN c[i] ELSE (o \o t)[i - Len(c)]
    BY <1>2, <1>6a, StepsConcat
  <1>7a. Steps(c \o (o \o t), D)
    BY <1>7, Zenon
  <1>8. /\ Steps(p, D) /\ Len(p) = Len(c \o (o \o t)) + Len(Plain)
        /\ \A i \in 1 .. Len(c \o (o \o t)) + Len(Plain) :
             p[i] = IF i <= Len(c \o (o \o t)) THEN (c \o (o \o t))[i]
                    ELSE Plain[i - Len(c \o (o \o t))]
    BY <1>1, <1>2, <1>7a, StepsConcat
  <1>8a. Steps(p, D)
    BY <1>8, Zenon
  <1>9. DOMAIN p = 1 .. Len(p) /\ \A i \in DOMAIN p : p[i].do \in D
    BY Zenon, <1>8a, StepsHas
  <1>10. Len(o \o t) = Votes + 1 /\ Len(c \o (o \o t)) = Votes + 7 /\ Len(p) = Votes + 8
    BY <1>3, <1>4, <1>5, <1>6, <1>7, <1>8, RequestAssumption
  <1>11. /\ \A v \in 1 .. Votes : (o \o t)[v] = o[v]
         /\ (o \o t)[Votes + 1] = t[1]
    BY <1>3, <1>4, <1>6, RequestAssumption
  <1>12. \A v \in 1 .. Votes + 1 : (c \o (o \o t))[6 + v] = (o \o t)[v]
    <2>1. \A v \in 1 .. Votes + 1 : 6 + v \in 1 .. Votes + 7 /\ ~(6 + v <= 6) /\ (6 + v) - 6 = v
      BY RequestAssumption
    <2>2. Len(c) + Len(o \o t) = Votes + 7 /\ Len(c) = 6
      BY Zenon, <1>5, <1>7, <1>10
    <2> QED
      BY Zenon, <1>7, <2>1, <2>2
  <1>13. \A v \in 1 .. Votes + 1 : p[6 + v] = (c \o (o \o t))[6 + v]
    <2>1. \A v \in 1 .. Votes + 1 : 6 + v \in 1 .. Votes + 8 /\ 6 + v <= Votes + 7
      BY RequestAssumption
    <2>2. Len(c \o (o \o t)) + Len(Plain) = Votes + 8 /\ Len(c \o (o \o t)) = Votes + 7
      BY Zenon, <1>8, <1>10
    <2> QED
      BY Zenon, <1>8, <2>1, <2>2
  <1>14. \A v \in 1 .. Votes : p[6 + v] = Step("open", ToString(v), "none")
    <2> SUFFICES ASSUME NEW v \in 1 .. Votes PROVE p[6 + v] = Step("open", ToString(v), "none")
      OBVIOUS
    <2>1. v \in 1 .. Votes + 1
      BY RequestAssumption
    <2>2. p[6 + v] = (c \o (o \o t))[6 + v] /\ (c \o (o \o t))[6 + v] = (o \o t)[v]
      BY Zenon, <1>12, <1>13, <2>1
    <2>3. (o \o t)[v] = o[v] /\ o[v] = Step("open", ToString(v), "none")
      BY Zenon, <1>3, <1>11
    <2> QED
      BY Zenon, <2>2, <2>3
  <1>15. p[Votes + 7] = Step("tally", "aggregate_votes", "client_err")
    <2>1. Votes + 1 \in 1 .. Votes + 1 /\ 6 + (Votes + 1) = Votes + 7
      BY RequestAssumption
    <2>2. p[6 + (Votes + 1)] = (c \o (o \o t))[6 + (Votes + 1)]
          /\ (c \o (o \o t))[6 + (Votes + 1)] = (o \o t)[Votes + 1]
      BY Zenon, <1>12, <1>13, <2>1
    <2> QED
      BY Zenon, <1>4, <1>11, <2>1, <2>2
  <1>16. \A i \in DOMAIN p : p[i].do # "send"
    BY Zenon, <1>9 DEF D
  <1> QED
    BY Zenon, <1>1, <1>9, <1>10, <1>14, <1>15, <1>16 DEF p

(* Each vote seen so far is tallied or counted.                            *)
LEMMA VoteInit == RequestInit => VoteInv
  BY Zenon DEF RequestInit, VoteInv

LEMMA VoteNext == Placed /\ EchoInv /\ VoteInv /\ (Arrives \/ RequestNext) => VoteInv'
  <1> DEFINE poll == "aggregate_poll_votes"
  <1>0. poll \in Rpcs /\ poll # "none"
    BY Zenon, VotePlan, NoneIsNoRpc
  <1>1. ASSUME Placed, NEW r \in Rpcs, NEW f, NEW a, Receive(r, f, a) PROVE VoteInv'
    <2> SUFFICES ASSUME rpc' = poll PROVE VoteInv'
      BY Zenon DEF VoteInv
    <2>1. /\ rpc = "none" /\ step' = step /\ doing' = "ready" /\ answer' = answer
          /\ unopened' = unopened /\ tallied' = tallied /\ queued' = queued
          /\ opens' \subseteq 1 .. Votes
      BY Zenon, <1>1 DEF Receive, echoVars
    <2>2. step = 1 /\ queued = FALSE /\ unopened = {} /\ tallied = {} /\ answer.status = "none"
      BY <1>1, <2>1 DEF Placed, Untouched, NoAnswer
    <2>3. plan' = Plans[poll] /\ Len(plan') = Votes + 8
      BY Zenon, VotePlan DEF plan
    <2> QED
      BY <2>1, <2>2, <2>3, RequestAssumption DEF VoteInv, FirstVote
  <1>2. ASSUME Placed, EchoInv, VoteInv, RequestNext PROVE VoteInv'
    <2>1. /\ rpc # "none" /\ rpc' = rpc /\ plan' = plan
          /\ \/ Advances \/ Refused \/ Begins \/ Returns \/ Errs \/ Responds \/ Drops \/ Stays
             \/ \E id \in {"stanza", "empty"} : SentOff(id)
             \/ \E lost \in BOOLEAN : Publishes(lost)
      BY Zenon, <1>2, StepIs
    <2> SUFFICES ASSUME rpc = poll PROVE VoteInv'
      BY Zenon, <2>1 DEF VoteInv
    <2>2. /\ Len(plan) = Votes + 8 /\ DOMAIN plan = 1 .. Votes + 8
          /\ \A i \in DOMAIN plan : plan[i].do # "send"
          /\ \A v \in 1 .. Votes : plan[6 + v] = Step("open", ToString(v), "none")
          /\ plan[Votes + 7] = Step("tally", "aggregate_votes", "client_err")
      BY Zenon, VotePlan DEF plan
    <2>3. \A i \in DOMAIN plan : plan[i].do = "answer" <=> i = Len(plan)
      BY Zenon, <1>0, PlanIs DEF plan
    <2>4. step \in 1 .. Votes + 8
      BY Zenon, <2>1, <2>2, <1>2 DEF Placed
    <2>5. /\ ~queued /\ doing # "publishing"
          /\ opens \subseteq 1 .. Votes /\ unopened \subseteq 1 .. Votes
          /\ tallied \subseteq 1 .. Votes
          /\ \A v \in 1 .. Votes : 7 + v <= step => v \in unopened \cup opens
          /\ step = Votes + 8 => unopened \cup tallied = 1 .. Votes
          /\ answer.status = "ok" => step = Votes + 8
      BY Zenon, <1>2, <2>2 DEF VoteInv, FirstVote
    <2> DEFINE Goal ==
          /\ ~queued' /\ doing' # "publishing"
          /\ opens' \subseteq 1 .. Votes /\ unopened' \subseteq 1 .. Votes
          /\ tallied' \subseteq 1 .. Votes
          /\ \A v \in 1 .. Votes : 7 + v <= step' => v \in unopened' \cup opens'
          /\ step' = Votes + 8 => unopened' \cup tallied' = 1 .. Votes
          /\ answer'.status = "ok" => step' = Votes + 8
    <2>6. SUFFICES Goal
      BY Zenon, <2>1, <2>2 DEF VoteInv, FirstVote
    <2>7. /\ plan[Votes + 7].do = "tally"
          /\ \A v \in 1 .. Votes : plan[6 + v].do = "open" /\ plan[6 + v].on = ToString(v)
      <3>1. \A d, x, e : Step(d, x, e).do = d /\ Step(d, x, e).on = x
        BY Zenon DEF Step
      <3> QED
        BY <2>2, <3>1
    <2>8. "tally" \notin InProcess /\ "answer" \notin InProcess
      BY Zenon DEF InProcess, Leading
    <2>9. CASE Advances
      <3>1. step # Votes + 7 /\ step # Votes + 8 /\ step' = step + 1
        BY <2>2, <2>3, <2>4, <2>7, <2>8, <2>9 DEF Advances
      <3>2. step' # Votes + 8 /\ (answer'.status = "ok" => FALSE)
        <4>1. answer = NoAnswer
          BY Zenon, <1>2, <2>9 DEF EchoInv, Advances
        <4> QED
          BY <2>4, <2>9, <3>1, <4>1, RequestAssumption DEF Advances, NoAnswer
      <3>3. unopened \subseteq unopened' /\ unopened' \subseteq 1 .. Votes
        BY Zenon, <2>5, <2>9 DEF Advances
      <3>4. ASSUME NEW v \in 1 .. Votes, 7 + v <= step' PROVE v \in unopened' \cup opens
        <4>1. CASE 7 + v <= step
          BY Zenon, <2>5, <3>3, <4>1
        <4>2. CASE ~(7 + v <= step)
          <5>1. step = 6 + v
            BY <2>4, <3>1, <3>4, <4>2
          <5> QED
            BY Zenon, <2>7, <2>9, <5>1 DEF Advances
        <4> QED
          BY Zenon, <4>1, <4>2
      <3> QED
        BY Zenon, <2>5, <2>9, <3>2, <3>3, <3>4 DEF Advances, callVars
    <2>10. CASE Returns
      <3>1. step # Votes + 8 /\ (\A v \in 1 .. Votes : step # 6 + v) /\ answer = NoAnswer
        <4>1. plan[step].do # "answer" /\ plan[step].do # "open"
          BY Zenon, <2>10 DEF Returns
        <4> QED
          BY Zenon, <1>2, <2>2, <2>3, <2>4, <2>7, <2>10, <4>1 DEF Returns, EchoInv
      <3>2. step' = Votes + 8 => step = Votes + 7 /\ tallied' = opens
        BY <2>4, <2>7, <2>10, RequestAssumption DEF Returns
      <3>3. step = Votes + 7 => unopened \cup opens = 1 .. Votes
        <4>1. ASSUME step = Votes + 7, NEW v \in 1 .. Votes PROVE v \in unopened \cup opens
          <5>1. 7 + v <= step
            BY <4>1, RequestAssumption
          <5> QED
            BY Zenon, <2>5, <5>1
        <4> QED
          BY Zenon, <2>5, <4>1
      <3>4. \A v \in 1 .. Votes : 7 + v <= step' => 7 + v <= step
        BY <2>4, <2>10, <3>1 DEF Returns
      <3>5. tallied' \subseteq 1 .. Votes
        BY Zenon, <2>5, <2>10 DEF Returns
      <3>6. answer'.status # "ok"
        BY Zenon, <2>10, <3>1 DEF Returns, NoAnswer
      <3> QED
        BY Zenon, <2>5, <2>10, <3>2, <3>3, <3>4, <3>5, <3>6 DEF Returns, callVars
    <2>11. CASE Refused \/ Begins \/ Errs \/ Drops
      <3>1. /\ queued' = queued /\ opens' = opens /\ unopened' = unopened /\ tallied' = tallied
            /\ step' = step /\ doing' \in {"calling", "done"}
            /\ answer' = answer \/ answer'.status # "ok"
        BY Zenon, <2>11 DEF Refused, Begins, Errs, Drops, callVars, voteVars
      <3> QED
        BY Zenon, <2>5, <3>1
    <2>12. CASE Responds
      BY Zenon, <2>2, <2>3, <2>4, <2>5, <2>12 DEF Responds, callVars, voteVars
    <2>13. CASE Stays
      BY Zenon, <2>5, <2>13 DEF Stays, callVars
    <2>14. ~(\E id \in {"stanza", "empty"} : SentOff(id)) /\ ~(\E lost \in BOOLEAN : Publishes(lost))
      BY Zenon, <2>2, <2>4, <2>5 DEF SentOff, Publishes
    <2> QED
      BY Zenon, <2>1, <2>9, <2>10, <2>11, <2>12, <2>13, <2>14
  <1> QED
    BY Zenon, <1>1, <1>2 DEF Arrives

LEMMA VoteHolds == VoteInv => NoSilentLoss
  BY Zenon DEF VoteInv, NoSilentLoss

-----------------------------------------------------------------------------
(* The errors an operation refuses with itself, before it asks WhatsApp,   *)
(* are read by the handlers that call it.                                  *)
Groups == {"create_group", "join_with_invite_code", "get_invite_info"}
Channels == {"newsletter_metadata", "newsletter_join", "newsletter_leave", "set_admin_mute"}
Blocks == {"block", "unblock"}
Fits(x) ==
  x.do \in Calls =>
    /\ x.on \in Groups => x.err \in {"as_argument", "as_precondition"}
    /\ x.on \in Channels => x.err = "newsletter_err"
    /\ x.on \in Blocks => x.err = "blocking_err"
Reads(s) == \E S : s \in Seq(S) /\ \A x \in S : Fits(x)

(* The library calls of a handler put together from parts.                 *)
LEMMA ReadsConcat == \A s, t : Reads(s) /\ Reads(t) => Reads(s \o t)
  <1> SUFFICES ASSUME NEW s, NEW t, Reads(s), Reads(t) PROVE Reads(s \o t)
    OBVIOUS
  <1>1. PICK S : s \in Seq(S) /\ \A x \in S : Fits(x)
    BY Zenon DEF Reads
  <1>2. PICK T : t \in Seq(T) /\ \A x \in T : Fits(x)
    BY Zenon DEF Reads
  <1>3. PICK U : U = S \cup T
    OBVIOUS
  <1>4. s \in Seq(U) /\ t \in Seq(U) /\ \A x \in U : Fits(x)
    BY <1>1, <1>2, <1>3
  <1>5. s \o t \in Seq(U)
    BY <1>4
  <1> QED
    BY <1>4, <1>5, Zenon DEF Reads

LEMMA ReadsOther ==
  ASSUME NEW D, D \cap Calls = {}, NEW s, Steps(s, D)
  PROVE  Reads(s)
  <1>1. PICK S : s \in Seq(S) /\ \A x \in S : x.do \in D
    BY Zenon DEF Steps
  <1>2. \A x \in S : Fits(x)
    BY Zenon, <1>1 DEF Fits
  <1> QED
    BY Zenon, <1>1, <1>2 DEF Reads

LEMMA ReadsOne ==
  ASSUME NEW do, NEW on, NEW err, Fits(Step(do, on, err))
  PROVE  Reads(<<Step(do, on, err)>>)
  <1>1. PICK S : S = {Step(do, on, err)}
    OBVIOUS
  <1>2. <<Step(do, on, err)>> \in Seq(S) /\ \A x \in S : Fits(x)
    BY <1>1
  <1> QED
    BY Zenon, <1>2 DEF Reads

LEMMA ReadsSmall ==
  /\ \A s : Pre(s) => Reads(s)
  /\ \A f : Reads(<<Check(f)>>)
  /\ Reads(account_of) /\ Reads(resolve_only) /\ Reads(echo) /\ Reads(<<>>)
  /\ \A chat, id : Reads(Answer(chat, id))
  /\ \A op : Reads(Quiet(op))
  /\ Reads(lid_mapping_list) /\ Reads(count_undecryptable(Votes))
  /\ \A op : op \notin Groups \cup Channels \cup Blocks =>
       \A err : /\ Reads(Call(op, err)) /\ Reads(Send(op))
                /\ Reads(<<Step("tally", op, err)>>)
  /\ \A op \in Groups : Reads(Call(op, "as_argument")) /\ Reads(Call(op, "as_precondition"))
  /\ \A op \in Channels : Reads(Call(op, "newsletter_err"))
  /\ \A op \in Blocks : Reads(Call(op, "blocking_err"))
  <1>1. \A s : Pre(s) => Reads(s)
    <2>1. Leading \cap Calls = {}
      BY Zenon DEF Leading, Calls
    <2> QED
      BY Zenon, <2>1, ReadsOther DEF Pre
  <1>2. (\A f : Reads(<<Check(f)>>)) /\ Reads(account_of) /\ Reads(resolve_only) /\ Reads(<<>>)
    BY Zenon, <1>1, Small, Conversions DEF PreK
  <1>3. /\ \A op, e : Reads(<<Step("quiet", op, e)>>) /\ Reads(<<Step("read", op, e)>>)
        /\ \A op, e : Reads(<<Step("echo", op, e)>>) /\ Reads(<<Step("answer", op, e)>>)
    <2>1. \A do, op, e : do \notin Calls => Fits(Step(do, op, e))
      BY Zenon DEF Fits, Step
    <2>2. "quiet" \notin Calls /\ "read" \notin Calls /\ "echo" \notin Calls /\ "answer" \notin Calls
      BY Zenon DEF Calls
    <2> QED
      BY Zenon, <2>1, <2>2, ReadsOne
  <1>4. \A chat, id : Answer(chat, id) = <<Step("answer", chat, id)>>
    BY DEF Answer, Step
  <1>5. Reads(count_undecryptable(Votes))
    <2> DEFINE x(i) == Step("open", ToString(i), "none")
    <2>1. PICK S : S = {x(i) : i \in 1 .. Votes}
      OBVIOUS
    <2>2. \A i : Fits(x(i))
      BY Zenon DEF Step, Fits, Calls
    <2> HIDE DEF x
    <2>3. [i \in 1 .. Votes |-> x(i)] \in Seq(S)
      BY <2>1, RequestAssumption
    <2>4. count_undecryptable(Votes) = [i \in 1 .. Votes |-> x(i)]
      BY Zenon DEF count_undecryptable, x
    <2>5. \A y \in S : Fits(y)
      BY Zenon, <2>1, <2>2
    <2> QED
      BY Zenon, <2>3, <2>4, <2>5 DEF Reads
  <1>6. ASSUME NEW op, op \notin Groups \cup Channels \cup Blocks, NEW err
        PROVE  /\ Reads(Call(op, err)) /\ Reads(Send(op)) /\ Reads(<<Step("tally", op, err)>>)
    <2>1. \A do, e : Fits(Step(do, op, e))
      BY Zenon, <1>6 DEF Fits, Step
    <2> QED
      BY Zenon, <2>1, ReadsOne DEF Call, Send
  <1>7. ASSUME NEW op \in Groups
        PROVE  Reads(Call(op, "as_argument")) /\ Reads(Call(op, "as_precondition"))
    <2>1. op \notin Channels /\ op \notin Blocks
      BY Zenon DEF Groups, Channels, Blocks
    <2>2. \A e \in {"as_argument", "as_precondition"} : Fits(Step("call", op, e))
      BY Zenon, <2>1 DEF Fits, Step
    <2> QED
      BY Zenon, <2>2, ReadsOne DEF Call
  <1>8. ASSUME NEW op \in Channels PROVE Reads(Call(op, "newsletter_err"))
    <2>1. op \notin Groups /\ op \notin Blocks
      BY Zenon DEF Groups, Channels, Blocks
    <2>2. Fits(Step("call", op, "newsletter_err"))
      BY Zenon, <2>1 DEF Fits, Step
    <2> QED
      BY Zenon, <2>2, ReadsOne DEF Call
  <1>9. ASSUME NEW op \in Blocks PROVE Reads(Call(op, "blocking_err"))
    <2>1. op \notin Groups /\ op \notin Channels
      BY Zenon DEF Groups, Channels, Blocks
    <2>2. Fits(Step("call", op, "blocking_err"))
      BY Zenon, <2>1 DEF Fits, Step
    <2> QED
      BY Zenon, <2>2, ReadsOne DEF Call
  <1> QED
    BY Zenon, <1>1, <1>2, <1>3, <1>4, <1>5, <1>6, <1>7, <1>8, <1>9 DEF echo, Quiet, lid_mapping_list

(* The calls of the group, contact, newsletter and call services, and of   *)
(* the messaging service, one by one.                                      *)
LEMMA DirectoryReads ==
  ASSUME NEW r \in DOMAIN DirectoryPlans(Queries)
  PROVE  Reads(DirectoryPlans(Queries)[r])
  <1>1. \A s, t : Reads(s) /\ Reads(t) => Reads(s \o t)
    BY Zenon, ReadsConcat
  <1>2. Reads(client_of) /\ Reads(Plain) /\ \A f : Reads(<<Check(f)>>)
    BY Zenon, ReadsSmall DEF client_of, Plain
  (* The account, then the call. *)
  <1>3. \A op, err : Reads(Call(op, err)) => Reads(client_of \o Call(op, err) \o Plain)
    BY Zenon, <1>1, <1>2
  <1>4. \A f, op, err : Reads(Call(op, err)) =>
          Reads(client_of \o <<Check(f)>> \o Call(op, err) \o Plain)
    BY Zenon, <1>1, <1>2
  <1>5. \A f, g, op, err : Reads(Call(op, err)) =>
          Reads(client_of \o <<Check(f)>> \o <<Check(g)>> \o Call(op, err) \o Plain)
    BY Zenon, <1>1, <1>2
  (* The domain side checks a field of its own. *)
  <1>6. \A g, op, err : Reads(Call(op, err)) =>
          Reads(client_of \o (<<Check(g)>> \o Call(op, err)) \o Plain)
    BY Zenon, <1>1, <1>2
  <1>7. \A f, g, op, err : Reads(Call(op, err)) =>
          Reads(client_of \o <<Check(f)>> \o (<<Check(g)>> \o Call(op, err)) \o Plain)
    BY Zenon, <1>1, <1>2
  <1>8. \A f, h, g, op, err : Reads(Call(op, err)) =>
          Reads(client_of \o <<Check(f)>> \o <<Check(h)>> \o (<<Check(g)>> \o Call(op, err)) \o Plain)
    BY Zenon, <1>1, <1>2
  <1> DEFINE Usual(op) == op \notin Groups \cup Channels \cup Blocks
  <1>0. \A op : Usual(op) => \A err : Reads(Call(op, err))
    BY Zenon, ReadsSmall
  <1>a. /\ Usual("set_membership_approval") /\ Usual("set_ephemeral") /\ Usual("get_invite_link")
        /\ Usual("leave") /\ Usual("get_membership_requests") /\ Usual("is_on_whatsapp")
        /\ Usual("get_user_info") /\ Usual("picture_lookup") /\ Usual("get_business_profile")
        /\ Usual("presence_subscribe") /\ Usual("subscribe_live_updates")
        /\ Usual("remove_group_picture") /\ Usual("set_group_picture") /\ Usual("set_announce")
        /\ Usual("set_locked")
    BY Zenon DEF Groups, Channels, Blocks
  <1>b. /\ Usual("group_participating") /\ Usual("set_status_text") /\ Usual("get_blocklist")
        /\ Usual("list_subscribed") /\ Usual("set_profile_picture") /\ Usual("remove_profile_picture")
        /\ Usual("add_participants") /\ Usual("remove_participants") /\ Usual("promote_participants")
        /\ Usual("demote_participants") /\ Usual("approve_membership_requests")
        /\ Usual("reject_membership_requests") /\ Usual("set_member_add_mode")
        /\ Usual("set_member_link_mode") /\ Usual("set_member_share_history_mode")
    BY Zenon DEF Groups, Channels, Blocks
  <1>c. /\ Usual("set_push_name") /\ Usual("newsletter_create") /\ Usual("set_subject")
        /\ Usual("set_description") /\ Usual("reject_call") /\ Usual("newsletter_messages")
        /\ Usual("send_poll_vote_raw") /\ Usual("get_my_addons") /\ Usual("get_lid_pn_entry")
        /\ Usual("fetch_metadata")
    BY Zenon DEF Groups, Channels, Blocks
  <1>d. /\ Reads(Call("create_group", "as_precondition"))
        /\ Reads(Call("join_with_invite_code", "as_argument"))
        /\ Reads(Call("get_invite_info", "as_argument"))
        /\ \A op \in Channels : Reads(Call(op, "newsletter_err"))
        /\ \A op \in Blocks : Reads(Call(op, "blocking_err"))
        /\ "newsletter_metadata" \in Channels /\ "newsletter_join" \in Channels
        /\ "newsletter_leave" \in Channels /\ "set_admin_mute" \in Channels
        /\ "block" \in Blocks /\ "unblock" \in Blocks
    BY Zenon, ReadsSmall DEF Groups, Channels, Blocks
  <1> HIDE DEF Usual
  <1>9. /\ Reads(create_group) /\ Reads(get_profile_picture) /\ Reads(get_business_profile)
        /\ Reads(subscribe_presence) /\ Reads(invite_link_request) /\ Reads(leave_group)
        /\ Reads(get_membership_requests) /\ Reads(set_group_ephemeral)
        /\ Reads(set_group_membership_approval) /\ Reads(get_newsletter_metadata)
        /\ Reads(subscribe_newsletter_live_updates) /\ Reads(check_on_whats_app)
        /\ Reads(get_about)
    BY Zenon, <1>0, <1>4, <1>a, <1>d DEF create_group, get_profile_picture, get_business_profile, subscribe_presence,
       invite_link_request, leave_group, get_membership_requests, set_group_ephemeral,
       set_group_membership_approval, get_newsletter_metadata,
       subscribe_newsletter_live_updates, check_on_whats_app, get_about,
       jid_list, jid_from_required_wire, jid_parse, group_jid,
       newsletter_jid, groups_create_group, contacts_picture, contacts_get_business_profile,
       contacts_subscribe_presence, groups_invite_link, groups_leave, membership,
       groups_set_ephemeral, change_setting, newsletters_get_metadata, newsletters_subscribe,
       contacts_check_on_whatsapp, contacts_get_about, run_isolated
  <1>9a. /\ \A op : Usual(op) => Reads(setting_request(op))
         /\ \A op \in Channels : Reads(follow_request(op))
         /\ Reads(set_group_photo(TRUE)) /\ Reads(set_group_photo(FALSE))
    BY Zenon, <1>0, <1>4, <1>a, <1>d DEF setting_request, follow_request, set_group_photo, group_jid,
       newsletter_jid, change_setting, newsletters_follow, groups_set_photo
  <1>10. /\ Reads(join_with_invite) /\ Reads(list_participating) /\ Reads(preview_invite)
         /\ Reads(set_about) /\ Reads(get_blocklist) /\ Reads(list_subscribed_newsletters)
         /\ \A op : Usual(op) => Reads(own_picture(op))
    BY Zenon, <1>0, <1>3, <1>b, <1>d DEF join_with_invite, list_participating, preview_invite, set_about, get_blocklist,
       list_subscribed_newsletters, own_picture, groups_join_with_invite,
       groups_list_participating, groups_preview_invite, contacts_set_about, blocklist_get,
       newsletters_list_subscribed, contacts_picture, run_isolated
  <1>11. \A op : Usual(op) => Reads(participants_request(op)) /\ Reads(decide_membership(op))
                            /\ Reads(mode_request(op))
    BY Zenon, <1>0, <1>5 DEF participants_request, decide_membership, mode_request, jid_list, group_jid,
       jid_from_required_wire, jid_parse, change_participants, membership, change_setting,
       setting_mode
  <1>12. Reads(set_push_name) /\ Reads(create_newsletter)
    BY Zenon, <1>0, <1>6, <1>c DEF set_push_name, create_newsletter, contacts_set_push_name, newsletters_create
  <1>13. /\ Reads(set_group_subject) /\ Reads(set_group_description)
         /\ \A op \in Blocks : Reads(blocklist_request(op))
    BY Zenon, <1>0, <1>7, <1>c, <1>d DEF set_group_subject, set_group_description, blocklist_request, group_jid,
       groups_set_subject, groups_set_description, blocklist_change, require_user_jid,
       jid_from_required_wire, jid_parse
  <1>14. Reads(reject_call)
    BY Zenon, <1>0, <1>8, <1>c DEF reject_call, calls_reject_call, jid_from_required_wire, jid_parse
  <1>15. \A q : Reads(q) => \A d : Reads(d) => Reads(client_of \o q \o d \o Plain)
    BY Zenon, <1>1, <1>2
  <1>16. Reads(option_hashes)
    <2>1. <<"too_many_hashes", "hash_length", "repeated_hash">>
            \in Seq({"too_many_hashes", "hash_length", "repeated_hash"})
      OBVIOUS
    <2>2. Pre(option_hashes)
      BY Zenon, <2>1, ChecksPre DEF option_hashes
    <2> QED
      BY Zenon, <2>2, ReadsSmall
  <1>17. Reads(NewsletterHistoryQuery) /\ Reads(NewsletterPollVote) /\ Reads(NewsletterAddOnsQuery)
    BY Zenon, <1>1, <1>2, <1>16 DEF NewsletterHistoryQuery, NewsletterPollVote,
       NewsletterAddOnsQuery, newsletter_jid, require_at_least_one
  <1>17a. Reads(lid_mapping_resolve(Queries))
    <2> DEFINE x == Step("call", "get_lid_pn_entry", "client_err")
    <2>1. Fits(x)
      BY Zenon, <1>c DEF Fits, Step, Usual
    <2> HIDE DEF x
    <2>2. PICK S : S = {x}
      OBVIOUS
    <2>3. [i \in 1 .. Queries |-> x] \in Seq(S) /\ \A y \in S : Fits(y)
      BY <2>1, <2>2, RequestAssumption
    <2>4. lid_mapping_resolve(Queries) = [i \in 1 .. Queries |-> x]
      BY Zenon DEF lid_mapping_resolve, x
    <2> QED
      BY Zenon, <2>3, <2>4 DEF Reads
  <1>18. /\ Reads(get_newsletter_messages) /\ Reads(send_newsletter_poll_vote)
         /\ Reads(get_my_newsletter_add_ons) /\ Reads(resolve_lid_pn(Queries))
    BY Zenon, <1>0, <1>2, <1>c, <1>15, <1>17, <1>17a DEF get_newsletter_messages, send_newsletter_poll_vote,
       get_my_newsletter_add_ons, resolve_lid_pn, newsletters_get_messages,
       newsletters_send_poll_vote, newsletters_get_my_addons, LidPnQuery, jid_list,
       jid_from_required_wire, jid_parse
  <1>19. Reads(get_group_metadata)
    BY Zenon, <1>0, <1>1, <1>2, <1>c, ReadsSmall DEF get_group_metadata, groups_get_metadata, group_jid
  <1>20. Reads(get_push_name) /\ Reads(list_lid_mappings)
    BY Zenon, <1>1, <1>2, ReadsSmall DEF get_push_name, list_lid_mappings, contacts_get_push_name
  <1> DEFINE P == DirectoryPlans(Queries)
  <1>21. r \in {"create_group", "set_group_subject", "add_participants",
                "remove_participants", "promote_admins", "demote_admins",
                "set_group_description", "get_group_metadata",
                "get_invite_link", "revoke_invite_link", "join_with_invite",
                "list_participating", "leave_group", "set_group_announce",
                "set_group_locked", "set_group_membership_approval",
                "set_group_ephemeral", "preview_invite", "set_group_photo",
                "remove_group_photo", "get_membership_requests",
                "approve_membership_requests", "reject_membership_requests",
                "set_group_member_add_mode", "set_group_member_link_mode",
                "set_group_member_share_history_mode", "check_on_whats_app",
                "get_profile_picture", "set_profile_picture",
                "remove_profile_picture", "get_push_name", "set_push_name",
                "get_about", "set_about", "block_contact", "unblock_contact",
                "get_blocklist", "get_business_profile",
                "subscribe_presence", "resolve_lid_pn", "list_lid_mappings",
                "list_subscribed_newsletters", "get_newsletter_metadata",
                "get_newsletter_messages", "send_newsletter_poll_vote",
                "get_my_newsletter_add_ons",
                "subscribe_newsletter_live_updates", "follow_newsletter",
                "unfollow_newsletter", "mute_newsletter",
                "create_newsletter", "reject_call"}
    BY Zenon DEF DirectoryPlans
  <1>22. /\ P["create_group"] = create_group
         /\ P["set_group_subject"] = set_group_subject
         /\ P["add_participants"] = participants_request("add_participants")
         /\ P["remove_participants"] = participants_request("remove_participants")
         /\ P["promote_admins"] = participants_request("promote_participants")
         /\ P["demote_admins"] = participants_request("demote_participants")
         /\ P["set_group_description"] = set_group_description
         /\ P["get_group_metadata"] = get_group_metadata
         /\ P["get_invite_link"] = invite_link_request
         /\ P["revoke_invite_link"] = invite_link_request
         /\ P["join_with_invite"] = join_with_invite
         /\ P["list_participating"] = list_participating
         /\ P["leave_group"] = leave_group
    BY Zenon DEF DirectoryPlans
  <1>23. /\ P["set_group_announce"] = setting_request("set_announce")
         /\ P["set_group_locked"] = setting_request("set_locked")
         /\ P["set_group_membership_approval"] = set_group_membership_approval
         /\ P["set_group_ephemeral"] = set_group_ephemeral
         /\ P["preview_invite"] = preview_invite
         /\ P["set_group_photo"] = set_group_photo(FALSE)
         /\ P["remove_group_photo"] = set_group_photo(TRUE)
         /\ P["get_membership_requests"] = get_membership_requests
         /\ P["approve_membership_requests"] = decide_membership("approve_membership_requests")
         /\ P["reject_membership_requests"] = decide_membership("reject_membership_requests")
         /\ P["set_group_member_add_mode"] = mode_request("set_member_add_mode")
         /\ P["set_group_member_link_mode"] = mode_request("set_member_link_mode")
         /\ P["set_group_member_share_history_mode"] = mode_request("set_member_share_history_mode")
    BY Zenon DEF DirectoryPlans
  <1>24. /\ P["check_on_whats_app"] = check_on_whats_app
         /\ P["get_profile_picture"] = get_profile_picture
         /\ P["set_profile_picture"] = own_picture("set_profile_picture")
         /\ P["remove_profile_picture"] = own_picture("remove_profile_picture")
         /\ P["get_push_name"] = get_push_name
         /\ P["set_push_name"] = set_push_name
         /\ P["get_about"] = get_about
         /\ P["set_about"] = set_about
         /\ P["block_contact"] = blocklist_request("block")
         /\ P["unblock_contact"] = blocklist_request("unblock")
         /\ P["get_blocklist"] = get_blocklist
         /\ P["get_business_profile"] = get_business_profile
         /\ P["subscribe_presence"] = subscribe_presence
    BY Zenon DEF DirectoryPlans
  <1>25. /\ P["resolve_lid_pn"] = resolve_lid_pn(Queries)
         /\ P["list_lid_mappings"] = list_lid_mappings
         /\ P["list_subscribed_newsletters"] = list_subscribed_newsletters
         /\ P["get_newsletter_metadata"] = get_newsletter_metadata
         /\ P["get_newsletter_messages"] = get_newsletter_messages
         /\ P["send_newsletter_poll_vote"] = send_newsletter_poll_vote
         /\ P["get_my_newsletter_add_ons"] = get_my_newsletter_add_ons
         /\ P["subscribe_newsletter_live_updates"] = subscribe_newsletter_live_updates
         /\ P["follow_newsletter"] = follow_request("newsletter_join")
         /\ P["unfollow_newsletter"] = follow_request("newsletter_leave")
         /\ P["mute_newsletter"] = follow_request("set_admin_mute")
         /\ P["create_newsletter"] = create_newsletter
         /\ P["reject_call"] = reject_call
    BY Zenon DEF DirectoryPlans
  <1> HIDE DEF P
  <1>26. r \in {"create_group", "set_group_subject", "add_participants",
                "remove_participants", "promote_admins", "demote_admins",
                "set_group_description", "get_group_metadata",
                "get_invite_link", "revoke_invite_link", "join_with_invite",
                "list_participating", "leave_group"} => Reads(P[r])
    BY Zenon, <1>22, <1>9, <1>9a, <1>a, <1>b, <1>d, <1>10, <1>11, <1>12, <1>13, <1>14, <1>18, <1>19, <1>20
  <1>27. r \in {"set_group_announce", "set_group_locked",
                "set_group_membership_approval", "set_group_ephemeral",
                "preview_invite", "set_group_photo", "remove_group_photo",
                "get_membership_requests", "approve_membership_requests",
                "reject_membership_requests", "set_group_member_add_mode",
                "set_group_member_link_mode",
                "set_group_member_share_history_mode"} => Reads(P[r])
    BY Zenon, <1>23, <1>9, <1>9a, <1>a, <1>b, <1>d, <1>10, <1>11, <1>12, <1>13, <1>14, <1>18, <1>19, <1>20
  <1>28. r \in {"check_on_whats_app", "get_profile_picture",
                "set_profile_picture", "remove_profile_picture",
                "get_push_name", "set_push_name", "get_about", "set_about",
                "block_contact", "unblock_contact", "get_blocklist",
                "get_business_profile", "subscribe_presence"} => Reads(P[r])
    BY Zenon, <1>24, <1>9, <1>9a, <1>a, <1>b, <1>d, <1>10, <1>11, <1>12, <1>13, <1>14, <1>18, <1>19, <1>20
  <1>29. r \in {"resolve_lid_pn", "list_lid_mappings",
                "list_subscribed_newsletters", "get_newsletter_metadata",
                "get_newsletter_messages", "send_newsletter_poll_vote",
                "get_my_newsletter_add_ons",
                "subscribe_newsletter_live_updates", "follow_newsletter",
                "unfollow_newsletter", "mute_newsletter",
                "create_newsletter", "reject_call"} => Reads(P[r])
    BY Zenon, <1>25, <1>9, <1>9a, <1>a, <1>b, <1>d, <1>10, <1>11, <1>12, <1>13, <1>14, <1>18, <1>19, <1>20
  <1> QED
    BY Zenon, <1>21, <1>26, <1>27, <1>28, <1>29 DEF P

LEMMA MessagingReads ==
  ASSUME NEW r \in DOMAIN MessagingPlans(Votes)
  PROVE  Reads(MessagingPlans(Votes)[r])
  <1>1. \A s, t : Reads(s) /\ Reads(t) => Reads(s \o t)
    BY Zenon, ReadsConcat
  <1>2. /\ Reads(account_of) /\ Reads(client_of) /\ Reads(Plain) /\ Reads(echo) /\ Reads(echoed)
        /\ Reads(sent_message_key) /\ Reads(<<>>)
        /\ (\A f : Reads(<<Check(f)>>)) /\ \A chat, id : Reads(Answer(chat, id))
    BY Zenon, <1>1, ReadsSmall DEF client_of, Plain, echoed, sent_message_key
  <1>3. \A s : Pre(s) => Reads(s)
    BY Zenon, ReadsSmall
  <1>4. /\ Reads(MessageTarget) /\ Reads(message_ref_of) /\ Reads(OutgoingText)
        /\ Reads(OutgoingMedia) /\ Reads(PollVoteCast) /\ Reads(PollVotesToTally)
        /\ Reads(ContactCard) /\ Reads(InteractiveReply) /\ Reads(StatusText)
        /\ Reads(StatusMedia) /\ Reads(StatusRevoke) /\ Reads(build_text_message)
        /\ Reads(outgoing_context) /\ Reads(build_media_message)
        /\ Reads(build_interactive_reply) /\ Reads(stage_upload)
    BY Zenon, <1>3, Conversions, Small
  <1> DEFINE Usual(op) == op \notin Groups \cup Channels \cup Blocks
  <1>5. \A op : Usual(op) => Reads(Send(op)) /\ \A err : Reads(Call(op, err))
    BY Zenon, ReadsSmall
  <1>6. /\ Usual("send_message") /\ Usual("edit_message_raw") /\ Usual("revoke_message_raw")
        /\ Usual("delete_message_for_me") /\ Usual("fetch_message_history") /\ Usual("presence")
        /\ Usual("mark_as_read") /\ Usual("star_message") /\ Usual("newsletter_send_poll")
        /\ Usual("poll_create") /\ Usual("vote_raw") /\ Usual("upload_stream")
        /\ Usual("status_send_text") /\ Usual("status_send_media") /\ Usual("status_revoke")
        /\ Usual("mark_chat_as_read") /\ Usual("mark_chat_as_unread") /\ Usual("archive")
        /\ Usual("pin") /\ Usual("mute") /\ Usual("delete_chat") /\ Usual("aggregate_votes")
    BY Zenon DEF Groups, Channels, Blocks
  <1>7. Reads(aggregate_votes(Votes))
    BY Zenon, <1>1, <1>6, ReadsSmall DEF aggregate_votes
  <1> HIDE DEF Usual
  <1>8. /\ Reads(fetch_message_history) /\ Reads(send_presence) /\ Reads(mark_read)
        /\ \A op : Usual(op) => Reads(mark_chat(op)) /\ Reads(change_chat(op))
    BY Zenon, <1>1, <1>2, <1>5, <1>6 DEF fetch_message_history, send_presence, mark_read, mark_chat,
       change_chat, require_typed_jid, jid_from_required_wire, jid_from_optional_wire, jid_parse,
       presence_state, messaging_fetch_message_history, messaging_send_presence,
       messaging_mark_read, chat_actions
  <1>9. Reads(star_message) /\ Reads(aggregate_poll_votes(Votes)) /\ Reads(get_status_audience)
    BY Zenon, <1>1, <1>2, <1>4, <1>5, <1>6, <1>7, ReadsSmall DEF star_message, chat_actions_star_message,
       aggregate_poll_votes, get_status_audience, status_audience
  <1>10. Reads(send_text) /\ Reads(send_reaction) /\ Reads(edit_message)
    BY Zenon, <1>1, <1>2, <1>4, <1>5, <1>6 DEF send_text, send_reaction, edit_message, messaging_send_text,
       messaging_send_reaction, messaging_edit_message, require_typed_jid,
       jid_from_required_wire, jid_parse
  <1>11. Reads(send_media)
    BY Zenon, <1>1, <1>2, <1>4, <1>5, <1>6 DEF send_media, media_transfer_send_media, upload_staged,
       require_typed_jid, jid_from_required_wire, jid_parse, parse_sendable, parse_within
  <1>12. Reads(delete_message(TRUE))
    BY Zenon, <1>1, <1>2, <1>4, <1>5, <1>6 DEF delete_message, delete_target, refuse_status_revoke,
       messaging_delete_message
  <1>13. Reads(delete_message(FALSE))
    BY Zenon, <1>1, <1>2, <1>4, <1>5, <1>6 DEF delete_message, delete_target, messaging_delete_message
  <1>14. Reads(send_contact) /\ Reads(send_interactive_reply) /\ Reads(send_poll_vote)
    BY Zenon, <1>1, <1>2, <1>4, <1>5, <1>6 DEF send_contact, send_interactive_reply, send_poll_vote,
       send_rich_send_contact, reply_send, polls_send_vote, require_typed_jid,
       jid_from_required_wire, jid_parse
  <1>15. Reads(send_poll(TRUE)) /\ Reads(send_poll(FALSE))
    BY Zenon, <1>1, <1>2, <1>5, <1>6 DEF send_poll, send_rich_send_poll, send_channel_poll,
       require_typed_jid, jid_from_required_wire, jid_parse
  <1>16. Reads(post_status_text) /\ Reads(post_status_media) /\ Reads(revoke_status)
    BY Zenon, <1>1, <1>2, <1>4, <1>5, <1>6 DEF post_status_text, post_status_media, revoke_status,
       status_post_text, status_post_media, status_revoke_status, upload_staged, parse_status,
       parse_within, message_id
  <1> DEFINE P == MessagingPlans(Votes)
  <1>23. r \in {"send_text", "send_media", "send_reaction", "edit_message",
                 "delete_for_everyone", "delete_for_me",
                 "fetch_message_history", "send_presence",
                 "mark_read", "mark_chat_read",
                 "mark_unread", "star_message",
                 "archive_chat", "pin_chat", "mute_chat",
                 "delete_chat", "send_contact",
                 "send_interactive_reply", "send_poll",
                 "send_newsletter_poll", "send_poll_vote",
                 "aggregate_poll_votes", "post_status_text",
                 "post_status_media", "revoke_status",
                 "get_status_audience"}
    BY Zenon DEF MessagingPlans
  <1>24. /\ P["send_text"] = send_text
         /\ P["send_media"] = send_media
         /\ P["send_reaction"] = send_reaction
         /\ P["edit_message"] = edit_message
         /\ P["delete_for_everyone"] = delete_message(TRUE)
         /\ P["delete_for_me"] = delete_message(FALSE)
         /\ P["fetch_message_history"] = fetch_message_history
         /\ P["send_presence"] = send_presence
         /\ P["mark_read"] = mark_read
         /\ P["mark_chat_read"] = mark_chat("mark_chat_as_read")
         /\ P["mark_unread"] = mark_chat("mark_chat_as_unread")
         /\ P["star_message"] = star_message
         /\ P["archive_chat"] = change_chat("archive")
    BY Zenon DEF MessagingPlans
  <1>25. /\ P["pin_chat"] = change_chat("pin")
         /\ P["mute_chat"] = change_chat("mute")
         /\ P["delete_chat"] = change_chat("delete_chat")
         /\ P["send_contact"] = send_contact
         /\ P["send_interactive_reply"] = send_interactive_reply
         /\ P["send_poll"] = send_poll(FALSE)
         /\ P["send_newsletter_poll"] = send_poll(TRUE)
         /\ P["send_poll_vote"] = send_poll_vote
         /\ P["aggregate_poll_votes"] = aggregate_poll_votes(Votes)
         /\ P["post_status_text"] = post_status_text
         /\ P["post_status_media"] = post_status_media
         /\ P["revoke_status"] = revoke_status
         /\ P["get_status_audience"] = get_status_audience
    BY Zenon DEF MessagingPlans
  <1> HIDE DEF P
  <1>26. r \in {"send_text", "send_media", "send_reaction", "edit_message",
                 "delete_for_everyone", "delete_for_me",
                 "fetch_message_history", "send_presence",
                 "mark_read", "mark_chat_read",
                 "mark_unread", "star_message",
                 "archive_chat"} => Reads(P[r])
    BY Zenon, <1>24, <1>6, <1>8, <1>9, <1>10, <1>11, <1>12, <1>13, <1>14, <1>15, <1>16
  <1>27. r \in {"pin_chat", "mute_chat", "delete_chat", "send_contact",
                 "send_interactive_reply", "send_poll",
                 "send_newsletter_poll", "send_poll_vote",
                 "aggregate_poll_votes", "post_status_text",
                 "post_status_media", "revoke_status",
                 "get_status_audience"} => Reads(P[r])
    BY Zenon, <1>25, <1>6, <1>8, <1>9, <1>10, <1>11, <1>12, <1>13, <1>14, <1>15, <1>16
  <1> QED
    BY Zenon, <1>23, <1>26, <1>27 DEF P

(* Every library call of every handler. *)
LEMMA PlansRead ==
  ASSUME NEW r \in Rpcs, NEW i \in DOMAIN Plans[r]
  PROVE  Fits(Plans[r][i])
  <1>1. Reads(Plans[r])
    <2>1. CASE r \in DOMAIN MessagingPlans(Votes)
      BY <2>1, MessagingReads, Zenon DEF Plans
    <2>2. CASE r \notin DOMAIN MessagingPlans(Votes)
      <3>1. r \in DOMAIN DirectoryPlans(Queries) /\ Plans[r] = DirectoryPlans(Queries)[r]
        BY Zenon, <2>2 DEF Plans, Rpcs
      <3> QED
        BY <3>1, DirectoryReads, Zenon
    <2> QED
      BY Zenon, <2>1, <2>2
  <1>2. PICK S : Plans[r] \in Seq(S) /\ \A x \in S : Fits(x)
    BY Zenon, <1>1 DEF Reads
  <1>3. Plans[r][i] \in S
    BY <1>2
  <1> QED
    BY Zenon, <1>2, <1>3

(* The handlers that tell a refusal of the library apart make no other     *)
(* call.                                                                   *)
Telling == {"create_group", "join_with_invite", "preview_invite"}
LEMMA TellingCalls ==
  ASSUME NEW r \in Telling, r \in Rpcs, NEW i \in DOMAIN Plans[r], Plans[r][i].do \in Calls
  PROVE  Plans[r][i].on \in Groups
  <1> DEFINE a == Step("account", "account", "WamuxError")
             c == Step("check", "participants", "InvalidArgument")
             g == Step("call", "create_group", "as_precondition")
             j == Step("call", "join_with_invite_code", "as_argument")
             p == Step("call", "get_invite_info", "as_argument")
             z == [Step("answer", "no_key", "none") EXCEPT !.err = "no_key"]
             All == {a, c, g, j, p, z}
  <1>1. Plans[r] \in {create_group, join_with_invite, preview_invite}
    <2>1. r \notin DOMAIN MessagingPlans(Votes)
      BY Zenon DEF Telling, MessagingPlans
    <2>2. /\ DirectoryPlans(Queries)["create_group"] = create_group
          /\ DirectoryPlans(Queries)["join_with_invite"] = join_with_invite
          /\ DirectoryPlans(Queries)["preview_invite"] = preview_invite
      BY Zenon DEF DirectoryPlans
    <2>3. Plans[r] = DirectoryPlans(Queries)[r]
      BY Zenon, <2>1 DEF Plans
    <2> QED
      BY Zenon, <2>2, <2>3 DEF Telling
  <1>2. \A x \in All : x.do \in Calls => x.on \in Groups
    BY DEF Step, Calls, Groups
  <1>3. /\ create_group = <<a>> \o <<c>> \o <<g>> \o <<z>>
        /\ join_with_invite = <<a>> \o <<j>> \o <<z>>
        /\ preview_invite = <<a>> \o <<p>> \o <<z>>
    BY Zenon DEF create_group, join_with_invite, preview_invite, client_of, account_of, jid_list,
       jid_from_required_wire, jid_parse, Check, groups_create_group, groups_join_with_invite,
       groups_preview_invite, Call, Plain, Answer
  <1> HIDE DEF a, c, g, j, p, z
  <1>4. Plans[r] \in Seq(All)
    <2>1. \A x \in All : <<x>> \in Seq(All)
      OBVIOUS
    <2>2. \A s, t \in Seq(All) : s \o t \in Seq(All)
      OBVIOUS
    <2>3. a \in All /\ c \in All /\ g \in All /\ j \in All /\ p \in All /\ z \in All
      BY Zenon
    <2> HIDE DEF All
    <2>4. <<a>> \o <<c>> \o <<g>> \o <<z>> \in Seq(All)
      BY Zenon, <2>1, <2>2, <2>3
    <2>5. <<a>> \o <<j>> \o <<z>> \in Seq(All)
      BY Zenon, <2>1, <2>2, <2>3
    <2>6. <<a>> \o <<p>> \o <<z>> \in Seq(All)
      BY Zenon, <2>1, <2>2, <2>3
    <2> QED
      BY Zenon, <1>1, <1>3, <2>4, <2>5, <2>6
  <1>5. Plans[r][i] \in All
    <2> HIDE DEF All
    <2> QED
      BY <1>4
  <1> QED
    BY Zenon, <1>2, <1>5

-----------------------------------------------------------------------------
(* The answer to a library error, and the error.                           *)
(* Causes with a code of the server, the first of them, the codes that are *)
(* answered with a status of their own, and what an answer of the handler r *)
(* that invites a retry says of the chain of causes.                        *)
Coded(c) ==
  \/ c[1] \in {"server_error_code", "client_iq", "wacore_iq", "description_conflict"}
  \/ c[1] = "graph_ql" /\ c[2] < 2 ^ 16
Least(S) == CHOOSE i \in S : \A j \in S : i <= j
Told == {400, 401, 403, 404, 405, 429}
Honest(r, chain) ==
  LET coded == {i \in DOMAIN chain : Coded(chain[i])} IN
  IF coded # {} THEN chain[Least(coded)][2] \notin Told
  ELSE \A i \in DOMAIN chain :
         \/ chain[i][1] \in {"graph_ql", "opaque", "newsletter_invalid"}
         \/ chain[i][1] = "group_invalid" /\ r \notin Telling

(* The causes of a library error, and the first of them with a code.       *)
LEMMA CauseIs ==
  ASSUME NEW c \in Causes
  PROVE  /\ iq_server_rejection(c) # NoCode <=> Coded(c)
         /\ Coded(c) /\ iq_server_rejection(c) \notin Told => c[2] \notin Told
         /\ ~Coded(c) /\ ~invalid_request_message(c) => c[1] \in {"graph_ql", "opaque"}
         /\ c[1] \notin {"group_invalid", "newsletter_not_found", "blocking_jid"}
  <1>1. CASE c[1] \in {"server_error_code", "client_iq", "wacore_iq"}
    <2>1. c[2] # 0
      BY <1>1 DEF Causes
    <2> QED
      BY <1>1, <2>1 DEF iq_server_rejection, Coded, NoCode
  <1>2. CASE c[1] = "description_conflict"
    <2>1. c[2] = 0
      BY <1>2 DEF Causes
    <2> QED
      BY <1>2, <2>1 DEF iq_server_rejection, Coded, NoCode, Told
  <1>3. CASE c[1] = "graph_ql"
    <2>1. c[2] # 0
      BY <1>3 DEF Causes
    <2> DEFINE small == c[2] < 2 ^ 16
    <2>2. iq_server_rejection(c) = IF small THEN c[2] ELSE NoCode
      BY Zenon, <1>3 DEF iq_server_rejection, mex_server_rejection
    <2>3. Coded(c) <=> small
      BY Zenon, <1>3 DEF Coded
    <2> HIDE DEF small
    <2> QED
      BY <1>3, <2>1, <2>2, <2>3 DEF NoCode
  <1>4. CASE c[1] \in {"invalid_poll", "app_state_invalid", "opaque"}
    BY Zenon, <1>4 DEF iq_server_rejection, mex_server_rejection, Coded, NoCode, invalid_request_message
  <1> QED
    BY <1>1, <1>2, <1>3, <1>4 DEF Causes

LEMMA LeastIs ==
  ASSUME NEW S \in SUBSET {1, 2}, S # {}
  PROVE  Least(S) \in S
  <1>1. \E i \in S : \A j \in S : i <= j
    <2>1. CASE 1 \in S
      BY <2>1
    <2>2. CASE 1 \notin S
      <3>1. S = {2}
        BY Zenon, <2>2
      <3> QED
        BY <3>1
    <2> QED
      BY Zenon, <2>1, <2>2
  <1> QED
    BY Zenon, <1>1 DEF Least

(* client_err answers unavailable honestly. *)
LEMMA ClientHonest ==
  ASSUME NEW chain, DOMAIN chain \in SUBSET {1, 2}, \A i \in DOMAIN chain : chain[i] \in Causes,
         Status(client_err(chain)) = "unavailable", NEW r
  PROVE  Honest(r, chain)
  <1> DEFINE coded == {i \in DOMAIN chain : Coded(chain[i])}
  <1>1. coded = {i \in DOMAIN chain : iq_server_rejection(chain[i]) # NoCode}
    BY Zenon, CauseIs
  <1>2. client_err(chain) =
          IF coded # {} THEN <<"WaServer", iq_server_rejection(chain[Least(coded)])>>
          ELSE <<IF \E i \in DOMAIN chain : invalid_request_message(chain[i])
                 THEN "InvalidArgument" ELSE "Client", 0>>
    <2> DEFINE rejected == {i \in DOMAIN chain : iq_server_rejection(chain[i]) # NoCode}
    <2>1. client_err(chain) =
            IF rejected # {} THEN <<"WaServer", iq_server_rejection(chain[Least(rejected)])>>
            ELSE <<IF \E i \in DOMAIN chain : invalid_request_message(chain[i])
                   THEN "InvalidArgument" ELSE "Client", 0>>
      BY Zenon DEF client_err, Least
    <2>2. rejected = coded
      BY Zenon, <1>1
    <2> HIDE DEF rejected, coded
    <2> QED
      BY Zenon, <2>1, <2>2
  <1>3. CASE coded # {}
    <2>1. Least(coded) \in coded
      BY Zenon, <1>3, LeastIs
    <2>2. PICK i \in DOMAIN chain : i = Least(coded) /\ Coded(chain[i])
      BY Zenon, <2>1
    <2>3. client_err(chain) = <<"WaServer", iq_server_rejection(chain[i])>>
      BY Zenon, <1>2, <1>3, <2>2
    <2>4. wa_server_status(iq_server_rejection(chain[i])) = "unavailable"
      BY <2>3 DEF Status
    <2>5. iq_server_rejection(chain[i]) \notin Told
      BY <2>4 DEF wa_server_status, Told
    <2>6. chain[i][2] \notin Told
      BY Zenon, <2>2, <2>5, CauseIs
    <2> QED
      BY Zenon, <1>3, <2>2, <2>6 DEF Honest
  <1>4. CASE coded = {}
    <2>1. ~\E i \in DOMAIN chain : invalid_request_message(chain[i])
      BY <1>2, <1>4 DEF Status
    <2>2. \A i \in DOMAIN chain : ~Coded(chain[i])
      BY Zenon, <1>4
    <2>3. \A i \in DOMAIN chain : chain[i][1] \in {"graph_ql", "opaque"}
      BY Zenon, <2>1, <2>2, CauseIs
    <2> QED
      BY Zenon, <1>4, <2>3 DEF Honest
  <1> QED
    BY Zenon, <1>3, <1>4

(* So does every other reading of a library error that answers             *)
(* unavailable.                                                            *)
LEMMA FailHonest ==
  ASSUME NEW x, x.do \in Calls, Fits(x), NEW chain \in Chains(x.on),
         Status(ReadBy(x.err, chain)) = "unavailable",
         NEW r, r \in Telling => x.on \in Groups
  PROVE  Honest(r, chain)
  <1>1. \/ /\ DOMAIN chain \in SUBSET {1, 2} /\ \A i \in DOMAIN chain : chain[i] \in Causes
           /\ Head(chain) \in Causes
        \/ \E c \in Outer(x.on) : chain = <<c>>
    <2>1. CASE \E c \in Causes : chain = <<c>>
      BY <2>1
    <2>2. CASE \E c, d \in Causes : chain = <<c, d>>
      <3>1. PICK c \in Causes, d \in Causes : chain = <<c, d>>
        BY Zenon, <2>2
      <3>2. DOMAIN chain = {1, 2} /\ chain[1] = c /\ chain[2] = d /\ Head(chain) = c
        BY <3>1
      <3> QED
        BY Zenon, <3>2
    <2>3. CASE \E c \in Outer(x.on) : chain = <<c>>
      BY Zenon, <2>3
    <2> QED
      BY <2>1, <2>2, <2>3 DEF Chains
  <1>2. CASE \E c \in Outer(x.on) : chain = <<c>>
    <2>1. PICK c \in Outer(x.on) : chain = <<c>>
      BY Zenon, <1>2
    <2>2. Head(chain) = c
      BY <2>1
    <2>3. \/ x.on \in Groups /\ c[1] = "group_invalid"
          \/ x.on \notin Groups /\ c[1] = "group_invalid"
          \/ x.on \in Channels /\ c[1] = "newsletter_not_found"
          \/ c[1] = "newsletter_invalid"
          \/ x.on \in Blocks /\ c[1] = "blocking_jid"
      BY <2>1 DEF Outer, Channels, Blocks
    <2>4. CASE \/ x.on \in Groups /\ c[1] = "group_invalid"
               \/ x.on \in Channels /\ c[1] = "newsletter_not_found"
               \/ x.on \in Blocks /\ c[1] = "blocking_jid"
      <3>1. ReadBy(x.err, chain) \in {<<"InvalidArgument", 0>>, <<"FailedPrecondition", 0>>,
                                      <<"NotFound", 0>>}
        BY Zenon, <2>2, <2>4 DEF Fits, ReadBy, local_refusal, newsletter_err, blocking_err
      <3>2. Status(ReadBy(x.err, chain)) # "unavailable"
        BY <3>1 DEF Status
      <3> QED
        BY Zenon, <3>2
    <2>5. CASE (x.on \notin Groups /\ c[1] = "group_invalid") \/ c[1] = "newsletter_invalid"
      <3>1. DOMAIN chain = {1} /\ chain[1] = c
        BY <2>1
      <3>2. ~Coded(c)
        BY Zenon, <2>5 DEF Coded
      <3>3. {i \in DOMAIN chain : Coded(chain[i])} = {}
        BY Zenon, <3>1, <3>2
      <3>4. \A i \in DOMAIN chain : \/ chain[i][1] = "newsletter_invalid"
                                    \/ chain[i][1] = "group_invalid" /\ r \notin Telling
        BY <2>5, <3>1, SMTT(30)
      <3> QED
        BY Zenon, <3>3, <3>4 DEF Honest
    <2> QED
      BY Zenon, <2>3, <2>4, <2>5
  <1>3. CASE /\ DOMAIN chain \in SUBSET {1, 2} /\ \A i \in DOMAIN chain : chain[i] \in Causes
             /\ Head(chain) \in Causes
    <2>1. Head(chain)[1] \notin {"group_invalid", "newsletter_not_found", "blocking_jid"}
      BY Zenon, <1>3, CauseIs
    <2>2. ReadBy(x.err, chain) = client_err(chain)
      BY Zenon, <2>1 DEF ReadBy, local_refusal, newsletter_err, blocking_err
    <2> QED
      BY Zenon, <1>3, <2>2, ClientHonest
  <1> QED
    BY Zenon, <1>1, <1>2, <1>3

(* HonestErrors through the definitions above.                             *)
LEMMA HonestIs == HonestErrors <=> (answer.status = "unavailable" => Honest(rpc, cause))
  BY Zenon DEF HonestErrors, Honest, Coded, Least, Told, Telling

LEMMA HonestInit == RequestInit => HonestErrors
  BY HonestIs DEF RequestInit, NoAnswer

LEMMA HonestNext == Placed /\ HonestErrors /\ (Arrives \/ RequestNext) => HonestErrors'
  <1> SUFFICES ASSUME Placed, HonestErrors, Arrives \/ RequestNext PROVE HonestErrors'
    OBVIOUS
  <1>0. HonestErrors' <=> (answer'.status = "unavailable" => Honest(rpc', cause'))
    BY Zenon DEF HonestErrors, Honest, Coded, Least, Told, Telling
  <1>1. /\ answer'.status # "unavailable" => HonestErrors'
        /\ answer' = answer /\ cause' = cause /\ rpc' = rpc => HonestErrors'
    BY Zenon, <1>0, HonestIs
  <1>2. \A e : Refuse(<<e, 0>>) /\ e \notin {"WaServer", "Client"} => answer'.status # "unavailable"
    BY Zenon DEF Refuse, NoAnswer, Status
  <1>3. CASE TakeAccount \/ CheckField \/ Stage \/ ReadLocally
    <2>1. cause' = cause /\ rpc' = rpc
      BY Zenon, <1>3 DEF TakeAccount, CheckField, Stage, ReadLocally
    <2>2. answer' = answer \/ \E e : e \notin {"WaServer", "Client"} /\ Refuse(<<e, 0>>)
      BY Zenon, <1>3 DEF TakeAccount, CheckField, Stage, ReadLocally, Go
    <2> QED
      BY Zenon, <1>1, <1>2, <2>1, <2>2
  <1>4. CASE OpenVote \/ BeginCall \/ Returned \/ Dropped \/ AccountMoves
             \/ (\E id \in {"stanza", "empty"} : Sent(id)) \/ (\E v \in 1 .. Votes : Learns(v))
             \/ (\E lost \in BOOLEAN : publish_sent(lost))
    BY Zenon, <1>1, <1>4 DEF OpenVote, BeginCall, Returned, Dropped, AccountMoves, Sent, Learns,
       publish_sent, Go
  <1>5. CASE Respond
    BY Zenon, <1>1, <1>5 DEF Respond
  <1>6. CASE Arrives
    <2>1. rpc = "none" /\ answer' = answer
      BY Zenon, <1>6 DEF Arrives, Receive
    <2>2. answer'.status # "unavailable"
      BY <2>1 DEF Placed, Untouched, NoAnswer
    <2> QED
      BY Zenon, <1>1, <2>2
  <1>7. ASSUME doing = "calling", NEW chain, Failed(chain) PROVE HonestErrors'
    <2>1. rpc \in Rpcs /\ step \in DOMAIN plan /\ plan[step].do \in Calls
      BY Zenon, <1>7 DEF Placed, Untouched
    <2>2. Fits(plan[step])
      BY Zenon, <2>1, PlansRead DEF plan
    <2>3. /\ chain \in Chains(plan[step].on) /\ cause' = chain
          /\ answer'.status = Status(ReadBy(plan[step].err, chain)) /\ rpc' = rpc
      BY Zenon, <1>7 DEF Failed, Refuse, NoAnswer
    <2>4. rpc \in Telling => plan[step].on \in Groups
      BY Zenon, <2>1, TellingCalls DEF plan
    <2> QED
      BY Zenon, <1>0, <2>1, <2>2, <2>3, <2>4, FailHonest
  <1> QED
    BY Zenon, <1>3, <1>4, <1>5, <1>6, <1>7 DEF RequestNext, Handler
=============================================================================
