--------------------------- MODULE AskPath_proof ---------------------------
(***************************************************************************)
(* Proofs about AskPath for any skills, pages, configurations and EVALs,   *)
(* and any size of the cache: types, OnePage, FreshEnough, Backfilled and  *)
(* Disclosed.                                                              *)
(*                                                                         *)
(* All four follow from what each point of a run knows (SourceOK and       *)
(* ReplyOK), which speak of the run's own record alone: the surroundings   *)
(* cannot touch it.  Of what is shared only the clock matters: no entry    *)
(* of the cache is from the future (CacheOK).                              *)
(***************************************************************************)
EXTENDS AskPath, TLAPS

Origins == {"nothing", "kb", "fixture", "demand"}
Working == Modes \cup {"fetch", "extract", "store", "extracted"}

SourceRecords ==
  [from : Origins, page : Pages \cup {NoPage}, schema : Skills \cup {NoSkill},
   read : Nat, age : Nat]
Tiers == 0..5
AnswerKinds == {"none", "error", "nothing", "passages", "summary", "evasion", "refusal", "filtered",
                "unavailable", "generated"}
Artifacts == Origins \cup {"none"}
Replies == [tier : Tiers, answer : AnswerKinds, artifact : Artifacts, disclosed : BOOLEAN]
Places == Working \cup {"idle", "asked", "routed", "retrieved", "answered", "done"}
RunStates ==
  [pc : Places,
   skill : Skills \cup {NoSkill}, page : Pages \cup {NoPage}, url : BOOLEAN,
   cfg : Configs \cup {NoConfig}, got : SourceRecords, reply : Replies]
Entries == [schema : Skills \cup {NoSkill}, read : Nat, at : Nat, ttl : Nat]

TypeOK ==
  /\ rows \in [Skills -> Configs \cup {NoConfig}]
  /\ wiki \subseteq Pages /\ live \subseteq Pages
  /\ cache \in [Pages -> Entries \cup {NoEntry}]
  /\ now \in Nat /\ slowest \in Nat /\ changes \in Nat
  /\ runs \in [Runners -> RunStates]

\* An entry of the cache is not from the future, and its page was read no longer
\* before than an extraction has taken.
Dated(entry, t, most) ==
  entry.at <= t /\ entry.read <= entry.at /\ entry.at - entry.read <= most
CacheOK == \A p \in Cached : Dated(cache[p], now, slowest)

\* What a run knows of its source, from its configuration on, at time t and when no
\* extraction has taken longer than "most".
SourceOK(run, t, most) ==
  /\ run.pc \in Working => run.cfg \in Configs
  /\ run.pc \in {"generic", "pinned"} => run.cfg.mode = run.pc
  /\ run.pc \in {"param", "fetch", "extract", "store"} =>
       /\ run.page \in Pages /\ run.cfg.mode \in {"pinned", "param"}
       /\ run.cfg.mode = "pinned" => run.page = run.cfg.page
  /\ run.pc \in {"extract", "store"} =>
       run.got.from = "demand" /\ run.got.page = run.page /\ run.got.age = 0
       /\ run.got.read <= t
  /\ run.pc = "extracted" /\ run.got.from \in {"kb", "demand"} =>
       /\ run.cfg.mode = "pinned" => run.got.page = run.cfg.page
       /\ run.cfg.mode = "param" => run.got.page = run.page
       /\ run.got.from = "demand" => run.got.age <= run.cfg.ttl + most

\* A reply that does not contradict itself and hides nothing.
Sound(reply) ==
  /\ reply.artifact # "none" =>
       /\ reply.tier = 1 /\ reply.answer \in {"summary", "evasion", "generated"}
       /\ reply.disclosed <=> reply.artifact = "demand"
  /\ reply.answer = "unavailable" => reply.tier = 4 /\ reply.artifact = "none"

\* What the question knows of its reply.
ReplyOK(run) ==
  /\ Sound(run.reply)
  /\ run.pc # "done" => run.reply.artifact = "none"
  /\ run.pc \in {"asked", "routed"} => run.reply.answer = "none"
  /\ run.pc = "retrieved" => run.reply.answer \in {"nothing", "passages"}
  /\ run.pc = "answered" =>
       /\ run.reply.answer \in {"nothing", "summary", "evasion", "refusal", "filtered"}
       /\ run.reply.answer = "filtered" => run.reply.tier = 4
  /\ run.pc \in Working =>
       run.reply.tier = 1 /\ run.reply.answer \in {"nothing", "summary", "evasion", "refusal"}

RunOK(r, run, t, most) ==
  run \in RunStates /\ SourceOK(run, t, most) /\ (r = Asker => ReplyOK(run))

IndInv == TypeOK /\ CacheOK /\ \A r \in Runners : RunOK(r, runs[r], now, slowest)

----------------------------------------------------------------------------
(* One run moves. *)

Becomes(r, x) == RunOK(r, x, now, slowest) /\ runs' = [runs EXCEPT ![r] = x]

LEMMA Names ==
  /\ Tiers = 0..5 /\ 0 \in Tiers /\ 1 \in Tiers /\ 4 \in Tiers /\ 1..5 \subseteq Tiers
  /\ \A a \in {"none", "error", "nothing", "passages", "summary", "evasion", "refusal", "filtered",
               "unavailable", "generated"} : a \in AnswerKinds
  /\ "none" \in Artifacts /\ Origins \subseteq Artifacts
  /\ \A o \in {"nothing", "kb", "fixture", "demand"} : o \in Origins
  /\ \A pc \in {"generic", "pinned", "param", "fetch", "extract", "store", "extracted", "idle",
                "asked", "routed", "retrieved", "answered", "done"} : pc \in Places
BY DEF Tiers, AnswerKinds, Artifacts, Origins, Places, Working, Modes

\* What the records are that the actions write.
LEMMA ReplyUpdates ==
  ASSUME NEW x \in Replies, NEW t \in Tiers, NEW a \in AnswerKinds
  PROVE  /\ [x EXCEPT !.answer = a] \in Replies
         /\ [x EXCEPT !.tier = t] \in Replies
         /\ [x EXCEPT !.tier = t, !.answer = a] \in Replies
BY DEF Replies

LEMMA Shapes ==
  /\ Configs \subseteq ConfigShape
  /\ \A s \in Skills : Disk[s] \in Configs \cup {NoConfig}
  /\ NoSource \in SourceRecords /\ NoReply \in Replies /\ Idle \in RunStates
  /\ Asker \in Runners
<1>1. NoSource \in SourceRecords /\ NoReply \in Replies
  BY Names DEF NoSource, SourceRecords, NoReply, Replies
<1>2. Idle \in RunStates
  BY <1>1, Names DEF Idle, RunStates
<1> QED
  BY <1>1, <1>2, ConfigsAssumption DEF Runners

\* The records of runs that the actions write.
LEMMA Placed ==
  ASSUME NEW x \in RunStates, NEW pc \in Places
  PROVE  [x EXCEPT !.pc = pc] \in RunStates
BY DEF RunStates

LEMMA Directed ==
  ASSUME NEW x \in RunStates, NEW pc \in Places, NEW p \in Pages \cup {NoPage}, NEW u \in BOOLEAN
  PROVE  [x EXCEPT !.pc = pc, !.page = p, !.url = u] \in RunStates
BY DEF RunStates

LEMMA Replied ==
  ASSUME NEW x \in RunStates, NEW pc \in Places, NEW w \in Replies
  PROVE  [x EXCEPT !.pc = pc, !.reply = w] \in RunStates
BY DEF RunStates

LEMMA Sent ==
  ASSUME NEW x \in RunStates, NEW pc \in Places, NEW s \in Skills \cup {NoSkill}, NEW w \in Replies
  PROVE  [x EXCEPT !.pc = pc, !.skill = s, !.reply = w] \in RunStates
BY DEF RunStates

LEMMA Configured ==
  ASSUME NEW x \in RunStates, NEW pc \in Places, NEW c \in Configs \cup {NoConfig},
         NEW s \in Skills \cup {NoSkill}, NEW p \in Pages \cup {NoPage}
  PROVE  /\ [x EXCEPT !.pc = pc, !.cfg = c] \in RunStates
         /\ [x EXCEPT !.pc = pc, !.skill = s, !.page = p, !.cfg = c] \in RunStates
BY DEF RunStates

LEMMA Got ==
  ASSUME NEW x \in RunStates, NEW pc \in Places, NEW g \in SourceRecords
  PROVE  [x EXCEPT !.pc = pc, !.got = g] \in RunStates
BY DEF RunStates

LEMMA RunFacts ==
  ASSUME IndInv, NEW r \in Runners
  PROVE  RunOK(r, runs[r], now, slowest) /\ runs[r] \in RunStates
BY DEF IndInv, RunOK

\* Time that passes does not harm what a run knows.
LEMMA Later ==
  ASSUME NEW r \in Runners, NEW y, NEW t \in Nat, NEW u \in Nat, NEW most \in Nat,
         NEW longest \in Nat, RunOK(r, y, t, most), t <= u, most <= longest
  PROVE  RunOK(r, y, u, longest)
<1>1. y \in RunStates /\ y.got.read \in Nat /\ y.got.age \in Nat
  BY DEF RunOK, RunStates, SourceRecords
<1>2. y.pc = "extracted" => y.cfg \in Configs /\ y.cfg.ttl \in Nat
  BY Shapes DEF RunOK, SourceOK, Working, ConfigShape
<1>3. SourceOK(y, u, longest)
  BY <1>1, <1>2 DEF RunOK, SourceOK
<1> QED
  BY <1>1, <1>3 DEF RunOK

LEMMA MoveInv ==
  ASSUME IndInv, NEW r \in Runners, NEW x, Becomes(r, x), UNCHANGED <<world, now>>,
         slowest' \in Nat, slowest <= slowest',
         cache' \in [Pages -> Entries \cup {NoEntry}], CacheOK'
  PROVE  IndInv'
<1>1. runs \in [Runners -> RunStates] /\ x \in RunStates
  BY DEF IndInv, TypeOK, Becomes, RunOK
<1>2. /\ runs' \in [Runners -> RunStates] /\ runs'[r] = x
      /\ \A s \in Runners : s # r => runs'[s] = runs[s]
  BY <1>1 DEF Becomes
<1>3. TypeOK' /\ now \in Nat /\ slowest \in Nat /\ now' = now
  BY <1>2 DEF IndInv, TypeOK, world
<1>4. ASSUME NEW s \in Runners PROVE RunOK(s, runs'[s], now', slowest')
  <2>1. RunOK(s, runs'[s], now, slowest)
    BY <1>2 DEF IndInv, Becomes
  <2> QED
    BY <1>3, <2>1, Later
<1> QED
  BY <1>3, <1>4 DEF IndInv

LEMMA QuietMove ==
  ASSUME IndInv, NEW r \in Runners, \E x : Becomes(r, x), UNCHANGED <<world, cache, now, slowest>>
  PROVE  IndInv'
<1>1. /\ cache' \in [Pages -> Entries \cup {NoEntry}] /\ CacheOK'
      /\ slowest' \in Nat /\ slowest <= slowest'
  BY DEF IndInv, TypeOK, CacheOK, Cached, Dated
<1> QED
  BY <1>1, MoveInv

LEMMA EndsMove ==
  ASSUME NEW r \in Runners, NEW reply \in Replies, Sound(reply), Ends(r, reply)
  PROVE  \E x : Becomes(r, x)
<1> DEFINE x == IF r = Asker THEN [Idle EXCEPT !.pc = "done", !.reply = reply] ELSE Idle
<1>1. x \in RunStates
  BY Shapes, Names, Replied
<1>2. SourceOK(x, now, slowest) /\ (r = Asker => ReplyOK(x))
  BY DEF Idle, SourceOK, ReplyOK, Working, Modes
<1>3. runs' = [runs EXCEPT ![r] = x]
  BY DEF Ends
<1> HIDE DEF x
<1> QED
  BY <1>1, <1>2, <1>3 DEF Becomes, RunOK

LEMMA FailsMove ==
  ASSUME NEW r \in Runners, Fails(r)
  PROVE  \E x : Becomes(r, x)
<1> DEFINE reply == [NoReply EXCEPT !.answer = "error"]
<1>1. reply \in Replies /\ Sound(reply)
  BY Names, Shapes, ReplyUpdates DEF NoReply, Sound
<1>2. Ends(r, reply)
  BY DEF Fails
<1> QED
  BY <1>1, <1>2, EndsMove

LEMMA UnavailableMove ==
  ASSUME IndInv, NEW r \in Runners, Unavailable(r), r = Asker => runs[r].reply.artifact = "none"
  PROVE  \E x : Becomes(r, x)
<1> DEFINE reply == [runs[r].reply EXCEPT !.tier = 4, !.answer = "unavailable"]
<1>1. runs[r].reply \in Replies
  BY RunFacts DEF RunStates
<1>2. reply \in Replies
  BY <1>1, Names, ReplyUpdates
<1>3. CASE r = Asker
  <2>1. Sound(reply)
    BY <1>1, <1>3 DEF Sound, Replies
  <2> QED
    BY <1>2, <2>1, EndsMove DEF Unavailable
<1>4. CASE r # Asker
  <2>1. runs' = [runs EXCEPT ![r] = Idle]
    BY <1>4 DEF Unavailable, Ends
  <2>2. RunOK(r, Idle, now, slowest)
    BY <1>4, Shapes DEF RunOK, SourceOK, Idle, Working, Modes
  <2> QED
    BY <2>1, <2>2 DEF Becomes
<1> QED
  BY <1>3, <1>4

----------------------------------------------------------------------------
(* The question. *)

LEMMA AskInv ==
  ASSUME IndInv, NEW page \in Pages \cup {NoPage}, NEW url \in BOOLEAN, Ask(page, url)
  PROVE  IndInv'
<1> DEFINE x == [Idle EXCEPT !.pc = "asked", !.page = page, !.url = url]
<1>1. x \in RunStates
  BY Shapes, Names, Directed
<1>2. SourceOK(x, now, slowest) /\ ReplyOK(x)
  BY DEF SourceOK, ReplyOK, Sound, Idle, NoReply, Working, Modes
<1>3. Becomes(Asker, x)
  BY <1>1, <1>2 DEF Ask, Becomes, RunOK
<1> QED
  BY <1>3, QuietMove, Shapes DEF Ask

LEMMA ClassifyInv ==
  ASSUME IndInv, Classify
  PROVE  IndInv'
<1>1. \E x : Becomes(Asker, x)
  <2>1. ASSUME NEW tier \in 1..5, NEW s \in Skills \cup {NoSkill},
               runs' = [runs EXCEPT ![Asker].pc = "routed", ![Asker].skill = s,
                                    ![Asker].reply.tier = tier]
        PROVE  \E x : Becomes(Asker, x)
    <3> DEFINE w == [runs[Asker].reply EXCEPT !.tier = tier]
               x == [runs[Asker] EXCEPT !.pc = "routed", !.skill = s, !.reply = w]
    <3>1. runs[Asker] \in RunStates /\ runs[Asker].reply \in Replies
      BY Shapes, RunFacts DEF RunStates
    <3>2. runs' = [runs EXCEPT ![Asker] = x]
      BY <2>1, <3>1, Shapes DEF RunStates
    <3>3. runs[Asker].reply.artifact = "none" /\ runs[Asker].reply.answer = "none"
      BY Shapes, RunFacts DEF Classify, At, RunOK, ReplyOK
    <3>4. w \in Replies
      BY <3>1, Names, ReplyUpdates
    <3>5. w \in Replies /\ w.artifact = "none" /\ w.answer = "none"
      BY <3>1, <3>3, <3>4 DEF Replies
    <3> HIDE DEF w
    <3>6. x \in RunStates /\ x.pc = "routed" /\ x.reply = w
      BY <3>1, <3>5, Names, Sent DEF RunStates
    <3> HIDE DEF x
    <3>7. SourceOK(x, now, slowest) /\ ReplyOK(x)
      BY <3>5, <3>6 DEF SourceOK, ReplyOK, Sound, Working, Modes
    <3> QED
      BY <3>2, <3>6, <3>7 DEF Becomes, RunOK
  <2> QED
    BY <2>1, FailsMove, Shapes DEF Classify
<1> QED
  BY <1>1, QuietMove, Shapes DEF Classify

LEMMA RetrievedMove ==
  ASSUME IndInv, At(Asker, "routed"), NEW found \in {"nothing", "passages"}, Retrieved(found)
  PROVE  \E x : Becomes(Asker, x)
<1> DEFINE y == runs[Asker]
           w == [y.reply EXCEPT !.answer = found]
           x == [y EXCEPT !.pc = "retrieved", !.reply = w]
<1>1. y \in RunStates /\ y.reply \in Replies /\ y.reply.artifact = "none"
  BY Shapes, RunFacts DEF RunStates, At, RunOK, ReplyOK
<1>2. runs' = [runs EXCEPT ![Asker] = x]
  BY <1>1, Shapes DEF Retrieved, RunStates
<1>3. found \in AnswerKinds
  BY Names
<1>4. w \in Replies /\ w.artifact = "none" /\ w.answer = found
  BY <1>1, <1>3, ReplyUpdates DEF Replies
<1> HIDE DEF w
<1>5. x \in RunStates /\ x.pc = "retrieved" /\ x.reply = w
  BY <1>1, <1>4, Names, Replied DEF RunStates
<1> HIDE DEF x
<1>6. SourceOK(x, now, slowest) /\ ReplyOK(x)
  BY <1>4, <1>5 DEF SourceOK, ReplyOK, Sound, Working, Modes
<1> QED
  BY <1>2, <1>5, <1>6 DEF Becomes, RunOK

LEMMA RetrieveInv ==
  ASSUME IndInv, RetrieveOne \/ FanOut \/ Miss
  PROVE  IndInv'
<1>1. \E x : Becomes(Asker, x)
  BY RetrievedMove, FailsMove, Shapes DEF RetrieveOne, FanOut, Miss, PersonaSkill
<1> QED
  BY <1>1, QuietMove, Shapes DEF RetrieveOne, FanOut, Miss

\* The question has an answer of the model, and a reply with no artifact yet.
Answered(w) ==
  /\ runs' = [runs EXCEPT ![Asker].pc = "answered", ![Asker].reply = w]
  /\ w \in Replies /\ w.artifact = "none"
  /\ w.answer \in {"nothing", "summary", "evasion", "refusal", "filtered"}
  /\ w.answer = "filtered" => w.tier = 4

LEMMA SynthesizeMove ==
  ASSUME IndInv, Synthesize
  PROVE  \E x : Becomes(Asker, x)
<1> DEFINE y == runs[Asker]
<1>1. /\ y \in RunStates /\ y.reply \in Replies /\ y.reply.artifact = "none"
      /\ y.reply.answer \in {"nothing", "passages"} /\ RunOK(Asker, y, now, slowest)
  BY Shapes, RunFacts DEF RunStates, Synthesize, At, RunOK, ReplyOK
<1>2. ASSUME NEW w, Answered(w)
      PROVE  \E x : Becomes(Asker, x)
  <2> DEFINE x == [y EXCEPT !.pc = "answered", !.reply = w]
  <2>1. runs' = [runs EXCEPT ![Asker] = x]
    BY <1>1, <1>2, Shapes DEF RunStates, Answered
  <2>2. x \in RunStates /\ x.pc = "answered" /\ x.reply = w
    BY <1>1, <1>2, Names, Replied DEF RunStates, Answered
  <2> HIDE DEF x
  <2>3. SourceOK(x, now, slowest) /\ ReplyOK(x)
    BY <1>2, <2>2 DEF Answered, SourceOK, ReplyOK, Sound, Working, Modes
  <2> QED
    BY <2>1, <2>2, <2>3 DEF Becomes, RunOK
<1>3. CASE y.reply.answer = "nothing" /\ To(Asker, "answered")
  <2>1. runs' = [runs EXCEPT ![Asker].pc = "answered", ![Asker].reply = y.reply]
    BY <1>1, <1>3, Shapes DEF To, RunStates, IndInv, TypeOK
  <2>2. Answered(y.reply)
    BY <1>1, <1>3, <2>1 DEF Answered
  <2> QED
    BY <1>2, <2>2
<1>4. ASSUME NEW a \in {"summary", "evasion", "refusal", "nothing"},
             runs' = [runs EXCEPT ![Asker].pc = "answered", ![Asker].reply.answer = a]
      PROVE  \E x : Becomes(Asker, x)
  <2> DEFINE w == [y.reply EXCEPT !.answer = a]
  <2>1. a \in AnswerKinds
    BY Names
  <2>2. w \in Replies /\ w.artifact = "none" /\ w.answer = a
    BY <1>1, <2>1, ReplyUpdates DEF Replies
  <2>3. runs' = [runs EXCEPT ![Asker].pc = "answered", ![Asker].reply = w]
    BY <1>1, <1>4, Shapes DEF RunStates
  <2>4. Answered(w)
    BY <2>2, <2>3 DEF Answered
  <2> QED
    BY <1>2, <2>4
<1>5. CASE runs' = [runs EXCEPT ![Asker].pc = "answered",
                      ![Asker].reply = [NoReply EXCEPT !.tier = 4, !.answer = "filtered"]]
  <2> DEFINE w == [NoReply EXCEPT !.tier = 4, !.answer = "filtered"]
  <2>1. w \in Replies
    BY Names, Shapes, ReplyUpdates
  <2>2. w.artifact = "none" /\ w.answer = "filtered" /\ w.tier = 4
    BY DEF NoReply
  <2>3. runs' = [runs EXCEPT ![Asker].pc = "answered", ![Asker].reply = w]
    BY <1>5
  <2>4. Answered(w)
    BY <2>1, <2>2, <2>3 DEF Answered
  <2> QED
    BY <1>2, <2>4
<1>6. CASE Fails(Asker)
  BY <1>6, FailsMove, Shapes
<1> QED
  BY <1>3, <1>4, <1>5, <1>6 DEF Synthesize

LEMMA SynthesizeInv ==
  ASSUME IndInv, Synthesize
  PROVE  IndInv'
BY SynthesizeMove, QuietMove, Shapes DEF Synthesize

----------------------------------------------------------------------------
(* The configuration. *)

\* With a source to look for, the question has tier 1 and an answer to replace.
LEMMA BeginMove ==
  ASSUME IndInv, At(Asker, "answered"), runs[Asker].reply.tier = 1, NEW cfg \in Configs, Begin(cfg)
  PROVE  \E x : Becomes(Asker, x)
<1> DEFINE y == runs[Asker]
           x == [y EXCEPT !.pc = cfg.mode, !.cfg = cfg]
<1>1. /\ y \in RunStates /\ y.reply.artifact = "none" /\ ReplyOK(y)
      /\ y.reply.answer \in {"nothing", "summary", "evasion", "refusal"}
  BY Shapes, RunFacts DEF RunStates, At, RunOK, ReplyOK
<1>2. CASE cfg.mode = "param" /\ y.page = NoPage
  BY <1>1, <1>2, UnavailableMove, Shapes DEF Begin
<1>3. CASE ~(cfg.mode = "param" /\ y.page = NoPage)
  <2>1. runs' = [runs EXCEPT ![Asker] = x]
    BY <1>1, <1>3, Shapes DEF Begin, RunStates
  <2>2. cfg.mode \in Modes /\ cfg.mode \in Places
    BY Shapes DEF ConfigShape, Places, Working
  <2>3. x \in RunStates /\ x.pc = cfg.mode /\ x.cfg = cfg /\ x.reply = y.reply /\ x.page = y.page
    BY <1>1, <2>2, Configured DEF RunStates
  <2>4. cfg.mode = "param" => x.page \in Pages
    BY <1>1, <1>3, <2>3 DEF RunStates
  <2> HIDE DEF x
  <2>5. SourceOK(x, now, slowest)
    BY <2>2, <2>3, <2>4 DEF SourceOK, Modes
  <2>6. ReplyOK(x)
    BY <1>1, <2>2, <2>3 DEF ReplyOK, Modes
  <2> QED
    BY <2>1, <2>3, <2>5, <2>6 DEF Becomes, RunOK
<1> QED
  BY <1>2, <1>3

LEMMA LoadConfigMove ==
  ASSUME IndInv, LoadConfig
  PROVE  \E x : Becomes(Asker, x)
<1> DEFINE y == runs[Asker]
<1>1. y.reply \in Replies /\ Sound(y.reply) /\ y.skill \in Skills \cup {NoSkill}
  BY Shapes, RunFacts DEF RunStates, RunOK, ReplyOK
<1>2. CASE Ends(Asker, y.reply)
  BY <1>1, <1>2, EndsMove, Shapes
<1>3. ASSUME NEW read \in {rows[y.skill], NoConfig}, y.reply.tier = 1, y.skill # NoSkill,
             LET cfg == IF read = NoConfig THEN Disk[y.skill] ELSE read
             IN  IF cfg = NoConfig \/ (cfg # NoConfig /\ ~cfg.artifact)
                 THEN Ends(Asker, y.reply) ELSE Begin(cfg)
      PROVE  \E x : Becomes(Asker, x)
  <2> DEFINE cfg == IF read = NoConfig THEN Disk[y.skill] ELSE read
  <2>1. cfg \in Configs \cup {NoConfig}
    BY <1>1, <1>3, Shapes DEF IndInv, TypeOK
  <2>2. CASE Ends(Asker, y.reply)
    BY <1>2, <2>2
  <2>3. CASE cfg # NoConfig /\ Begin(cfg)
    BY <1>3, <2>1, <2>3, BeginMove DEF LoadConfig
  <2> QED
    BY <1>3, <2>2, <2>3
<1> QED
  BY <1>2, <1>3 DEF LoadConfig

LEMMA LoadConfigInv ==
  ASSUME IndInv, LoadConfig
  PROVE  IndInv'
BY LoadConfigMove, QuietMove, Shapes DEF LoadConfig

LEMMA EvaluateInv ==
  ASSUME IndInv, NEW e \in Evals, NEW s \in Skills, NEW page \in Pages, Evaluate(e, s, page)
  PROVE  IndInv'
<1> DEFINE cfg == rows[s]
           x == [Idle EXCEPT !.pc = cfg.mode, !.skill = s, !.page = page, !.cfg = cfg]
<1>1. cfg \in Configs /\ cfg.mode \in Modes /\ cfg.mode \in Places
  BY Shapes DEF Evaluate, IndInv, TypeOK, ConfigShape, Places, Working
<1>2. /\ x \in RunStates /\ x.pc = cfg.mode /\ x.cfg = cfg /\ x.page = page
      /\ x.reply = NoReply
  BY <1>1, Configured, Shapes DEF Idle
<1>3. runs' = [runs EXCEPT ![e] = x]
  BY DEF Evaluate
<1> HIDE DEF x
<1>4. SourceOK(x, now, slowest) /\ e # Asker
  BY <1>1, <1>2, NamesAssumption DEF SourceOK, Modes
<1>5. Becomes(e, x) /\ e \in Runners
  BY <1>2, <1>3, <1>4 DEF Becomes, RunOK, Runners
<1> QED
  BY <1>5, QuietMove DEF Evaluate

----------------------------------------------------------------------------
(* The executor. *)

\* A run that works keeps its reply.
LEMMA WorkMove ==
  ASSUME IndInv, NEW r \in Runners, runs[r].pc \in Working, NEW x \in RunStates, SourceOK(x, now, slowest),
         x.pc \in Working, x.reply = runs[r].reply, runs' = [runs EXCEPT ![r] = x]
  PROVE  \E z : Becomes(r, z)
<1>1. r = Asker => ReplyOK(x)
  BY RunFacts DEF RunOK, ReplyOK, Working, Modes
<1> QED
  BY <1>1 DEF Becomes, RunOK

LEMMA GivesUp ==
  ASSUME IndInv, NEW r \in Runners, runs[r].pc \in Working, Unavailable(r)
  PROVE  \E x : Becomes(r, x)
<1>1. r = Asker => runs[r].reply.artifact = "none"
  BY RunFacts DEF RunOK, ReplyOK, Working, Modes
<1> QED
  BY <1>1, UnavailableMove

LEMMA FoundMove ==
  ASSUME IndInv, NEW r \in Runners, runs[r].pc \in Working,
         NEW from \in Origins, NEW page \in Pages \cup {NoPage},
         NEW schema \in Skills \cup {NoSkill}, NEW age \in Nat, Found(r, from, page, schema, age),
         from \in {"kb", "demand"} =>
           /\ runs[r].cfg.mode = "pinned" => page = runs[r].cfg.page
           /\ runs[r].cfg.mode = "param" => page = runs[r].page
           /\ from = "demand" => age <= runs[r].cfg.ttl + slowest
  PROVE  \E x : Becomes(r, x)
<1> DEFINE y == runs[r]
           g == [from |-> from, page |-> page, schema |-> schema, read |-> 0, age |-> age]
           x == [y EXCEPT !.pc = "extracted", !.got = g]
<1>1. y \in RunStates /\ y.cfg \in Configs
  BY RunFacts DEF RunOK, SourceOK
<1>2. runs' = [runs EXCEPT ![r] = x]
  BY <1>1 DEF Found, RunStates
<1>3. g \in SourceRecords /\ g.from = from /\ g.page = page /\ g.age = age
  BY DEF SourceRecords
<1> HIDE DEF g
<1>4. /\ x \in RunStates /\ x.pc = "extracted" /\ x.got = g /\ x.cfg = y.cfg /\ x.page = y.page
      /\ x.reply = y.reply
  BY <1>1, <1>3, Names, Got DEF RunStates
<1> HIDE DEF x
<1>5. SourceOK(x, now, slowest) /\ x.pc \in Working
  BY <1>1, <1>3, <1>4 DEF SourceOK, Working
<1> QED
  BY <1>2, <1>4, <1>5, WorkMove

LEMMA GenericInv ==
  ASSUME IndInv, NEW r \in Runners, Generic(r)
  PROVE  IndInv'
<1>1. runs[r].pc \in Working /\ runs[r].cfg.mode = "generic"
  BY RunFacts DEF Generic, At, RunOK, SourceOK, Working, Modes
<1>2. ASSUME NEW p \in wiki, Found(r, "kb", p, NoSkill, 0) PROVE \E x : Becomes(r, x)
  <2>1. p \in Pages \cup {NoPage} /\ "kb" \in Origins
    BY Names DEF IndInv, TypeOK
  <2> QED
    BY <1>1, <1>2, <2>1, FoundMove
<1>3. ASSUME NEW from \in Fixtures, Found(r, from, NoPage, NoSkill, 0) PROVE \E x : Becomes(r, x)
  <2>1. from \in Origins /\ from \notin {"kb", "demand"}
    BY Names DEF Fixtures
  <2> QED
    BY <1>1, <1>3, <2>1, FoundMove
<1> QED
  BY <1>2, <1>3, QuietMove DEF Generic

LEMMA PinnedInv ==
  ASSUME IndInv, NEW r \in Runners, Pinned(r)
  PROVE  IndInv'
<1> DEFINE y == runs[r]
<1>1. /\ y.pc \in Working /\ y.cfg.mode = "pinned" /\ y \in RunStates /\ y.cfg \in Configs
      /\ y.cfg.page \in Pages \cup {NoPage}
  BY RunFacts, Shapes DEF Pinned, At, RunOK, SourceOK, Working, Modes, ConfigShape
<1>2. ASSUME NEW p \in PinnedMatches(r), Found(r, "kb", p, NoSkill, 0) PROVE \E x : Becomes(r, x)
  <2>1. p \in Pages \cup {NoPage} /\ "kb" \in Origins /\ p = y.cfg.page
    BY <1>1, Names DEF PinnedMatches
  <2> QED
    BY <1>1, <1>2, <2>1, FoundMove
<1>3. ASSUME y.cfg.page # NoPage, PinnedElse(r) PROVE \E x : Becomes(r, x)
  <2> DEFINE x == [y EXCEPT !.pc = "param", !.page = y.cfg.page, !.url = FALSE]
  <2>1. CASE Unavailable(r)
    BY <1>1, <2>1, GivesUp
  <2>2. CASE runs' = [runs EXCEPT ![r].pc = "param", ![r].page = y.cfg.page, ![r].url = FALSE]
    <3>1. runs' = [runs EXCEPT ![r] = x]
      BY <1>1, <2>2 DEF RunStates
    <3>2. /\ x \in RunStates /\ x.pc = "param" /\ x.page = y.cfg.page /\ x.cfg = y.cfg
          /\ x.reply = y.reply
      BY <1>1, Names, Directed DEF RunStates
    <3> HIDE DEF x
    <3>3. SourceOK(x, now, slowest) /\ x.pc \in Working
      BY <1>1, <1>3, <3>2 DEF SourceOK, Working, Modes
    <3> QED
      BY <1>1, <3>1, <3>2, <3>3, WorkMove
  <2> QED
    BY <1>3, <2>1, <2>2 DEF PinnedElse
<1>4. CASE Unavailable(r)
  BY <1>1, <1>4, GivesUp, QuietMove DEF Pinned
<1> QED
  BY <1>2, <1>3, <1>4, QuietMove DEF Pinned

\* On the way to a page on demand.
Demanding(y) ==
  /\ y \in RunStates /\ y.cfg \in Configs /\ y.page \in Pages /\ y.cfg.mode \in {"pinned", "param"}
  /\ y.cfg.mode = "pinned" => y.page = y.cfg.page
  /\ y.pc \in Working

LEMMA OnDemandFacts ==
  ASSUME IndInv, NEW r \in Runners, runs[r].pc \in {"param", "fetch", "extract", "store"}
  PROVE  /\ Demanding(runs[r])
         /\ runs[r].pc \in {"extract", "store"} =>
              /\ runs[r].got.from = "demand" /\ runs[r].got.page = runs[r].page
              /\ runs[r].got.age = 0 /\ runs[r].got.read <= now
BY RunFacts DEF Demanding, RunOK, SourceOK, Working, Modes

LEMMA LookupInv ==
  ASSUME IndInv, NEW r \in Runners, Lookup(r)
  PROVE  IndInv'
<1> DEFINE y == runs[r]
           p == y.page
           entry == cache[p]
<1>1. Demanding(y)
  BY OnDemandFacts DEF Lookup, At
<1>2. entry \in Entries \cup {NoEntry} /\ p \in Pages
  BY <1>1 DEF Demanding, IndInv, TypeOK
<1>3. CASE Unavailable(r) /\ UNCHANGED cache
  BY <1>1, <1>3, GivesUp, QuietMove DEF Lookup, Demanding
<1>4. ASSUME To(r, "fetch") PROVE \E x : Becomes(r, x)
  <2> DEFINE x == [y EXCEPT !.pc = "fetch"]
  <2>1. runs' = [runs EXCEPT ![r] = x]
    BY <1>1, <1>4 DEF To, Demanding, RunStates
  <2>2. /\ x \in RunStates /\ x.pc = "fetch" /\ x.page = p /\ x.cfg = y.cfg
        /\ x.reply = y.reply
    BY <1>1, Names, Placed DEF RunStates, Demanding
  <2> HIDE DEF x
  <2>3. SourceOK(x, now, slowest) /\ x.pc \in Working
    BY <1>1, <2>2 DEF SourceOK, Demanding, Working, Modes
  <2> QED
    BY <1>1, <2>1, <2>2, <2>3, WorkMove DEF Demanding
<1>5. CASE To(r, "fetch") /\ UNCHANGED cache
  BY <1>4, <1>5, QuietMove DEF Lookup
<1>6. CASE To(r, "fetch") /\ cache' = [cache EXCEPT ![p] = NoEntry]
  <2>1. /\ cache' \in [Pages -> Entries \cup {NoEntry}] /\ CacheOK'
        /\ slowest' \in Nat /\ slowest <= slowest' /\ now' = now /\ slowest' = slowest
    BY <1>2, <1>6 DEF IndInv, TypeOK, CacheOK, Cached, Lookup, Dated
  <2> QED
    BY <1>4, <1>6, <2>1, MoveInv DEF Lookup
<1>7. CASE /\ entry # NoEntry /\ ~Expired(entry, EffectiveTtl(entry, y.cfg))
           /\ Found(r, "demand", p, entry.schema, now - entry.read) /\ UNCHANGED cache
  <2>1. /\ entry \in Entries /\ Dated(entry, now, slowest) /\ now \in Nat /\ slowest \in Nat
        /\ y.cfg.ttl \in Nat
    BY <1>1, <1>2, <1>7, Shapes DEF IndInv, TypeOK, CacheOK, Cached, Demanding, ConfigShape
  <2>2. entry.at \in Nat /\ entry.read \in Nat /\ entry.ttl \in Nat /\ now - entry.at <= y.cfg.ttl
    BY <1>7, <2>1 DEF Entries, Expired, EffectiveTtl, Lowest, Dated
  <2>5. now - entry.read \in Nat /\ now - entry.read <= y.cfg.ttl + slowest
    BY <2>1, <2>2 DEF Dated
  <2>3. p \in Pages \cup {NoPage} /\ "demand" \in Origins /\ entry.schema \in Skills \cup {NoSkill}
    BY <1>2, <2>1, Names DEF Entries
  <2>4. \E x : Becomes(r, x)
    BY <1>1, <1>7, <2>3, <2>5, FoundMove DEF Demanding
  <2> QED
    BY <1>7, <2>4, QuietMove DEF Lookup
<1> QED
  BY <1>3, <1>5, <1>6, <1>7 DEF Lookup

LEMMA FetchInv ==
  ASSUME IndInv, NEW r \in Runners, Fetch(r)
  PROVE  IndInv'
<1> DEFINE y == runs[r]
           g == [from |-> "demand", page |-> y.page, schema |-> NoSkill, read |-> now, age |-> 0]
           x == [y EXCEPT !.pc = "extract", !.got = g]
<1>1. Demanding(y)
  BY OnDemandFacts DEF Fetch, At
<1>2. CASE Unavailable(r)
  BY <1>1, <1>2, GivesUp, QuietMove DEF Fetch, Demanding
<1>3. CASE runs' = [runs EXCEPT ![r].pc = "extract", ![r].got = g]
  <2>1. runs' = [runs EXCEPT ![r] = x]
    BY <1>1, <1>3 DEF Demanding, RunStates
  <2>2. /\ g \in SourceRecords /\ g.from = "demand" /\ g.page = y.page /\ g.age = 0
        /\ g.read <= now
    <3>1. now \in Nat /\ y.page \in Pages
      BY <1>1 DEF IndInv, TypeOK, Demanding
    <3> QED
      BY <3>1, Names DEF SourceRecords
  <2> HIDE DEF g
  <2>3. /\ x \in RunStates /\ x.pc = "extract" /\ x.got = g /\ x.page = y.page /\ x.cfg = y.cfg
        /\ x.reply = y.reply
    BY <1>1, <2>2, Names, Got DEF RunStates, Demanding
  <2> HIDE DEF x
  <2>4. SourceOK(x, now, slowest) /\ x.pc \in Working
    BY <1>1, <2>2, <2>3 DEF SourceOK, Demanding, Working, Modes
  <2>5. \E z : Becomes(r, z)
    BY <1>1, <2>1, <2>3, <2>4, WorkMove DEF Demanding
  <2> QED
    BY <2>5, QuietMove DEF Fetch
<1> QED
  BY <1>2, <1>3 DEF Fetch

LEMMA ExtractInv ==
  ASSUME IndInv, NEW r \in Runners, Extract(r)
  PROVE  IndInv'
<1> DEFINE y == runs[r]
<1>1. /\ Demanding(y) /\ y.got \in SourceRecords /\ y.skill \in Skills \cup {NoSkill}
      /\ y.got.from = "demand" /\ y.got.page = y.page /\ y.got.age = 0
      /\ y.got.read <= now
  BY OnDemandFacts, RunFacts DEF Extract, At, RunStates
<1>2. ASSUME NEW schema \in Schemas(r) \cup {NoSkill},
             runs' = [runs EXCEPT ![r].pc = "store", ![r].got.schema = schema]
      PROVE  \E x : Becomes(r, x)
  <2> DEFINE g == [y.got EXCEPT !.schema = schema]
             x == [y EXCEPT !.pc = "store", !.got = g]
  <2>1. runs' = [runs EXCEPT ![r] = x]
    BY <1>1, <1>2 DEF Demanding, RunStates
  <2>2. schema \in Skills \cup {NoSkill}
    BY <1>1 DEF Schemas
  <2>3. /\ g \in SourceRecords /\ g.from = "demand" /\ g.page = y.page /\ g.age = 0
        /\ g.read <= now
    BY <1>1, <2>2 DEF SourceRecords
  <2> HIDE DEF g
  <2>4. /\ x \in RunStates /\ x.pc = "store" /\ x.got = g /\ x.page = y.page /\ x.cfg = y.cfg
        /\ x.reply = y.reply
    BY <1>1, <2>3, Names, Got DEF RunStates, Demanding
  <2> HIDE DEF x
  <2>5. SourceOK(x, now, slowest) /\ x.pc \in Working
    BY <1>1, <2>3, <2>4 DEF SourceOK, Demanding, Working, Modes
  <2> QED
    BY <1>1, <2>1, <2>4, <2>5, WorkMove DEF Demanding
<1> QED
  BY <1>2, QuietMove DEF Extract

LEMMA StoreInv ==
  ASSUME IndInv, NEW r \in Runners, Store(r)
  PROVE  IndInv'
<1> DEFINE y == runs[r]
           p == y.page
           took == now - y.got.read
           entry == [schema |-> y.got.schema, read |-> y.got.read, at |-> now,
                     ttl |-> y.cfg.ttl]
           x == [y EXCEPT !.pc = "extracted"]
<1>1. /\ Demanding(y) /\ y.got \in SourceRecords
      /\ y.got.from = "demand" /\ y.got.page = y.page /\ y.got.age = 0
      /\ y.got.read <= now
  BY OnDemandFacts, RunFacts DEF Store, At, RunStates
<1>2. y.cfg.ttl \in Nat /\ p \in Pages /\ now \in Nat
  BY <1>1, Shapes DEF Demanding, ConfigShape, IndInv, TypeOK
<1>3. \E z : Becomes(r, z)
  <2>1. runs' = [runs EXCEPT ![r] = x]
    BY <1>1 DEF Store, To, Demanding, RunStates
  <2>2. /\ x \in RunStates /\ x.pc = "extracted" /\ x.got = y.got /\ x.page = y.page
        /\ x.cfg = y.cfg /\ x.reply = y.reply
    BY <1>1, Names, Placed DEF RunStates, Demanding
  <2> HIDE DEF x
  <2>3. slowest \in Nat /\ x.got.age = 0
    BY <1>1, <2>2 DEF IndInv, TypeOK
  <2>4. SourceOK(x, now, slowest) /\ x.pc \in Working
    BY <1>1, <1>2, <2>2, <2>3 DEF SourceOK, Demanding, Working, Modes
  <2> QED
    BY <1>1, <2>1, <2>2, <2>4, WorkMove DEF Demanding
<1>4. /\ entry \in Entries /\ entry.at = now /\ entry.read = y.got.read
      /\ took \in Nat /\ slowest \in Nat /\ now' = now
  BY <1>1, <1>2 DEF Entries, SourceRecords, IndInv, TypeOK, Store
<1>5. slowest' \in Nat /\ slowest <= slowest' /\ took <= slowest'
  BY <1>4 DEF Store
<1>6. Dated(entry, now', slowest')
  BY <1>1, <1>2, <1>4, <1>5 DEF Dated, SourceRecords
<1>7. ASSUME NEW q \in Pages, cache[q] # NoEntry
      PROVE  Dated(cache[q], now', slowest')
  <2>1. cache[q] \in Entries /\ Dated(cache[q], now, slowest)
    BY <1>7 DEF IndInv, TypeOK, CacheOK, Cached
  <2> QED
    BY <1>4, <1>5, <2>1 DEF Dated, Entries
<1>8. \E c \in [Pages -> Entries \cup {NoEntry}] :
        /\ cache' = [c EXCEPT ![p] = entry]
        /\ \A q \in Pages : c[q] # NoEntry => Dated(c[q], now', slowest')
  <2>1. cache \in [Pages -> Entries \cup {NoEntry}]
    BY DEF IndInv, TypeOK
  <2>2. ASSUME NEW old \in Pages
        PROVE  LET c == [cache EXCEPT ![old] = NoEntry]
               IN  /\ c \in [Pages -> Entries \cup {NoEntry}]
                   /\ \A q \in Pages : c[q] # NoEntry => Dated(c[q], now', slowest')
    BY <1>7, <2>1
  <2> QED
    BY <1>7, <2>1, <2>2 DEF Store, Cached
<1> HIDE DEF entry
<1>9. cache' \in [Pages -> Entries \cup {NoEntry}] /\ CacheOK'
  BY <1>2, <1>4, <1>6, <1>8 DEF CacheOK, Cached
<1> QED
  BY <1>3, <1>5, <1>9, MoveInv DEF Store

LEMMA RenderInv ==
  ASSUME IndInv, NEW r \in Runners, Render(r)
  PROVE  IndInv'
<1> DEFINE y == runs[r]
           answer == IF NeedsBackfill(y.reply.answer) THEN "generated" ELSE y.reply.answer
           d == OnDemand(y.got)
           w == [y.reply EXCEPT !.answer = answer, !.artifact = y.got.from, !.disclosed = d]
<1>1. /\ y \in RunStates /\ y.reply \in Replies /\ y.got.from \in Origins
      /\ r = Asker => y.reply.tier = 1 /\ y.reply.answer \in {"nothing", "summary", "evasion", "refusal"}
      /\ r = Asker => Sound(y.reply)
  BY RunFacts DEF Render, At, RunStates, RunOK, ReplyOK, SourceRecords, Working
<1>2. answer \in AnswerKinds /\ (r = Asker => answer \in {"summary", "evasion", "generated"})
  BY <1>1, Names DEF NeedsBackfill, Replies
<1>3. d \in BOOLEAN /\ (d <=> y.got.from = "demand") /\ y.got.from \in Artifacts
  BY <1>1, Names DEF OnDemand
<1> HIDE DEF answer, d
<1>4. w \in Replies
  BY <1>1, <1>2, <1>3 DEF Replies
<1>5. w.answer = answer /\ w.artifact = y.got.from /\ w.disclosed = d /\ w.tier = y.reply.tier
  BY <1>1 DEF Replies
<1>6. Ends(r, w) \/ Ends(r, y.reply)
  BY DEF Render, answer, d
<1> HIDE DEF w
<1>7. r = Asker => Sound(w)
  BY <1>1, <1>2, <1>3, <1>5 DEF Sound
<1>8. \E x : Becomes(r, x)
  <2>1. CASE r = Asker
    BY <1>1, <1>4, <1>6, <1>7, <2>1, EndsMove
  <2>2. CASE r # Asker
    <3>1. runs' = [runs EXCEPT ![r] = Idle]
      BY <1>6, <2>2 DEF Ends
    <3>2. RunOK(r, Idle, now, slowest)
      BY <2>2, Shapes DEF RunOK, SourceOK, Idle, Working, Modes
    <3> QED
      BY <3>1, <3>2 DEF Becomes
  <2> QED
    BY <2>1, <2>2
<1> QED
  BY <1>8, QuietMove DEF Render

----------------------------------------------------------------------------
(* The surroundings. *)

\* They leave the runs alone, and the cache.
LEMMA SurroundingsInv ==
  ASSUME IndInv, Surroundings
  PROVE  IndInv'
<1>1. /\ UNCHANGED <<cache, runs, slowest>> /\ now' \in Nat /\ now <= now'
      /\ now \in Nat /\ slowest \in Nat
  BY DEF Surroundings, Rewrite, Edit, Ingest, Tick, world, IndInv, TypeOK
<1>2. CacheOK'
  BY <1>1 DEF IndInv, TypeOK, CacheOK, Cached, Entries, Dated
<1>3. TypeOK'
  BY <1>1 DEF Surroundings, Rewrite, Edit, Ingest, Tick, world, Change, IndInv, TypeOK
<1>4. ASSUME NEW r \in Runners PROVE RunOK(r, runs'[r], now', slowest')
  BY <1>1, Later, RunFacts
<1> QED
  BY <1>2, <1>3, <1>4 DEF IndInv

----------------------------------------------------------------------------

LEMMA InitInv == Init => IndInv
<1> SUFFICES ASSUME Init PROVE IndInv
  OBVIOUS
<1>1. TypeOK /\ CacheOK
  BY Shapes, ConfigsAssumption DEF Init, TypeOK, CacheOK, Cached
<1>2. ASSUME NEW r \in Runners PROVE RunOK(r, runs[r], now, slowest)
  BY Shapes DEF Init, RunOK, SourceOK, ReplyOK, Sound, Idle, NoReply, Working, Modes
<1> QED
  BY <1>1, <1>2 DEF IndInv

LEMMA NextInv ==
  ASSUME IndInv, [Next]_vars
  PROVE  IndInv'
<1>1. CASE UNCHANGED vars
  BY <1>1 DEF vars, IndInv, TypeOK, CacheOK, Cached, Dated
<1>2. CASE Answering
  <2>1. ASSUME NEW page \in Pages \cup {NoPage}, NEW url \in BOOLEAN, Ask(page, url)
        PROVE  IndInv'
    BY <2>1, AskInv
  <2> QED
    BY <1>2, <2>1, ClassifyInv, RetrieveInv, SynthesizeInv, LoadConfigInv DEF Answering
<1>3. ASSUME NEW e \in Evals, NEW s \in Skills, NEW page \in Pages, Evaluate(e, s, page)
      PROVE  IndInv'
  BY <1>3, EvaluateInv
<1>4. ASSUME NEW r \in Runners, Execute(r) PROVE IndInv'
  BY <1>4, GenericInv, PinnedInv, LookupInv, FetchInv, ExtractInv, StoreInv, RenderInv
     DEF Execute
<1>5. CASE Surroundings
  BY <1>5, SurroundingsInv
<1> QED
  BY <1>1, <1>2, <1>3, <1>4, <1>5 DEF Next

\* The inductive invariant holds in every reachable state.
THEOREM Inductive == Spec => []IndInv
BY InitInv, NextInv, PTL DEF Spec

\* Runs, cache and configurations keep their types.
THEOREM TypeCorrect == Spec => []TypeOK
<1>1. IndInv => TypeOK
  BY DEF IndInv
<1> QED
  BY <1>1, Inductive, PTL

\* No skill reads a page other than the one it is pinned to or was asked for, whatever
\* the cache and the knowledge base hold and whoever rewrites the skill meanwhile (the
\* executor's strategies, no wrong-page substitution).
THEOREM OnePageHolds == Spec => []OnePage
<1>1. ASSUME IndInv PROVE OnePage
  BY <1>1, RunFacts DEF OnePage, Sourced, At, RunOK, SourceOK
<1> QED
  BY <1>1, Inductive, PTL

\* No skill is given a page that is older than its own time to live by more than an
\* extraction has taken, whoever stored it (_EphemeralCache.get and put).
THEOREM FreshEnoughHolds == Spec => []FreshEnough
<1>1. ASSUME IndInv PROVE FreshEnough
  BY <1>1, RunFacts DEF FreshEnough, Sourced, At, RunOK, SourceOK
<1> QED
  BY <1>1, Inductive, PTL

\* No artifact stands beside an empty answer or a refusal the ask route recognises, nor
\* beside the error of a missing source (ask, BUG-016 and BUG-017).
THEOREM BackfilledHolds == Spec => []Backfilled
<1>1. ASSUME IndInv PROVE Backfilled
  BY <1>1, RunFacts, Shapes DEF Backfilled, At, RunOK, ReplyOK, Sound
<1> QED
  BY <1>1, Inductive, PTL

\* Every page fetched on demand is disclosed, from the cache or not (_execute_cfg,
\* ephemeral_fetched).
THEOREM DisclosedHolds == Spec => []Disclosed
<1>1. ASSUME IndInv PROVE Disclosed
  BY <1>1, RunFacts, Shapes DEF Disclosed, At, RunOK, ReplyOK, Sound
<1> QED
  BY <1>1, Inductive, PTL
=============================================================================
