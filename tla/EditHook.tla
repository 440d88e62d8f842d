------------------------------ MODULE EditHook ------------------------------
(***************************************************************************)
(* The design hook of the impeccable skill: hook.mjs / hook-lib.mjs run    *)
(* after each edit of an agent and remind it of the findings of the        *)
(* detector; hook-before-edit.mjs stands before the writes of a Cursor     *)
(* agent and may deny them; hook-admin.mjs edits the configuration both    *)
(* read.  Every hook is a process of its own that lives for one edit: it   *)
(* reads the configuration and .impeccable/hook.cache.json, waits for the  *)
(* detector, and writes the whole cache back, without a lock.              *)
(*                                                                         *)
(* The text of a file is the set of the findings a scan of it gives; the   *)
(* detector is Detector's subject.  Edits, admin commands and processes    *)
(* are bounded by MaxEdits, MaxRacing, MaxAdmin and Proc.                  *)
(***************************************************************************)
EXTENDS Naturals, Sequences, FiniteSets
LOCAL INSTANCE SequencesExt

CONSTANTS
  Session, Cursor,      \* agent sessions, and those whose writes are gated
  Proc,                 \* hook processes that may run at one time
  File, KindOf,         \* "ui", "style", "code", "template" or "closed" (sensitive, generated)
  SheetsOf,             \* File -> the style sheets scanned along with it
  Batch,                \* the file lists one tool call may touch
  Finding, RuleOf, ValueOf,
  Rule, Value,
  Threshold,            \* EDIT_COUNT_THRESHOLD
  MaxSessions,          \* CACHE_MAX_SESSIONS
  Quiet,                \* IMPECCABLE_HOOK_QUIET, hook.quiet
  StartConf,            \* configurations the project may come with
  MaxEdits,             \* edits when hooks run one at a time
  MaxRacing,            \* edits when they may race
  MaxAdmin, None

ASSUME HookAssumption ==
  /\ Cursor \subseteq Session
  /\ KindOf \in [File -> {"ui", "style", "code", "template", "closed"}]
  /\ RuleOf \in [Finding -> Rule] /\ ValueOf \in [Finding -> Value \cup {None}]
  /\ Threshold \in Nat /\ MaxSessions \in Nat \ {0} /\ Quiet \in BOOLEAN

VARIABLES
  conf,       \* the two files: config.json and config.local.json
  footprint,  \* the project has a .impeccable directory
  text,       \* File -> the findings its text has
  cache,      \* .impeccable/hook.cache.json
  hook,       \* Proc -> the hook process in flight, or None
  serial,     \* nobody lets two of these processes run at one time
  told,       \* history: what each session was told while the cache knew it
  denied,     \* history: denials of a write, by session, file and findings
  out,        \* what the process that has just ended said
  edits, admin

vars == <<conf, footprint, text, cache, hook, serial, told, denied, out, edits, admin>>
----------------------------------------------------------------------------
(* The cache file.                                                         *)

NoEntry == [count |-> 0, known |-> {}, denials |-> [sig \in SUBSET Finding |-> 0]]
NoFiles == [f \in File |-> NoEntry]
EmptyCache == [order |-> <<>>, of |-> [s \in Session |-> NoFiles]]

InOrder(c) == {c.order[i] : i \in 1..Len(c.order)}

\* ensureSession, ensureFile and an update of one entry, which moves the
\* session's updatedAt to now.  The order of the sessions stands for updatedAt.
Put(c, s, f, entry) ==
  [order |-> Append(SelectSeq(c.order, LAMBDA t : t # s), s),
   of |-> [c.of EXCEPT ![s][f] = entry]]

CollectedLoose(c) ==
  LET drop == IF Len(c.order) > MaxSessions + 1 THEN Len(c.order) - MaxSessions - 1 ELSE 0
      kept == SubSeq(c.order, drop + 1, Len(c.order))
  IN [order |-> kept,
      of |-> [s \in Session |-> IF \E i \in 1..Len(kept) : kept[i] = s THEN c.of[s] ELSE NoFiles]]

\* persistCache keeps the MaxSessions sessions touched last.
Collected(c) ==
  LET drop == IF Len(c.order) > MaxSessions THEN Len(c.order) - MaxSessions ELSE 0
      kept == SubSeq(c.order, drop + 1, Len(c.order))
  IN [order |-> kept,
      of |-> [s \in Session |-> IF \E i \in 1..Len(kept) : kept[i] = s THEN c.of[s] ELSE NoFiles]]
----------------------------------------------------------------------------
(* The configuration.                                                      *)

NoSection == [on |-> None, rules |-> {}, files |-> {}, values |-> {}, exts |-> FALSE, legacy |-> {}]

EffectiveReplacing(c) ==
  [on |-> IF c.local.on # None THEN c.local.on = "on" ELSE c.shared.on # "off",
   rules |-> IF c.local.rules # {} THEN c.local.rules ELSE c.shared.rules \cup c.shared.legacy,
   files |-> c.shared.files \cup c.local.files,
   values |-> c.shared.values \cup c.local.values,
   exts |-> c.shared.exts \/ c.local.exts]

\* readConfig: both files, the legacy filters under "hook" before those under
\* "detector"; the local file is read last and wins where values do not add up.
Effective(c) ==
  [on |-> IF c.local.on # None THEN c.local.on = "on" ELSE c.shared.on # "off",
   rules |-> UNION {c[w].rules \cup c[w].legacy : w \in {"shared", "local"}},
   files |-> c.shared.files \cup c.local.files,
   values |-> c.shared.values \cup c.local.values,
   exts |-> c.shared.exts \/ c.local.exts]

\* A value entry without files holds everywhere; "*" needs files.
ValueIgnored(e, f, x) ==
  \E v \in e.values :
    /\ v.rule = RuleOf[x]
    /\ v.value = "*" \/ (ValueOf[x] # None /\ v.value = ValueOf[x])
    /\ IF v.only = {} THEN v.value # "*" ELSE f \in v.only

Ignored(e, f, x) == RuleOf[x] \in e.rules \/ ValueIgnored(e, f, x)

Scannable(e, f) ==
  /\ KindOf[f] # "closed"
  /\ KindOf[f] = "template" => e.exts
  /\ f \notin e.files

Left(e, f, found) == {x \in found : ~Ignored(e, f, x)}

\* shouldEmitAckForFile: markup and styles; a declared template is markup.
Acked(e, f) == KindOf[f] \in {"ui", "style"} \/ (KindOf[f] = "template" /\ e.exts)

Reported(c, f, x) ==
  LET e == Effective(c) IN e.on /\ Scannable(e, f) /\ ~Ignored(e, f, x)
Filtered(c, f, x) == Scannable(Effective(c), f) /\ ~Ignored(Effective(c), f, x)
----------------------------------------------------------------------------
TypeOK ==
  /\ footprint \in BOOLEAN /\ serial \in BOOLEAN
  /\ text \in [File -> SUBSET Finding]
  /\ cache.order \in Seq(Session)
  /\ \A s \in Session, f \in File :
       /\ cache.of[s][f].count \in 0..MaxEdits
       /\ cache.of[s][f].known \subseteq Finding
       /\ s \notin InOrder(cache) => cache.of[s][f] = NoEntry
  /\ Len(cache.order) <= MaxSessions
  /\ Cardinality(InOrder(cache)) = Len(cache.order)
  /\ told \in [Session -> [File -> SUBSET Finding]]

Nothing == [who |-> None, kind |-> "none", said |-> [f \in File |-> {}], left |-> [f \in File |-> {}]]

Init ==
  /\ conf \in StartConf
  /\ footprint = (\E w \in {"shared", "local"} : conf[w] # NoSection)
  /\ text = [f \in File |-> {}]
  /\ cache = EmptyCache
  /\ hook = [p \in Proc |-> None]
  /\ serial \in BOOLEAN
  /\ told = [s \in Session |-> [f \in File |-> {}]]
  /\ denied = [s \in Session |-> [f \in File |-> [sig \in SUBSET Finding |-> 0]]]
  /\ out = Nothing
  /\ edits = 0 /\ admin = 0

Idle(p) == hook[p] = None
Turn(p) == Idle(p) /\ (serial => \A q \in Proc : Idle(q))

\* readCache: an unreadable file is an empty cache; another process may be
\* writing it at this moment.
CacheReads(p) == {cache} \cup IF \E q \in Proc \ {p} : ~Idle(q) THEN {EmptyCache} ELSE {}

\* The targets of one event: its files, then the style sheets of each.
Targets(fs) ==
  fs \o SelectSeq(FlattenSeq([i \in 1..Len(fs) |-> SheetsOf[fs[i]]]),
                  LAMBDA f : f \notin {fs[i] : i \in 1..Len(fs)})

\* A session that c no longer has is forgotten: it may be told again, and be
\* denied again.  What racing processes told it is never forgotten.
Dropped(c) == InOrder(cache) \ InOrder(c)
Remembering(c, t) ==
  [s \in Session |-> IF serial /\ s \in Dropped(c) THEN [f \in File |-> {}] ELSE t[s]]
Counting(c, d) ==
  [s \in Session |-> IF s \in Dropped(c) THEN [f \in File |-> [sig \in SUBSET Finding |-> 0]] ELSE d[s]]

\* An agent edits files and the harness starts the hook, which reads the
\* configuration and the cache before it waits for the detector.
Edit(s, p, fs, body) ==
  /\ s \notin Cursor /\ Turn(p) /\ edits < IF serial THEN MaxEdits ELSE MaxRacing
  /\ edits' = edits + 1
  /\ text' = [f \in File |-> IF \E i \in 1..Len(fs) : fs[i] = f THEN body ELSE text[f]]
  /\ IF Effective(conf).on
     THEN \E c \in CacheReads(p) :
            hook' = [hook EXCEPT ![p] =
              [mode |-> "after", who |-> s, files |-> fs, conf |-> Effective(conf), cache |-> c]]
     ELSE UNCHANGED hook
  /\ out' = Nothing
  /\ UNCHANGED <<conf, footprint, cache, serial, told, denied, admin>>
----------------------------------------------------------------------------
(* runHook, from the loop over the targets to the emission.                *)

StartScan(c) ==
  [cache |-> c, fresh |-> [f \in File |-> {}], left |-> [f \in File |-> {}], pending |-> None,
   clean |-> None, notice |-> None, threw |-> FALSE, dirty |-> FALSE]

Bump(c, s, f) == Put(c, s, f, [c.of[s][f] EXCEPT !.count = @ + 1])

FreshOfTheSession(c, s, f, left) == left \ UNION {c.of[s][g].known : g \in File}

\* dedupeAgainstCache and rememberFindings.
Fresh(c, s, f, left) == left \ c.of[s][f].known
Remember(c, s, f, new) == Put(c, s, f, [c.of[s][f] EXCEPT !.known = @ \cup new])

ScanText(a, f, h, threw) ==
  LET left  == IF threw THEN {} ELSE Left(h.conf, f, text[f])
      new   == Fresh(a.cache, h.who, f, left)
      b     == [a EXCEPT !.left[f] = left]
  IN IF new # {} THEN [b EXCEPT !.cache = Remember(a.cache, h.who, f, new), !.fresh[f] = new, !.dirty = TRUE]
     ELSE IF threw THEN [b EXCEPT !.threw = TRUE]
     ELSE IF left # {} THEN [b EXCEPT !.pending = IF @ = None THEN f ELSE @]
     ELSE [b EXCEPT !.clean = IF @ = None THEN f ELSE @]

\* The files of the event count; the style sheets scanned along do not.
ScanFile(a, f, h, boom) ==
  LET primary == \E i \in 1..Len(h.files) : h.files[i] = f
      counted == Bump(a.cache, h.who, f)
      n       == counted.of[h.who][f].count
      b       == IF primary THEN [a EXCEPT !.cache = counted, !.dirty = TRUE] ELSE a
  IN IF ~Scannable(h.conf, f) THEN a
     ELSE IF primary /\ n > Threshold
          THEN [b EXCEPT !.notice = IF @ = None /\ n = Threshold + 1 THEN f ELSE @]
          ELSE ScanText(b, f, h, f \in boom)

SomeFresh(r) == \E f \in File : r.fresh[f] # {}

EmissionNudgingFirst(r, h) ==
  LET only(f, said) == [g \in File |-> IF g = f THEN said ELSE {}]
  IN IF r.pending # None /\ Acked(h.conf, r.pending)
     THEN [kind |-> "pending", said |-> only(r.pending, r.cache.of[h.who][r.pending].known)]
     ELSE IF SomeFresh(r) THEN [kind |-> "fresh", said |-> r.fresh]
     ELSE [kind |-> "none", said |-> only(None, {})]

\* The first that applies: fresh findings, silence, a reminder of what is
\* still there, the notice that a file is no longer scanned, a clean bill.
Emission(r, h) ==
  LET only(f, said) == [g \in File |-> IF g = f THEN said ELSE {}]
  IN IF SomeFresh(r) THEN [kind |-> "fresh", said |-> r.fresh]
     ELSE IF (r.threw /\ r.pending = None /\ r.clean = None) \/ Quiet
          THEN [kind |-> "none", said |-> only(None, {})]
     ELSE IF r.pending # None /\ Acked(h.conf, r.pending)
          THEN [kind |-> "pending", said |-> only(r.pending, r.cache.of[h.who][r.pending].known)]
     ELSE IF r.notice # None THEN [kind |-> "suppression", said |-> only(None, {})]
     ELSE IF r.clean # None /\ Acked(h.conf, r.clean) THEN [kind |-> "clean", said |-> only(None, {})]
     ELSE [kind |-> "none", said |-> only(None, {})]

PersistsWhereOptedIn(r) == r.dirty /\ footprint

\* A run that found nothing new in a project without .impeccable leaves no trace.
Persists(r) == SomeFresh(r) \/ (r.dirty /\ footprint)

EndHook(p, boom) ==
  /\ ~Idle(p) /\ hook[p].mode = "after"
  /\ LET h == hook[p]
         r == FoldLeft(LAMBDA a, f : ScanFile(a, f, h, boom), StartScan(h.cache), Targets(h.files))
         e == Emission(r, h)
         c == IF Persists(r) THEN Collected(r.cache) ELSE cache
     IN /\ cache' = c
        /\ footprint' = (footprint \/ Persists(r))
        /\ out' = [who |-> h.who, kind |-> e.kind, said |-> e.said, left |-> r.left]
        /\ told' = Remembering(c, IF e.kind = "fresh"
                     THEN [told EXCEPT ![h.who] = [f \in File |-> @[f] \cup e.said[f]]] ELSE told)
        /\ denied' = Counting(c, denied)
        /\ hook' = [hook EXCEPT ![p] = None]
  /\ UNCHANGED <<conf, text, serial, edits, admin>>
----------------------------------------------------------------------------
(* hook-before-edit.mjs: the gate before a write of a Cursor agent.        *)

Propose(s, p, f, body) ==
  /\ s \in Cursor /\ Turn(p) /\ edits < IF serial THEN MaxEdits ELSE MaxRacing
  /\ \A q \in Proc : ~Idle(q) => hook[q].who # s
  /\ edits' = edits + 1
  /\ LET e == Effective(conf)
     IN IF e.on /\ Scannable(e, f)
        THEN /\ hook' = [hook EXCEPT ![p] = [mode |-> "gate", who |-> s, file |-> f, body |-> body, conf |-> e]]
             /\ UNCHANGED text
        ELSE /\ text' = [text EXCEPT ![f] = body]
             /\ UNCHANGED hook
  /\ out' = Nothing
  /\ UNCHANGED <<conf, footprint, cache, serial, told, denied, admin>>

DenyByFile(c, s, f, sig) ==
  Put(c, s, f, [c.of[s][f] EXCEPT !.denials = [t \in SUBSET Finding |-> @[t] + 1]])

Deny(c, s, f, sig) == Put(c, s, f, [c.of[s][f] EXCEPT !.denials[sig] = @ + 1])

\* The detector threw, or nothing is left: the write lands.  Otherwise the
\* denial is counted, and the write lands all the same after too many.
EndGate(p, boom) ==
  /\ ~Idle(p) /\ hook[p].mode = "gate"
  /\ LET h   == hook[p]
         bad == IF boom THEN {} ELSE Left(h.conf, h.file, h.body)
     IN IF bad = {}
        THEN /\ text' = [text EXCEPT ![h.file] = h.body]
             /\ out' = [Nothing EXCEPT !.who = h.who, !.kind = "allowed"]
             /\ UNCHANGED <<cache, footprint, told, denied>>
        ELSE \E read \in CacheReads(p) :
             LET c  == Deny(read, h.who, h.file, bad)
                 k  == Collected(c)
                 up == c.of[h.who][h.file].denials[bad] > Threshold
             IN /\ cache' = k
                /\ footprint' = TRUE
                /\ text' = IF up THEN [text EXCEPT ![h.file] = h.body] ELSE text
                /\ out' = [Nothing EXCEPT !.who = h.who, !.kind = IF up THEN "downgraded" ELSE "denied",
                                          !.left[h.file] = bad]
                /\ told' = Remembering(k, told)
                /\ denied' = Counting(k, IF up THEN denied
                                         ELSE [denied EXCEPT ![h.who][h.file][bad] = @ + 1])
  /\ hook' = [hook EXCEPT ![p] = None]
  /\ UNCHANGED <<conf, serial, edits, admin>>
----------------------------------------------------------------------------
(* hook-admin.mjs.                                                         *)

\* writeDetectorConfig: the filters are written under "detector" and those
\* found under "hook" move there; no other key of "detector" is kept.
WithFilters(sec, rules, files, values) ==
  [sec EXCEPT !.rules = @ \cup sec.legacy \cup rules, !.files = @ \cup files,
              !.values = @ \cup values, !.legacy = {}, !.exts = FALSE]

Administer(c) ==
  /\ admin < MaxAdmin /\ (serial => \A p \in Proc : Idle(p))
  /\ admin' = admin + 1
  /\ conf' = c
  /\ out' = Nothing
  /\ UNCHANGED <<text, hook, serial, edits>>

IgnoreRule(r) ==
  /\ Administer([conf EXCEPT !.shared = WithFilters(@, {r}, {}, {})])
  /\ footprint' = TRUE
  /\ UNCHANGED <<cache, told, denied>>

IgnoreFile(f) ==
  /\ Administer([conf EXCEPT !.shared = WithFilters(@, {}, {f}, {})])
  /\ footprint' = TRUE
  /\ UNCHANGED <<cache, told, denied>>

\* An entry for the same rule and value counts as this one, whatever its files.
IgnoreValue(r, v, where) ==
  /\ Administer([conf EXCEPT ![where] =
       WithFilters(@, {}, {}, IF \E e \in @.values : e.rule = r /\ e.value = v
                              THEN {} ELSE {[rule |-> r, value |-> v, only |-> {}]})])
  /\ footprint' = TRUE
  /\ UNCHANGED <<cache, told, denied>>

\* setEnabled: writeHookConfig strips the old filters from "hook"; turning the
\* hook on also records the consent in the local file.
Switch(on) ==
  /\ Administer([conf EXCEPT !.shared = [@ EXCEPT !.on = IF on THEN "on" ELSE "off", !.legacy = {}],
                             !.local = IF on THEN [@ EXCEPT !.legacy = {}] ELSE @])
  /\ footprint' = TRUE
  /\ UNCHANGED <<cache, told, denied>>

Reset ==
  /\ Administer([shared |-> NoSection, local |-> NoSection])
  /\ cache' = EmptyCache
  /\ told' = Remembering(EmptyCache, told) /\ denied' = Counting(EmptyCache, denied)
  /\ UNCHANGED footprint

Admin ==
  \/ \E r \in Rule : IgnoreRule(r)
  \/ \E f \in File : IgnoreFile(f)
  \/ \E x \in Finding, where \in {"shared", "local"} :
       ValueOf[x] # None /\ IgnoreValue(RuleOf[x], ValueOf[x], where)
  \/ \E on \in BOOLEAN : Switch(on)
  \/ Reset
----------------------------------------------------------------------------
Next ==
  \/ \E s \in Session, p \in Proc, fs \in Batch, body \in SUBSET Finding : Edit(s, p, fs, body)
  \/ \E p \in Proc, boom \in SUBSET File : EndHook(p, boom)
  \/ \E s \in Session, p \in Proc, f \in File, body \in SUBSET Finding : Propose(s, p, f, body)
  \/ \E p \in Proc, boom \in BOOLEAN : EndGate(p, boom)
  \/ Admin

Spec == Init /\ [][Next]_vars
----------------------------------------------------------------------------
Ends(mode) == \E p \in Proc : hook[p] # None /\ hook[p].mode = mode /\ hook'[p] = None
HookEnds == Ends("after")
GateEnds == Ends("gate")

(* What the cache holds back, a session was told: a finding is never       *)
(* remembered by a run that kept it to itself (persistCache comes before   *)
(* the choice of what to say).                                             *)
RememberedWasTold ==
  \A s \in Session, f \in File : cache.of[s][f].known \subseteq told[s][f]

(* Every finding a run leaves standing in a file was put to its session,   *)
(* now or before, whatever else that run found, and whatever the other     *)
(* processes did to the cache.                                             *)
FindingsAreRaised ==
  HookEnds => \A f \in File : out'.left[f] \subseteq told'[out'.who][f]

(* While hooks run one at a time, a finding is news once: it is raised as  *)
(* fresh again only after the cache lost its session or was reset.         *)
FreshIsNews ==
  serial /\ HookEnds /\ out'.kind = "fresh" => \A f \in File : out'.said[f] \cap told[out'.who][f] = {}

(* While hooks run one at a time, the gate gives way exactly after         *)
(* Threshold denials of the same findings: never before, so a bad write is *)
(* reconsidered, and never later, so that the agent is not caught in a     *)
(* loop.                                                                   *)
GateGivesWay ==
  serial /\ GateEnds =>
    /\ out'.kind = "downgraded" =>
         \E f \in File : out'.left[f] # {} /\ denied[out'.who][f][out'.left[f]] = Threshold
    /\ out'.kind = "denied" =>
         \E f \in File : out'.left[f] # {} /\ denied[out'.who][f][out'.left[f]] < Threshold

\* What the hooks find comes to the agent, and neither twice as news nor as a
\* refusal without end.
FindingsReachTheAgent == [][FindingsAreRaised /\ FreshIsNews /\ GateGivesWay]_vars

(* An ignore command takes away the findings it names and nothing else,    *)
(* and the switch touches no filter.                                       *)
IgnoresAreNarrow ==
  [][\A f \in File, x \in Finding :
       /\ \A r \in Rule : IgnoreRule(r) =>
            (Reported(conf', f, x) <=> (Reported(conf, f, x) /\ RuleOf[x] # r))
       /\ \A g \in File : IgnoreFile(g) => (Reported(conf', f, x) <=> (Reported(conf, f, x) /\ f # g))
       /\ \A r \in Rule, v \in Value, w \in {"shared", "local"} : IgnoreValue(r, v, w) =>
            (Reported(conf', f, x) <=> (Reported(conf, f, x) /\ ~(RuleOf[x] = r /\ ValueOf[x] = v)))
       /\ \A on \in BOOLEAN : Switch(on) => (Filtered(conf', f, x) <=> Filtered(conf, f, x))]_vars

=============================================================================
