---------------------------- MODULE AssistantProofs ----------------------------
(***************************************************************************)
(* Proofs about the chat panel, for any files, answers of the provider,    *)
(* settings and bounds.  What moves between webview and panel is followed  *)
(* by what it is about: a question, from the message that asks it to the   *)
(* one that replies, and a proposal, from the click on its Apply button to *)
(* the message that lets go of the button.                                 *)
(***************************************************************************)
EXTENDS Assistant, SequenceTheorems, WellFoundedInduction, TLAPS

Parts == UNION {ToSet(parts) : parts \in Completions}
Proposals == {m \in Manifests : Valid(m)}
Cards == [index : Nat, yaml : Proposals, button : {"apply", "applying", "applied"}]

HostMessages ==
    [type : {"ask"}, of : Nat] \union [type : {"apply"}, index : Nat]
        \union [type : {"saveSettings"}, settings : Settings]

ViewMessages ==
    [type : {"thinking", "error", "needKey"}, of : Nat]
        \union [type : {"answer"}, of : Nat, cards : Seq(Cards)]
        \union [type : {"applied", "applyCancelled", "applyError"}, index : Nat]

RunOK(run) ==
    /\ run = [of |-> run.of, messages |-> run.messages, calls |-> run.calls,
              proposals |-> run.proposals, steps |-> run.steps, ended |-> run.ended]
    /\ run.of \in Nat /\ run.calls \in Seq(Parts) /\ run.proposals \in Seq(Proposals)

AskOK(a) ==
    /\ a = [of |-> a.of, at |-> a.at, local |-> a.local, first |-> a.first, run |-> a.run]
    /\ a.of \in Nat /\ a.at \in {"key", "note", "agent", "yaml"} /\ a.first \in Nat
    /\ RunOK(a.run)

HostTypes ==
    /\ host = [activeUri |-> host.activeUri, proposals |-> host.proposals, history |-> host.history]
    /\ host.activeUri \in Uris \union {None} /\ host.proposals \in Seq(Proposals)

AskTypes == \A a \in asks : AskOK(a)

ApplyTypes ==
    \A t \in applies :
        /\ t = [index |-> t.index, at |-> t.at, uri |-> t.uri]
        /\ t.at \in {"dialog", "read", "write"} /\ t.uri \in Uris \union {None} /\ t.index \in Nat
        /\ t.at # "dialog" => t.uri \in Uris

SaveTypes ==
    /\ saves \in Seq([at : {"config", "key"}, settings : Settings])
    /\ settings \in [local : BOOLEAN, key : BOOLEAN]

QueueTypes == toHost \in Seq(HostMessages) /\ toView \in Seq(ViewMessages)

ViewTypes ==
    /\ view = [thinking |-> view.thinking, cards |-> view.cards, waiting |-> view.waiting]
    /\ view.thinking \in BOOLEAN /\ view.cards \in Seq(Cards)
    /\ used \in [asks : Nat, failures : Nat, applies : Nat, saves : Nat]
    /\ view.waiting \in SUBSET (1..used.asks)

Types ==
    /\ HostTypes /\ AskTypes /\ ApplyTypes /\ SaveTypes
    /\ QueueTypes /\ ViewTypes /\ DOMAIN disk = Uris

--------------------------------------------------------------------------------
(* A question that has no reply is in one place: on its way to the panel,  *)
(* with its handler, or on its way back.                                   *)
IsReply(m) == m.type \in {"answer", "error", "needKey"}

Asked == {p \in 1..Len(toHost) : toHost[p].type = "ask"}
Replies == {p \in 1..Len(toView) : IsReply(toView[p])}
Dots == {p \in 1..Len(toView) : toView[p].type = "thinking"}

AskedAbout == {toHost[p].of : p \in Asked}
HandledNow == {a.of : a \in asks}
RepliedTo == {toView[p].of : p \in Replies}

WaitedFor ==
    /\ view.waiting = AskedAbout \union HandledNow \union RepliedTo
    /\ AskedAbout \intersect HandledNow = {}
    /\ AskedAbout \intersect RepliedTo = {}
    /\ HandledNow \intersect RepliedTo = {}

AsksDiffer == \A p, q \in Asked : toHost[p].of = toHost[q].of => p = q
HandlersDiffer == \A a, b \in asks : a.of = b.of => a = b
RepliesDiffer == \A p, q \in Replies : toView[p].of = toView[q].of => p = q

(* The dots that a handler asks for end with its reply. *)
DotsEnd ==
    /\ view.thinking => view.waiting # {}
    /\ \A p \in Dots :
          \/ toView[p].of \in HandledNow
          \/ \E q \in Replies : p < q /\ toView[q].of = toView[p].of

Questions == WaitedFor /\ AsksDiffer /\ HandlersDiffer /\ RepliesDiffer /\ DotsEnd

--------------------------------------------------------------------------------
(* Every proposal the panel keeps has at most one card, which shows it: in *)
(* the transcript, in an answer on its way, or with a handler that still   *)
(* has to make its answer.                                                 *)
Shows(proposals, c) == c.index \in 1..Len(proposals) /\ c.yaml = proposals[c.index]

Deliveries == {p \in 1..Len(toView) : toView[p].type = "answer"}
Making == {a \in asks : a.at = "yaml"}
Kept(a) == a.first .. (a.first + Len(a.run.proposals) - 1)
Indices(cards) == {cards[i].index : i \in 1..Len(cards)}

Distinct(cards) == \A i, j \in 1..Len(cards) : cards[i].index = cards[j].index => i = j

CardsShow ==
    /\ \A i \in 1..Len(view.cards) : Shows(host.proposals, view.cards[i])
    /\ \A p \in Deliveries : \A i \in 1..Len(toView[p].cards) :
          Shows(host.proposals, toView[p].cards[i]) /\ toView[p].cards[i].button = "apply"
    /\ \A a \in Making :
          /\ a.first >= 1 /\ a.first + Len(a.run.proposals) - 1 <= Len(host.proposals)
          /\ \A i \in 1..Len(a.run.proposals) :
                a.run.proposals[i] = host.proposals[CardIndex(a, i)]

OneCard ==
    /\ Distinct(view.cards)
    /\ \A p \in Deliveries : Distinct(toView[p].cards)
    /\ \A p \in Deliveries : Indices(view.cards) \intersect Indices(toView[p].cards) = {}
    /\ \A p, q \in Deliveries :
          p # q => Indices(toView[p].cards) \intersect Indices(toView[q].cards) = {}
    /\ \A a \in Making : Indices(view.cards) \intersect Kept(a) = {}
    /\ \A a \in Making, p \in Deliveries : Indices(toView[p].cards) \intersect Kept(a) = {}
    /\ \A a, b \in Making : a # b => Kept(a) \intersect Kept(b) = {}

--------------------------------------------------------------------------------
(* A click on Apply is in one place, too, until its button is let go of.   *)
LetsGo(m) == m.type \in {"applied", "applyCancelled", "applyError"}
Clicks == {p \in 1..Len(toHost) : toHost[p].type = "apply"}
Releases == {p \in 1..Len(toView) : LetsGo(toView[p])}

Pressed ==
    {view.cards[i].index : i \in {j \in 1..Len(view.cards) : view.cards[j].button = "applying"}}
ClickedOn == {toHost[p].index : p \in Clicks}
InWork == {t.index : t \in applies}
Released == {toView[p].index : p \in Releases}

ButtonsWait ==
    /\ Pressed = ClickedOn \union InWork \union Released
    /\ ClickedOn \intersect InWork = {}
    /\ ClickedOn \intersect Released = {}
    /\ InWork \intersect Released = {}

ClicksDiffer == \A p, q \in Clicks : toHost[p].index = toHost[q].index => p = q
AppliesDiffer == \A s, t \in applies : s.index = t.index => s = t
ReleasesDiffer == \A p, q \in Releases : toView[p].index = toView[q].index => p = q

Buttons == ButtonsWait /\ ClicksDiffer /\ AppliesDiffer /\ ReleasesDiffer

--------------------------------------------------------------------------------
(* What any of the providers is sent of the history, and of a conversation *)
(* that goes on, is in order: in two of the formats the roles alternate    *)
(* and calls are answered by the next message...                           *)
Blocks(types, tools) == [type : types, tool : tools]
Turns(roles, blocks) == [role : roles, content : Seq(blocks)]

Names == {c.tool : c \in Parts}

anthropic == [model |-> "assistant", call |-> "tool_use", result |-> "tool_result"]
gemini == [model |-> "model", call |-> "functionCall", result |-> "functionResponse"]

IsFormat(f) ==
    f.model # "user" /\ f.call # f.result /\ f.call # "text" /\ f.result # "text"

BlocksOf(f) == Blocks({"text", f.call, f.result}, Names \union {"none"})
TurnsOf(f) == Turns({"user", f.model}, BlocksOf(f))

(* The first n messages are as the provider wants them. *)
InOrderTo(out, n, f) ==
    \A i \in 1..n : /\ out[i].role = (IF i % 2 = 1 THEN "user" ELSE f.model)
                    /\ Answers(out, i, f.call, f.result)

(* The model had the last word, and called these tools. *)
Spoke(out, tools, f) ==
    /\ Len(out) > 0 /\ Len(out) % 2 = 0
    /\ InOrderTo(out, Len(out), f)
    /\ ToolsOf(out[Len(out)].content, f.call) = tools

(* The user's side had it, and still owes the results of these. *)
Owes(last, called, tools, f) ==
    /\ last.role = "user"
    /\ ToolsOf(last.content, f.call) = <<>>
    /\ ToolsOf(last.content, f.result) \o tools = called
    /\ called # <<>> => Len(last.content) = Len(ToolsOf(last.content, f.result))

CalledBefore(out, f) == IF Len(out) = 1 THEN <<>> ELSE ToolsOf(out[Len(out) - 1].content, f.call)

Heard(out, tools, f) ==
    /\ Len(out) % 2 = 1
    /\ InOrderTo(out, Len(out) - 1, f)
    /\ Owes(out[Len(out)], CalledBefore(out, f), tools, f)

Tools == Names \union {"none"}

(* Between two questions, and in the middle of one: the tools are those of *)
(* the calls that wait for their results.                                  *)
AtRest(out, f) == out \in Seq(TurnsOf(f)) /\ (out = <<>> \/ Spoke(out, <<>>, f))
Going(out, tools, f) ==
    /\ out \in Seq(TurnsOf(f))
    /\ Heard(out, tools, f) \/ (tools # <<>> /\ Spoke(out, tools, f))

(* ...and in the third every call is answered by a message of its own. *)
Messages ==
    [role : {"user"}, of : Nat, calls : {<<>>}]
        \union [role : {"assistant"}, of : Nat, calls : Seq(Names)]
        \union [role : {"tool"}, of : Nat, calls : {<<t>> : t \in Names}]

(* Every call has its result behind it, or is one of these that wait for   *)
(* theirs.                                                                 *)
CallsAnswered(messages, tools) ==
    \A i \in 1..Len(messages) :
        messages[i].role = "assistant" =>
            \A k \in 1..Len(messages[i].calls) :
                \/ /\ i + k <= Len(messages)
                   /\ messages[i + k].role = "tool" /\ messages[i + k].calls = <<messages[i].calls[k]>>
                \/ /\ i + k > Len(messages) /\ i + k - Len(messages) <= Len(tools)
                   /\ tools[i + k - Len(messages)] = messages[i].calls[k]

ResultsCalled(messages) ==
    \A i \in 1..Len(messages) :
        messages[i].role = "tool" =>
            \E k \in 1..(i - 1) : messages[i - k].role = "assistant" /\ k <= Len(messages[i - k].calls)

Caller(messages, tools) ==
    tools # <<>> =>
        \E j \in 1..Len(messages) :
            /\ messages[j].role = "assistant"
            /\ j + Len(messages[j].calls) = Len(messages) + Len(tools)

Chain(messages, tools) == CallsAnswered(messages, tools) /\ ResultsCalled(messages) /\ Caller(messages, tools)

(* What the providers are sent of a history, and of a conversation. *)
Rests(messages) ==
    /\ messages \in Seq(Messages) /\ Chain(messages, <<>>)
    /\ AtRest(toAnthropicMessages(messages), anthropic)
    /\ AtRest(toContents(messages), gemini)

Goes(messages, tools) ==
    /\ messages \in Seq(Messages) /\ messages # <<>> /\ Chain(messages, tools)
    /\ Going(toAnthropicMessages(messages), tools, anthropic)
    /\ Going(toContents(messages), tools, gemini)
    /\ tools = <<>> => messages[Len(messages)].role \in {"user", "tool"}

NamesOf(calls) == [i \in 1..Len(calls) |-> calls[i].tool]

Conversations ==
    /\ Rests(host.history)
    /\ \A a \in asks : a.at = "agent" /\ ~a.run.ended => Goes(a.run.messages, NamesOf(a.run.calls))

IInv == Types /\ Questions /\ CardsShow /\ OneCard /\ Buttons /\ Conversations

--------------------------------------------------------------------------------
(* Sequences as queues. *)
LEMMA AppendFacts ==
    ASSUME NEW S, NEW s \in Seq(S), NEW x \in S
    PROVE  /\ Append(s, x) \in Seq(S) /\ Len(s) \in Nat /\ Len(Append(s, x)) = Len(s) + 1
           /\ \A i \in 1..Len(s) : Append(s, x)[i] = s[i] /\ s[i] \in S
           /\ Append(s, x)[Len(s) + 1] = x
OBVIOUS

(* The rest of a queue. *)
LEMMA TailFacts ==
    ASSUME NEW S, NEW s \in Seq(S), s # <<>>
    PROVE  /\ Tail(s) \in Seq(S) /\ Len(s) \in Nat \ {0} /\ Len(Tail(s)) = Len(s) - 1
           /\ \A i \in 1..(Len(s) - 1) : Tail(s)[i] = s[i + 1]
           /\ Head(s) = s[1] /\ Head(s) \in S
OBVIOUS

(* One sequence behind another. *)
LEMMA ConcatFacts ==
    ASSUME NEW S, NEW s \in Seq(S), NEW t \in Seq(S)
    PROVE  /\ s \o t \in Seq(S) /\ Len(s) \in Nat /\ Len(t) \in Nat /\ Len(s \o t) = Len(s) + Len(t)
           /\ \A i \in 1..Len(s) : (s \o t)[i] = s[i]
           /\ \A i \in 1..Len(t) : (s \o t)[Len(s) + i] = t[i]
           /\ \A i \in (Len(s) + 1)..(Len(s) + Len(t)) :
                 i - Len(s) \in 1..Len(t) /\ (s \o t)[i] = t[i - Len(s)]
OBVIOUS

(* A save that is over leaves the list of saves. *)
LEMMA RemoveAtOK ==
    ASSUME NEW S, NEW s \in Seq(S), NEW i \in 1..Len(s)
    PROVE  RemoveAt(s, i) \in Seq(S)
<1>1. SubSeq(s, 1, i - 1) \in Seq(S) /\ SubSeq(s, i + 1, Len(s)) \in Seq(S)
  OBVIOUS
<1> QED
  BY <1>1, ConcatProperties DEF RemoveAt

--------------------------------------------------------------------------------
(* Loops over a sequence. *)

(* The least number there is of a kind. *)
LEMMA Least ==
    ASSUME NEW S \in SUBSET Nat, S # {}
    PROVE  \E m \in S : \A n \in S : m <= n
<1>1. \E m \in S : \A n \in S : ~(<<n, m>> \in OpToRel(<, Nat))
  BY NatLessThanWellFounded, WFMin
<1>2. PICK m \in S : \A n \in S : ~(<<n, m>> \in OpToRel(<, Nat))
  BY <1>1
<1>3. \A n \in S : ~(n < m)
  BY <1>2 DEF OpToRel
<1> QED
  BY <1>3

(* What holds at first and of the next number holds of all of them. *)
LEMMA Counting ==
    ASSUME NEW n \in Nat, NEW G, 0 \in G,
           \A k \in 0..(n - 1) : k \in G => k + 1 \in G
    PROVE  n \in G
<1> DEFINE Bad == {k \in 0..n : k \notin G}
<1>1. SUFFICES ASSUME Bad # {} PROVE FALSE
  OBVIOUS
<1>2. Bad \in SUBSET Nat
  OBVIOUS
<1>3. PICK m \in Bad : \A k \in Bad : m <= k
  <2> HIDE DEF Bad
  <2> QED
    BY <1>1, <1>2, Least
<1>4. m # 0 /\ m \in 0..n
  BY <1>3
<1>5. m - 1 \in 0..(n - 1) /\ m - 1 \in 0..n /\ ~(m <= m - 1) /\ (m - 1) + 1 = m
  BY <1>4
<1>6. m - 1 \in G
  BY <1>3, <1>5
<1> QED
  BY <1>3, <1>5, <1>6

(* A highest member is the one that Max takes. *)
LEMMA HighestIsMax ==
    ASSUME NEW t \in SUBSET Int, NEW k \in t, \A x \in t : x <= k
    PROVE  Max(t) = k
<1>1. Max(t) \in t /\ \A y \in t : Max(t) >= y
  BY DEF Max
<1>2. Max(t) \in Int /\ k \in Int /\ Max(t) >= k /\ Max(t) <= k
  BY <1>1
<1> QED
  BY <1>2

(* The library defines a loop over a sequence by a function on the sets of *)
(* places; F says what one turn makes of the result so far and an element. *)
Iterates(g, base, F, s, n) ==
    g = [t \in SUBSET (1..n) |->
            IF t = {} THEN base ELSE F[<<g[t \ {Max(t)}], s[Max(t)]>>]]

(* There is such a function, however long the sequence. *)
LEMMA LoopExists ==
    ASSUME NEW V, NEW S, NEW F \in [V \X S -> V], NEW base \in V, NEW s \in Seq(S)
    PROVE  \E g \in [SUBSET (1..Len(s)) -> V] : Iterates(g, base, F, s, Len(s))
<1> DEFINE G == {k \in 0..Len(s) : \E g \in [SUBSET (1..k) -> V] : Iterates(g, base, F, s, k)}
<1>1. 0 \in G
  <2> DEFINE g == [t \in SUBSET (1..0) |-> base]
  <2>1. 1..0 = {} /\ \A t \in SUBSET (1..0) : t = {}
    OBVIOUS
  <2>2. g = [t \in SUBSET (1..0) |->
               IF t = {} THEN base ELSE F[<<g[t \ {Max(t)}], s[Max(t)]>>]]
    BY <2>1
  <2>3. g \in [SUBSET (1..0) -> V] /\ Iterates(g, base, F, s, 0)
    BY <2>2 DEF Iterates
  <2> HIDE DEF g
  <2>4. 0 \in 0..Len(s)
    OBVIOUS
  <2> QED
    BY <2>3, <2>4
<1>2. ASSUME NEW k \in 0..(Len(s) - 1), k \in G PROVE k + 1 \in G
  <2>1. PICK g \in [SUBSET (1..k) -> V] : Iterates(g, base, F, s, k)
    BY <1>2
  <2> DEFINE n == k + 1
             h == [t \in SUBSET (1..n) |->
                     IF n \in t THEN F[<<g[t \ {n}], s[n]>>] ELSE g[t]]
  <2>2. /\ n \notin 1..k /\ 1..n = (1..k) \union {n} /\ n \in Int
        /\ 1..n \in SUBSET Int /\ \A x \in 1..n : x <= n
    OBVIOUS
  <2>3. \A t \in SUBSET (1..k) :
           g[t] = IF t = {} THEN base ELSE F[<<g[t \ {Max(t)}], s[Max(t)]>>]
    BY <2>1 DEF Iterates
  <2>4. s[n] \in S
    OBVIOUS
  <2> HIDE DEF n
  <2>5. ASSUME NEW t \in SUBSET (1..n)
        PROVE  /\ h[t] = IF t = {} THEN base ELSE F[<<h[t \ {Max(t)}], s[Max(t)]>>]
               /\ h[t] \in V
    <3>1. CASE n \in t
      <4>1. Max(t) = n
        <5>1. t \in SUBSET Int /\ \A x \in t : x <= n
          BY <2>2
        <5> QED
          BY <3>1, <5>1, HighestIsMax
      <4>2. t \ {n} \in SUBSET (1..n) /\ t \ {n} \in SUBSET (1..k) /\ n \notin t \ {n} /\ t # {}
        BY <2>2, <3>1
      <4>3. h[t \ {n}] = g[t \ {n}] /\ h[t] = F[<<g[t \ {n}], s[n]>>]
        BY <3>1, <4>2
      <4>4. g[t \ {n}] \in V
        BY <4>2
      <4> QED
        BY <2>4, <4>1, <4>2, <4>3, <4>4
    <3>2. CASE n \notin t
      <4>1. t \in SUBSET (1..k) /\ t \ {Max(t)} \in SUBSET (1..n) /\ n \notin t \ {Max(t)}
        BY <2>2, <3>2
      <4>2. h[t] = g[t] /\ h[t \ {Max(t)}] = g[t \ {Max(t)}]
        BY <3>2, <4>1
      <4> QED
        BY <2>3, <4>1, <4>2
    <3> QED
      BY <3>1, <3>2
  <2>6. h = [t \in SUBSET (1..n) |->
               IF t = {} THEN base ELSE F[<<h[t \ {Max(t)}], s[Max(t)]>>]]
    BY <2>5
  <2>7. h \in [SUBSET (1..n) -> V]
    BY <2>5
  <2> HIDE DEF h
  <2>8. Iterates(h, base, F, s, n)
    BY <2>6 DEF Iterates
  <2>9. n \in 0..Len(s)
    BY DEF n
  <2> QED
    BY <2>7, <2>8, <2>9 DEF n
<1>3. Len(s) \in Nat
  OBVIOUS
<1>4. Len(s) \in G
  <2> HIDE DEF G
  <2> QED
    BY <1>1, <1>2, <1>3, Counting
<1> QED
  BY <1>4

(* The highest of some places is one of them. *)
LEMMA MaxOfPlaces ==
    ASSUME NEW n \in Nat, NEW t \in SUBSET (1..n), t # {}
    PROVE  Max(t) \in t
<1> DEFINE far == {n - x : x \in t}
<1>1. far \in SUBSET Nat /\ far # {}
  <2>1. \A x \in t : n - x \in Nat
    OBVIOUS
  <2> QED
    BY <2>1
<1>2. PICK m \in far : \A y \in far : m <= y
  <2> HIDE DEF far
  <2> QED
    BY <1>1, Least
<1>3. PICK k \in t : m = n - k
  BY <1>2
<1>4. t \in SUBSET Int /\ \A x \in t : x <= k
  BY <1>2, <1>3
<1>5. Max(t) = k
  BY <1>3, <1>4, HighestIsMax
<1> QED
  BY <1>3, <1>5

(* On the first places it says what the loop has after so many turns. *)
LEMMA LoopTurns ==
    ASSUME NEW n \in Nat
    PROVE  /\ 1..0 = {}
           /\ \A k \in 1..n : /\ 1..k \in SUBSET (1..n) /\ 1..k # {} /\ Max(1..k) = k
                              /\ (1..k) \ {k} = 1..(k - 1)
<1> SUFFICES ASSUME NEW k \in 1..n
             PROVE  /\ 1..k \in SUBSET (1..n) /\ 1..k # {} /\ Max(1..k) = k
                    /\ (1..k) \ {k} = 1..(k - 1)
  OBVIOUS
<1>1. 1..k \in SUBSET Int /\ k \in 1..k /\ \A x \in 1..k : x <= k
  OBVIOUS
<1>2. Max(1..k) = k
  BY <1>1, HighestIsMax
<1> QED
  BY <1>1, <1>2

(* Read along the first places it is a run of the loop, turn by turn. *)
Unrolls(r, it, n) ==
    /\ r[0] = it[{}] /\ r[n] = it[1..n]
    /\ \A k \in 1..n : /\ 1..k \in SUBSET (1..n) /\ 1..k # {} /\ Max(1..k) = k
                       /\ r[k] = it[1..k] /\ r[k - 1] = it[(1..k) \ {Max(1..k)}]

LEMMA LoopRuns ==
    ASSUME NEW n \in Nat, NEW it
    PROVE  \E r : Unrolls(r, it, n)
<1> DEFINE r == [k \in 0..n |-> it[1..k]]
<1>1. /\ 1..0 = {}
      /\ \A k \in 1..n : /\ 1..k \in SUBSET (1..n) /\ 1..k # {} /\ Max(1..k) = k
                         /\ (1..k) \ {k} = 1..(k - 1)
  BY LoopTurns
<1>2. r[0] = it[{}] /\ r[n] = it[1..n]
  BY <1>1
<1>3. ASSUME NEW k \in 1..n
      PROVE  r[k] = it[1..k] /\ r[k - 1] = it[(1..k) \ {Max(1..k)}]
  <2>1. k \in 0..n /\ k - 1 \in 0..n
    OBVIOUS
  <2>2. r[k] = it[1..k] /\ r[k - 1] = it[1..(k - 1)]
    BY <2>1
  <2> HIDE DEF r
  <2> QED
    BY <1>1, <2>2
<1> HIDE DEF r
<1>4. Unrolls(r, it, n)
  BY <1>1, <1>2, <1>3 DEF Unrolls
<1> QED
  BY <1>4

--------------------------------------------------------------------------------
(* The calls of an answer, part by part. *)
Taken(calls, p) == IF p.tool \in {"text", "malformed"} THEN calls ELSE Append(calls, p)

TakenLoop(g, s) ==
    g = [t \in SUBSET DOMAIN s |-> IF t = {} THEN <<>> ELSE Taken(g[t \ {Max(t)}], s[Max(t)])]

LEMMA TakenUnfolds ==
    ASSUME NEW s
    PROVE  parseToolCalls(s) = (CHOOSE g : TakenLoop(g, s))[DOMAIN s]
BY DEF parseToolCalls, FoldLeft, MapThenFoldSet, TakenLoop, Taken

(* All that is taken are parts. *)
LEMMA TakenType ==
    ASSUME NEW P, NEW s \in Seq(P)
    PROVE  parseToolCalls(s) \in Seq(P)
<1> DEFINE V == Seq(P)
           F == [x \in V \X P |-> Taken(x[1], x[2])]
           n == Len(s)
           it == CHOOSE g : TakenLoop(g, s)
<1>1. n \in Nat /\ DOMAIN s = 1..n /\ \A i \in 1..n : s[i] \in P
  OBVIOUS
<1>2. F \in [V \X P -> V] /\ <<>> \in V /\ s \in Seq(P)
  BY DEF Taken
<1>3. PICK g \in [SUBSET (1..n) -> V] : Iterates(g, <<>>, F, s, n)
  <2> HIDE DEF F, V
  <2> QED
    BY <1>2, LoopExists DEF n
<1>4. TakenLoop(g, s)
  <2>1. \A t \in SUBSET (1..n) :
           g[t] = IF t = {} THEN <<>> ELSE F[<<g[t \ {Max(t)}], s[Max(t)]>>]
    BY <1>3 DEF Iterates
  <2>2. ASSUME NEW t \in SUBSET (1..n), t # {}
        PROVE  g[t] = Taken(g[t \ {Max(t)}], s[Max(t)])
    <3>1. Max(t) \in 1..n
      BY <1>1, <2>2, MaxOfPlaces
    <3>2. g[t \ {Max(t)}] \in V /\ s[Max(t)] \in P
      <4> HIDE DEF V
      <4> QED
        BY <1>1, <1>3, <3>1
    <3> HIDE DEF V
    <3> QED
      BY <2>1, <2>2, <3>2
  <2>3. g = [t \in SUBSET (1..n) |->
               IF t = {} THEN <<>> ELSE Taken(g[t \ {Max(t)}], s[Max(t)])]
    BY <1>3, <2>1, <2>2
  <2> QED
    BY <1>1, <2>3 DEF TakenLoop
<1>5. TakenLoop(it, s)
  BY <1>4
<1>6. \A t \in SUBSET (1..n) : it[t] = IF t = {} THEN <<>> ELSE Taken(it[t \ {Max(t)}], s[Max(t)])
  BY <1>1, <1>5 DEF TakenLoop
<1>7. it[1..n] = parseToolCalls(s)
  BY <1>1, TakenUnfolds
<1> HIDE DEF it, n, V
<1>8. PICK r : Unrolls(r, it, n)
  BY <1>1, LoopRuns
<1>9. r[0] = <<>> /\ r[n] = parseToolCalls(s)
  BY <1>6, <1>7, <1>8 DEF Unrolls
<1>10. ASSUME NEW k \in 1..n PROVE r[k] = Taken(r[k - 1], s[k])
  BY <1>6, <1>8 DEF Unrolls
<1> DEFINE G == {k \in 0..n : r[k] \in V}
<1>11. 0 \in G
  BY <1>1, <1>2, <1>9
<1>12. ASSUME NEW k \in 0..(n - 1), k \in G PROVE k + 1 \in G
  <2>1. k + 1 \in 1..n /\ k + 1 \in 0..n /\ (k + 1) - 1 = k
    BY <1>1
  <2>2. r[k + 1] = Taken(r[k], s[k + 1]) /\ s[k + 1] \in P
    BY <1>1, <1>10, <2>1
  <2>3. r[k + 1] \in V
    BY <1>12, <2>2 DEF Taken, V
  <2> QED
    BY <2>1, <2>3
<1>13. n \in G
  <2> HIDE DEF G
  <2> QED
    BY <1>1, <1>11, <1>12, Counting
<1> QED
  BY <1>9, <1>13 DEF V

(* What a provider answers with holds every call that is made. *)
LEMMA CallsAreParts == \A parts \in Completions : parseToolCalls(parts) \in Seq(Parts)
<1> SUFFICES ASSUME NEW parts \in Completions
             PROVE  parseToolCalls(parts) \in Seq(Parts)
  OBVIOUS
<1>1. parts \in Seq(ToSet(parts)) /\ ToSet(parts) \subseteq Parts
  BY CompletionsAssumption DEF Parts
<1>2. parts \in Seq(Parts)
  BY <1>1
<1> QED
  BY <1>2, TakenType

--------------------------------------------------------------------------------
(* The tools of some blocks, block by block. *)
Noted(tools, b, type) == IF b.type = type THEN Append(tools, b.tool) ELSE tools

ToolsLoop(g, s, type) ==
    g = [t \in SUBSET DOMAIN s |-> IF t = {} THEN <<>> ELSE Noted(g[t \ {Max(t)}], s[Max(t)], type)]

LEMMA ToolsUnfold ==
    ASSUME NEW s, NEW type
    PROVE  ToolsOf(s, type) = (CHOOSE g : ToolsLoop(g, s, type))[DOMAIN s]
BY DEF ToolsOf, FoldLeft, MapThenFoldSet, ToolsLoop, Noted

(* What is sent, message by message. *)
MergedLoop(g, s) ==
    g = [t \in SUBSET DOMAIN s |-> IF t = {} THEN <<>> ELSE Joined(g[t \ {Max(t)}], s[Max(t)])]

LEMMA MergedUnfolds ==
    ASSUME NEW s
    PROVE  Merged(s) = (CHOOSE g : MergedLoop(g, s))[DOMAIN s]
BY DEF Merged, FoldLeft, MapThenFoldSet, MergedLoop

(* r has the result of the loop after each turn. *)
ToolsRun(r, s, type) ==
    /\ r[0] = <<>> /\ r[Len(s)] = ToolsOf(s, type)
    /\ \A k \in 1..Len(s) : r[k] = Noted(r[k - 1], s[k], type)

LEMMA ToolsTurns ==
    ASSUME NEW Y, NEW T, NEW s \in Seq(Blocks(Y, T)), NEW type
    PROVE  \E r : ToolsRun(r, s, type)
<1> DEFINE V == Seq(T)
           P == Blocks(Y, T)
           F == [x \in V \X P |-> Noted(x[1], x[2], type)]
           n == Len(s)
           it == CHOOSE g : ToolsLoop(g, s, type)
<1>1. n \in Nat /\ DOMAIN s = 1..n /\ \A i \in 1..n : s[i] \in P
  OBVIOUS
<1>2. F \in [V \X P -> V] /\ <<>> \in V /\ s \in Seq(P)
  BY DEF Noted, Blocks
<1>3. PICK g \in [SUBSET (1..n) -> V] : Iterates(g, <<>>, F, s, n)
  <2> HIDE DEF F, V, P
  <2> QED
    BY <1>2, LoopExists DEF n
<1>4. ToolsLoop(g, s, type)
  <2>1. \A t \in SUBSET (1..n) :
           g[t] = IF t = {} THEN <<>> ELSE F[<<g[t \ {Max(t)}], s[Max(t)]>>]
    BY <1>3 DEF Iterates
  <2>2. ASSUME NEW t \in SUBSET (1..n), t # {}
        PROVE  g[t] = Noted(g[t \ {Max(t)}], s[Max(t)], type)
    <3>1. Max(t) \in 1..n
      BY <1>1, <2>2, MaxOfPlaces
    <3>2. g[t \ {Max(t)}] \in V /\ s[Max(t)] \in P
      <4> HIDE DEF V, P
      <4> QED
        BY <1>1, <1>3, <3>1
    <3> HIDE DEF V, P
    <3> QED
      BY <2>1, <2>2, <3>2
  <2>3. g = [t \in SUBSET (1..n) |->
               IF t = {} THEN <<>> ELSE Noted(g[t \ {Max(t)}], s[Max(t)], type)]
    BY <1>3, <2>1, <2>2
  <2> QED
    BY <1>1, <2>3 DEF ToolsLoop
<1>5. ToolsLoop(it, s, type)
  BY <1>4
<1>6. \A t \in SUBSET (1..n) : it[t] = IF t = {} THEN <<>> ELSE Noted(it[t \ {Max(t)}], s[Max(t)], type)
  BY <1>1, <1>5 DEF ToolsLoop
<1>7. it[1..n] = ToolsOf(s, type)
  BY <1>1, ToolsUnfold
<1> HIDE DEF it, n, V, P
<1>8. PICK r : Unrolls(r, it, n)
  BY <1>1, LoopRuns
<1>9. r[0] = <<>> /\ r[n] = ToolsOf(s, type)
  BY <1>6, <1>7, <1>8 DEF Unrolls
<1>10. ASSUME NEW k \in 1..n PROVE r[k] = Noted(r[k - 1], s[k], type)
  BY <1>6, <1>8 DEF Unrolls
<1>11. ToolsRun(r, s, type)
  BY <1>9, <1>10 DEF n, ToolsRun
<1> QED
  BY <1>11

LEMMA JoinedOK ==
    ASSUME NEW R, NEW B, NEW out \in Seq(Turns(R, B)), NEW m \in Turns(R, B)
    PROVE  Joined(out, m) \in Seq(Turns(R, B))
<1> DEFINE P == Turns(R, B)
<1>1. CASE out # <<>> /\ Last(out).role = m.role
  <2>1. Len(out) \in 1..Len(out) /\ out[Len(out)] \in P /\ Last(out) = out[Len(out)]
    BY <1>1 DEF Last
  <2>2. PICK ro \in R, c \in Seq(B) : out[Len(out)] = [role |-> ro, content |-> c]
    BY <2>1 DEF Turns
  <2>3. c \o m.content \in Seq(B)
    BY DEF Turns
  <2> DEFINE x == out[Len(out)].content \o m.content
  <2>4. Joined(out, m) = [out EXCEPT ![Len(out)] = [role |-> ro, content |-> x]]
    <3>1. Joined(out, m) = [out EXCEPT ![Len(out)].content = x]
      BY <1>1 DEF Joined
    <3> HIDE DEF x
    <3>2. [out[Len(out)] EXCEPT !.content = x] = [role |-> ro, content |-> x]
      BY <2>2
    <3> QED
      BY <2>1, <3>1, <3>2
  <2>5. [role |-> ro, content |-> x] \in P
    <3>1. x = c \o m.content
      BY <2>2
    <3> HIDE DEF x
    <3> QED
      BY <2>3, <3>1 DEF Turns
  <2> HIDE DEF P, x
  <2> QED
    BY <2>1, <2>4, <2>5 DEF P
<1>2. CASE ~(out # <<>> /\ Last(out).role = m.role)
  <2>1. Joined(out, m) = Append(out, m)
    BY <1>2 DEF Joined
  <2> QED
    BY <2>1
<1> QED
  BY <1>1, <1>2

LEMMA MergedTurns ==
    ASSUME NEW R, NEW B, NEW s \in Seq(Turns(R, B))
    PROVE  \E r : /\ r[0] = <<>> /\ r[Len(s)] = Merged(s)
                  /\ \A k \in 1..Len(s) : r[k] = Joined(r[k - 1], s[k])
<1> DEFINE P == Turns(R, B)
           V == Seq(P)
           F == [x \in V \X P |-> Joined(x[1], x[2])]
           n == Len(s)
           it == CHOOSE g : MergedLoop(g, s)
<1>1. n \in Nat /\ DOMAIN s = 1..n /\ \A i \in 1..n : s[i] \in P
  OBVIOUS
<1>2. F \in [V \X P -> V] /\ <<>> \in V /\ s \in Seq(P)
  <2>1. \A out \in V, m \in P : Joined(out, m) \in V
    BY JoinedOK
  <2> HIDE DEF P
  <2> QED
    BY <2>1 DEF P
<1>3. PICK g \in [SUBSET (1..n) -> V] : Iterates(g, <<>>, F, s, n)
  <2> HIDE DEF F, V, P
  <2> QED
    BY <1>2, LoopExists DEF n
<1>4. MergedLoop(g, s)
  <2>1. \A t \in SUBSET (1..n) :
           g[t] = IF t = {} THEN <<>> ELSE F[<<g[t \ {Max(t)}], s[Max(t)]>>]
    BY <1>3 DEF Iterates
  <2>2. ASSUME NEW t \in SUBSET (1..n), t # {}
        PROVE  g[t] = Joined(g[t \ {Max(t)}], s[Max(t)])
    <3>1. Max(t) \in 1..n
      BY <1>1, <2>2, MaxOfPlaces
    <3>2. g[t \ {Max(t)}] \in V /\ s[Max(t)] \in P
      <4> HIDE DEF V, P
      <4> QED
        BY <1>1, <1>3, <3>1
    <3> HIDE DEF V, P
    <3> QED
      BY <2>1, <2>2, <3>2
  <2>3. g = [t \in SUBSET (1..n) |->
               IF t = {} THEN <<>> ELSE Joined(g[t \ {Max(t)}], s[Max(t)])]
    BY <1>3, <2>1, <2>2
  <2> QED
    BY <1>1, <2>3 DEF MergedLoop
<1>5. MergedLoop(it, s)
  BY <1>4
<1>6. \A t \in SUBSET (1..n) : it[t] = IF t = {} THEN <<>> ELSE Joined(it[t \ {Max(t)}], s[Max(t)])
  BY <1>1, <1>5 DEF MergedLoop
<1>7. it[1..n] = Merged(s)
  BY <1>1, MergedUnfolds
<1> HIDE DEF it, n, V, P
<1>8. PICK r : Unrolls(r, it, n)
  BY <1>1, LoopRuns
<1>9. r[0] = <<>> /\ r[n] = Merged(s)
  BY <1>6, <1>7, <1>8 DEF Unrolls
<1>10. ASSUME NEW k \in 1..n PROVE r[k] = Joined(r[k - 1], s[k])
  BY <1>6, <1>8 DEF Unrolls
<1> QED
  BY <1>9, <1>10 DEF n

(* One more block, one more tool at most. *)
LEMMA ToolsGrow ==
    ASSUME NEW Y, NEW T, NEW s \in Seq(Blocks(Y, T)), NEW b \in Blocks(Y, T), NEW type
    PROVE  ToolsOf(Append(s, b), type) = Noted(ToolsOf(s, type), b, type)
<1> DEFINE n == Len(s)
           s1 == Append(s, b)
<1>1. /\ n \in Nat /\ s1 \in Seq(Blocks(Y, T)) /\ Len(s1) = n + 1 /\ s1[n + 1] = b
      /\ \A k \in 1..n : s1[k] = s[k]
  BY AppendFacts
<1> HIDE DEF s1
<1>2. PICK r : /\ r[0] = <<>> /\ r[n] = ToolsOf(s, type)
               /\ \A k \in 1..n : r[k] = Noted(r[k - 1], s[k], type)
  <2>1. PICK r : ToolsRun(r, s, type)
    BY ToolsTurns
  <2> QED
    BY <2>1 DEF ToolsRun
<1>3. PICK q : /\ q[0] = <<>> /\ q[n + 1] = ToolsOf(s1, type)
               /\ \A k \in 1..(n + 1) : q[k] = Noted(q[k - 1], s1[k], type)
  <2>1. PICK q : ToolsRun(q, s1, type)
    BY <1>1, ToolsTurns
  <2> QED
    BY <1>1, <2>1 DEF ToolsRun
<1> HIDE DEF n
<1> DEFINE G == {k \in 0..n : q[k] = r[k]}
<1>4. 0 \in G
  BY <1>1, <1>2, <1>3
<1>5. ASSUME NEW k \in 0..(n - 1), k \in G PROVE k + 1 \in G
  <2>1. k + 1 \in 1..n /\ k + 1 \in 1..(n + 1) /\ k + 1 \in 0..n /\ (k + 1) - 1 = k
    BY <1>1
  <2>2. r[k + 1] = Noted(r[k], s[k + 1], type)
    BY <1>2, <2>1
  <2>3. q[k + 1] = Noted(q[k], s1[k + 1], type)
    BY <1>3, <2>1
  <2> QED
    BY <1>1, <1>5, <2>1, <2>2, <2>3
<1>6. n \in G
  <2> HIDE DEF G
  <2> QED
    BY <1>1, <1>4, <1>5, Counting
<1>7. n + 1 \in 1..(n + 1) /\ (n + 1) - 1 = n
  BY <1>1
<1> QED
  BY <1>1, <1>2, <1>3, <1>6, <1>7 DEF s1

(* One more message is joined to what is sent. *)
LEMMA MergedGrows ==
    ASSUME NEW R, NEW B, NEW s \in Seq(Turns(R, B)), NEW b \in Turns(R, B)
    PROVE  Merged(Append(s, b)) = Joined(Merged(s), b)
<1> DEFINE n == Len(s)
           s1 == Append(s, b)
<1>1. /\ n \in Nat /\ s1 \in Seq(Turns(R, B)) /\ Len(s1) = n + 1 /\ s1[n + 1] = b
      /\ \A k \in 1..n : s1[k] = s[k]
  BY AppendFacts
<1> HIDE DEF s1
<1>2. PICK r : /\ r[0] = <<>> /\ r[n] = Merged(s)
               /\ \A k \in 1..n : r[k] = Joined(r[k - 1], s[k])
  BY MergedTurns
<1>3. PICK q : /\ q[0] = <<>> /\ q[n + 1] = Merged(s1)
               /\ \A k \in 1..(n + 1) : q[k] = Joined(q[k - 1], s1[k])
  <2>1. PICK q : /\ q[0] = <<>> /\ q[Len(s1)] = Merged(s1)
                 /\ \A k \in 1..Len(s1) : q[k] = Joined(q[k - 1], s1[k])
    <3>1. s1 \in Seq(Turns(R, B))
      BY <1>1
    <3> QED
      BY <3>1, MergedTurns
  <2> QED
    BY <1>1, <2>1
<1> HIDE DEF n
<1> DEFINE G == {k \in 0..n : q[k] = r[k]}
<1>4. 0 \in G
  BY <1>1, <1>2, <1>3
<1>5. ASSUME NEW k \in 0..(n - 1), k \in G PROVE k + 1 \in G
  <2>1. k + 1 \in 1..n /\ k + 1 \in 1..(n + 1) /\ k + 1 \in 0..n /\ (k + 1) - 1 = k
    BY <1>1
  <2>2. r[k + 1] = Joined(r[k], s[k + 1])
    BY <1>2, <2>1
  <2>3. q[k + 1] = Joined(q[k], s1[k + 1])
    BY <1>3, <2>1
  <2> QED
    BY <1>1, <1>5, <2>1, <2>2, <2>3
<1>6. n \in G
  <2> HIDE DEF G
  <2> QED
    BY <1>1, <1>4, <1>5, Counting
<1>7. n + 1 \in 1..(n + 1) /\ (n + 1) - 1 = n
  BY <1>1
<1> QED
  BY <1>1, <1>2, <1>3, <1>6, <1>7 DEF s1

LEMMA NoTools == \A type : ToolsOf(<<>>, type) = <<>>
<1> SUFFICES ASSUME NEW type PROVE ToolsOf(<<>>, type) = <<>>
  OBVIOUS
<1> DEFINE s == <<>>
<1>1. s \in Seq(Blocks({}, {})) /\ Len(s) = 0
  OBVIOUS
<1> HIDE DEF s
<1>2. PICK r : ToolsRun(r, s, type)
  BY <1>1, ToolsTurns
<1> QED
  BY <1>1, <1>2 DEF s, ToolsRun

LEMMA NothingMerged == Merged(<<>>) = <<>>
<1> DEFINE s == <<>>
<1>1. s \in Seq(Turns({}, {})) /\ Len(s) = 0
  OBVIOUS
<1> HIDE DEF s
<1>2. PICK r : r[0] = <<>> /\ r[Len(s)] = Merged(s)
  BY <1>1, MergedTurns
<1> QED
  BY <1>1, <1>2 DEF s

(* What a loop gives has the kind of what it is made of. *)
LEMMA ToolsType ==
    ASSUME NEW Y, NEW T, NEW s \in Seq(Blocks(Y, T)), NEW type
    PROVE  ToolsOf(s, type) \in Seq(T)
<1> DEFINE n == Len(s)
           V == Seq(T)
<1>1. n \in Nat /\ \A k \in 1..n : s[k] \in Blocks(Y, T)
  OBVIOUS
<1>2. PICK r : /\ r[0] = <<>> /\ r[n] = ToolsOf(s, type)
               /\ \A k \in 1..n : r[k] = Noted(r[k - 1], s[k], type)
  <2>1. PICK r : ToolsRun(r, s, type)
    BY ToolsTurns
  <2> QED
    BY <2>1 DEF ToolsRun
<1> HIDE DEF n
<1> DEFINE G == {k \in 0..n : r[k] \in V}
<1>3. 0 \in G
  <2>1. <<>> \in V
    OBVIOUS
  <2> HIDE DEF V
  <2> QED
    BY <1>1, <1>2, <2>1
<1>4. ASSUME NEW k \in 0..(n - 1), k \in G PROVE k + 1 \in G
  <2>1. k + 1 \in 1..n /\ k + 1 \in 0..n /\ (k + 1) - 1 = k
    BY <1>1
  <2>2. r[k + 1] = Noted(r[k], s[k + 1], type) /\ s[k + 1].tool \in T
    BY <1>1, <1>2, <2>1 DEF Blocks
  <2>3. r[k + 1] \in V
    BY <1>4, <2>2 DEF Noted
  <2> HIDE DEF V
  <2> QED
    BY <2>1, <2>3
<1>5. n \in G
  <2> HIDE DEF G
  <2> QED
    BY <1>1, <1>3, <1>4, Counting
<1> QED
  BY <1>2, <1>5

LEMMA MergedType ==
    ASSUME NEW R, NEW B, NEW s \in Seq(Turns(R, B))
    PROVE  Merged(s) \in Seq(Turns(R, B))
<1> DEFINE n == Len(s)
           V == Seq(Turns(R, B))
<1>1. n \in Nat /\ \A k \in 1..n : s[k] \in Turns(R, B)
  OBVIOUS
<1>2. PICK r : /\ r[0] = <<>> /\ r[n] = Merged(s)
               /\ \A k \in 1..n : r[k] = Joined(r[k - 1], s[k])
  BY MergedTurns
<1> HIDE DEF n
<1> DEFINE G == {k \in 0..n : r[k] \in V}
<1>3. 0 \in G
  <2>1. <<>> \in V
    OBVIOUS
  <2> HIDE DEF V
  <2> QED
    BY <1>1, <1>2, <2>1
<1>4. ASSUME NEW k \in 0..(n - 1), k \in G PROVE k + 1 \in G
  <2>1. k + 1 \in 1..n /\ k + 1 \in 0..n /\ (k + 1) - 1 = k
    BY <1>1
  <2>2. r[k + 1] = Joined(r[k], s[k + 1]) /\ s[k + 1] \in Turns(R, B)
    BY <1>1, <1>2, <2>1
  <2>3. r[k + 1] \in V
    BY <1>4, <2>2, JoinedOK
  <2> HIDE DEF V
  <2> QED
    BY <2>1, <2>3
<1>5. n \in G
  <2> HIDE DEF G
  <2> QED
    BY <1>1, <1>3, <1>4, Counting
<1> QED
  BY <1>2, <1>5

(* The blocks of one type that hold these tools. *)
Holding(type, tools) == [i \in 1..Len(tools) |-> Block(type, tools[i])]

Collects(T, tools, type, other) ==
    /\ Holding(type, tools) \in Seq(Blocks({type}, T)) /\ Len(Holding(type, tools)) = Len(tools)
    /\ ToolsOf(Holding(type, tools), type) = tools
    /\ ToolsOf(Holding(type, tools), other) = <<>>

(* Every block of one type is one of the tools; none of another type is. *)
LEMMA ToolsOfCalls ==
    ASSUME NEW T, NEW tools \in Seq(T), NEW type, NEW other, type # other
    PROVE  Collects(T, tools, type, other)
<1> DEFINE blocks == [i \in 1..Len(tools) |-> Block(type, tools[i])]
           n == Len(tools)
<1>1. n \in Nat /\ \A i \in 1..n : tools[i] \in T
  OBVIOUS
<1>2. blocks \in Seq(Blocks({type}, T)) /\ Len(blocks) = n /\ \A i \in 1..n : blocks[i] = Block(type, tools[i])
  <2>1. \A i \in 1..n : Block(type, tools[i]) \in Blocks({type}, T)
    BY <1>1 DEF Block, Blocks
  <2>2. blocks \in Seq(Blocks({type}, T))
    <3> DEFINE e(i) == Block(type, tools[i])
               P == Blocks({type}, T)
    <3>1. n \in Nat /\ \A i \in 1..n : e(i) \in P
      BY <1>1, <2>1
    <3> HIDE DEF e, P, n
    <3>2. [i \in 1..n |-> e(i)] \in Seq(P)
      BY <3>1, IsASeq
    <3> QED
      BY <3>2 DEF e, P, n
  <2>3. Len(blocks) = n
    BY <1>1
  <2> QED
    BY <2>2, <2>3
<1>3. \A i \in 1..n : blocks[i].type = type /\ blocks[i].tool = tools[i]
  BY <1>2 DEF Block
<1> HIDE DEF blocks, n
<1>4. PICK r : /\ r[0] = <<>> /\ r[n] = ToolsOf(blocks, type)
               /\ \A k \in 1..n : r[k] = Noted(r[k - 1], blocks[k], type)
  <2>1. PICK r : ToolsRun(r, blocks, type)
    BY <1>2, ToolsTurns
  <2> QED
    BY <1>2, <2>1 DEF ToolsRun
<1>5. PICK q : /\ q[0] = <<>> /\ q[n] = ToolsOf(blocks, other)
               /\ \A k \in 1..n : q[k] = Noted(q[k - 1], blocks[k], other)
  <2>1. PICK q : ToolsRun(q, blocks, other)
    BY <1>2, ToolsTurns
  <2> QED
    BY <1>2, <2>1 DEF ToolsRun
<1> DEFINE G == {k \in 0..n : /\ q[k] = <<>> /\ r[k] \in Seq(T) /\ Len(r[k]) = k
                              /\ \A i \in 1..k : r[k][i] = tools[i]}
<1>6. 0 \in G
  <2>1. 0 \in 0..n /\ <<>> \in Seq(T) /\ Len(<<>>) = 0 /\ 1..0 = {}
    BY <1>1
  <2> QED
    BY <1>4, <1>5, <2>1
<1>7. ASSUME NEW k \in 0..(n - 1), k \in G PROVE k + 1 \in G
  <2>1. k + 1 \in 1..n /\ k + 1 \in 0..n /\ (k + 1) - 1 = k /\ k \in Nat
    BY <1>1
  <2>2. q[k + 1] = <<>>
    BY <1>3, <1>5, <1>7, <2>1 DEF Noted
  <2>3. r[k + 1] = Append(r[k], tools[k + 1])
    BY <1>3, <1>4, <2>1 DEF Noted
  <2>4. r[k] \in Seq(T) /\ Len(r[k]) = k /\ tools[k + 1] \in T /\ \A i \in 1..k : r[k][i] = tools[i]
    BY <1>1, <1>7, <2>1
  <2>5. /\ r[k + 1] \in Seq(T) /\ Len(r[k + 1]) = k + 1 /\ r[k + 1][k + 1] = tools[k + 1]
        /\ \A i \in 1..k : r[k + 1][i] = r[k][i]
    BY <2>3, <2>4, AppendFacts
  <2>6. \A i \in 1..(k + 1) : r[k + 1][i] = tools[i]
    <3>1. \A i \in 1..(k + 1) : i \in 1..k \/ i = k + 1
      BY <2>1
    <3> QED
      BY <2>4, <2>5, <3>1
  <2> QED
    BY <2>1, <2>2, <2>5, <2>6
<1>8. n \in G
  <2> HIDE DEF G
  <2> QED
    BY <1>1, <1>6, <1>7, Counting
<1>9. q[n] = <<>> /\ r[n] \in Seq(T) /\ Len(r[n]) = n /\ \A i \in 1..n : r[n][i] = tools[i]
  BY <1>8
<1>10. r[n] = tools
  <2>1. tools \in Seq(T) /\ Len(tools) = n
    BY DEF n
  <2> QED
    BY <1>9, <2>1
<1> QED
  BY <1>2, <1>4, <1>5, <1>9, <1>10 DEF Collects, Holding, blocks, n

--------------------------------------------------------------------------------
(* How the two formats in which roles alternate grow. *)

(* What was in order stays so when a message is added or the last one gets *)
(* longer.                                                                 *)
LEMMA OrderStays ==
    ASSUME NEW f, NEW out, NEW out1, NEW n \in Nat,
           \A i \in 1..n : out1[i] = out[i], InOrderTo(out, n, f)
    PROVE  InOrderTo(out1, n, f)
<1> SUFFICES ASSUME NEW i \in 1..n
             PROVE  /\ out1[i].role = (IF i % 2 = 1 THEN "user" ELSE f.model)
                    /\ Answers(out1, i, f.call, f.result)
  BY DEF InOrderTo
<1>1. out1[i] = out[i] /\ (i # 1 => out1[i - 1] = out[i - 1])
  OBVIOUS
<1>2. out[i].role = (IF i % 2 = 1 THEN "user" ELSE f.model) /\ Answers(out, i, f.call, f.result)
  BY DEF InOrderTo
<1> QED
  BY <1>1, <1>2 DEF Answers

(* The rest of some calls, behind the first. *)
LEMMA HeadAndTail ==
    ASSUME NEW S, NEW s \in Seq(S), s # <<>>
    PROVE  /\ Head(s) \in S /\ Tail(s) \in Seq(S)
           /\ <<Head(s)>> \o Tail(s) = s
           /\ \A r \in Seq(S) : Append(r, Head(s)) \o Tail(s) = r \o s
OBVIOUS

(* One message behind the last, of the other role, is one more. *)
LEMMA JoinedAppends ==
    ASSUME NEW f, NEW out \in Seq(TurnsOf(f)), NEW m \in TurnsOf(f),
           out = <<>> \/ out[Len(out)].role # m.role
    PROVE  /\ Joined(out, m) = Append(out, m) /\ Joined(out, m) \in Seq(TurnsOf(f))
           /\ Len(Joined(out, m)) = Len(out) + 1
           /\ Joined(out, m)[Len(out) + 1] = m
           /\ \A i \in 1..Len(out) : Joined(out, m)[i] = out[i]
<1>1. Joined(out, m) = Append(out, m)
  BY DEF Joined, Last
<1> QED
  BY <1>1, AppendFacts

(* The model answers a user that owes nothing. *)
LEMMA ModelSpeaks ==
    ASSUME NEW f, IsFormat(f), NEW out \in Seq(TurnsOf(f)), NEW m \in TurnsOf(f),
           Heard(out, <<>>, f), m.role = f.model, ToolsOf(m.content, f.result) = <<>>
    PROVE  Joined(out, m) \in Seq(TurnsOf(f)) /\ Spoke(Joined(out, m), ToolsOf(m.content, f.call), f)
<1> DEFINE n == Len(out)
           out1 == Joined(out, m)
<1>1. n \in Nat /\ n % 2 = 1 /\ n > 0 /\ n \in 1..n /\ out # <<>>
  BY DEF Heard
<1>2. /\ out1 \in Seq(TurnsOf(f)) /\ Len(out1) = n + 1 /\ out1[n + 1] = m
      /\ \A i \in 1..n : out1[i] = out[i]
  <2>1. out[n].role = "user"
    BY DEF Heard, Owes
  <2> QED
    BY <2>1, JoinedAppends DEF IsFormat
<1>3. Owes(out[n], CalledBefore(out, f), <<>>, f) /\ InOrderTo(out, n - 1, f)
  BY DEF Heard
<1> HIDE DEF out1, n
<1>4. \A i \in 1..(n - 1) : i \in 1..n
  BY <1>1
<1>5. InOrderTo(out1, n - 1, f)
  <2>1. n - 1 \in Nat /\ \A i \in 1..(n - 1) : out1[i] = out[i]
    BY <1>1, <1>2, <1>4
  <2> QED
    BY <1>3, <2>1, OrderStays
<1>6. out1[n].role = "user" /\ Answers(out1, n, f.call, f.result)
  <2> DEFINE results == ToolsOf(out[n].content, f.result)
  <2>1. results \in Seq(Names \union {"none"}) /\ results \o <<>> = results
    <3>1. out[n].content \in Seq(BlocksOf(f))
      <4>1. out[n] \in TurnsOf(f)
        BY <1>1 DEF n
      <4> QED
        BY <4>1 DEF TurnsOf, Turns
    <3>2. results \in Seq(Names \union {"none"})
      BY <3>1, ToolsType DEF BlocksOf
    <3> HIDE DEF results
    <3> QED
      BY <3>2
  <2>2. CalledBefore(out, f) = IF n = 1 THEN <<>> ELSE ToolsOf(out1[n - 1].content, f.call)
    <3>1. n # 1 => n - 1 \in 1..n
      BY <1>1
    <3> QED
      BY <1>2, <3>1 DEF CalledBefore, n
  <2>3. out1[n] = out[n]
    BY <1>1, <1>2
  <2> QED
    BY <1>3, <2>1, <2>2, <2>3 DEF Owes, Answers
<1>7. out1[n + 1].role = f.model /\ Answers(out1, n + 1, f.call, f.result)
  <2>1. n + 1 # 1 /\ (n + 1) - 1 = n /\ out1[n] = out[n]
    BY <1>1, <1>2
  <2>2. ToolsOf(out[n].content, f.call) = <<>>
    BY <1>3 DEF Owes
  <2> QED
    BY <1>2, <2>1, <2>2 DEF Answers
<1>8. InOrderTo(out1, n + 1, f)
  <2> SUFFICES ASSUME NEW i \in 1..(n + 1)
               PROVE  /\ out1[i].role = (IF i % 2 = 1 THEN "user" ELSE f.model)
                      /\ Answers(out1, i, f.call, f.result)
    BY DEF InOrderTo
  <2>1. i \in 1..(n - 1) \/ i = n \/ i = n + 1
    BY <1>1
  <2>2. (n + 1) % 2 # 1
    BY <1>1
  <2> QED
    BY <1>1, <1>5, <1>6, <1>7, <2>1, <2>2 DEF InOrderTo
<1>9. n + 1 > 0 /\ (n + 1) % 2 = 0
  BY <1>1
<1> QED
  BY <1>2, <1>8, <1>9 DEF Spoke, out1

(* After a word of the model that calls nothing, or first of all, the user *)
(* asks.                                                                   *)
LEMMA UserAsks ==
    ASSUME NEW f, IsFormat(f), NEW out \in Seq(TurnsOf(f)), NEW m \in TurnsOf(f),
           out = <<>> \/ Spoke(out, <<>>, f), m.role = "user",
           ToolsOf(m.content, f.call) = <<>>, ToolsOf(m.content, f.result) = <<>>
    PROVE  Joined(out, m) \in Seq(TurnsOf(f)) /\ Heard(Joined(out, m), <<>>, f)
<1> DEFINE n == Len(out)
           out1 == Joined(out, m)
<1>1. /\ n \in Nat /\ n % 2 = 0 /\ (out = <<>> => n = 0) /\ (out # <<>> => n > 0)
      /\ out # <<>> => InOrderTo(out, n, f) /\ ToolsOf(out[n].content, f.call) = <<>>
  BY DEF Spoke
<1>2. /\ out1 \in Seq(TurnsOf(f)) /\ Len(out1) = n + 1 /\ out1[n + 1] = m
      /\ \A i \in 1..n : out1[i] = out[i]
  <2>1. out # <<>> => out[n].role = f.model
    <3>1. out # <<>> => n \in 1..n /\ n % 2 # 1
      BY <1>1
    <3> HIDE DEF n
    <3> QED
      BY <1>1, <3>1 DEF InOrderTo
  <2> QED
    BY <2>1, JoinedAppends DEF IsFormat
<1> HIDE DEF out1, n
<1>3. InOrderTo(out1, n, f)
  <2>1. CASE out = <<>>
    <3>1. 1..n = {}
      BY <1>1, <2>1
    <3> QED
      BY <3>1 DEF InOrderTo
  <2>2. CASE out # <<>>
    BY <1>1, <1>2, <2>2, OrderStays
  <2> QED
    BY <2>1, <2>2
<1>4. CalledBefore(out1, f) = <<>>
  <2>1. n + 1 # 1 => (n + 1) - 1 = n /\ n \in 1..n /\ out # <<>>
    BY <1>1
  <2> QED
    BY <1>1, <1>2, <2>1 DEF CalledBefore
<1>5. Owes(m, <<>>, <<>>, f)
  <2>1. <<>> \o <<>> = <<>>
    OBVIOUS
  <2> QED
    BY <2>1 DEF Owes
<1>6. (n + 1) % 2 = 1 /\ (n + 1) - 1 = n
  BY <1>1
<1> QED
  BY <1>2, <1>3, <1>4, <1>5, <1>6 DEF Heard, out1

--------------------------------------------------------------------------------
(* One more result among some blocks. *)
LEMMA ResultsGrow ==
    ASSUME NEW f, IsFormat(f), NEW content \in Seq(BlocksOf(f)), NEW t \in Names \union {"none"}
    PROVE  LET b == Block(f.result, t)
           IN  /\ b \in BlocksOf(f) /\ content \o <<b>> = Append(content, b)
               /\ ToolsOf(Append(content, b), f.call) = ToolsOf(content, f.call)
               /\ ToolsOf(Append(content, b), f.result) = Append(ToolsOf(content, f.result), t)
<1> DEFINE b == Block(f.result, t)
<1>1. b \in BlocksOf(f) /\ b.type = f.result /\ b.tool = t
  BY DEF Block, BlocksOf, Blocks
<1> HIDE DEF b
<1>2. content \o <<b>> = Append(content, b)
  BY <1>1
<1>3. ToolsOf(Append(content, b), f.call) = Noted(ToolsOf(content, f.call), b, f.call)
  BY <1>1, ToolsGrow DEF BlocksOf
<1>4. ToolsOf(Append(content, b), f.result) = Noted(ToolsOf(content, f.result), b, f.result)
  BY <1>1, ToolsGrow DEF BlocksOf
<1> QED
  BY <1>1, <1>2, <1>3, <1>4 DEF Noted, IsFormat, b

(* The first result is a message of its own... *)
LEMMA FirstResult ==
    ASSUME NEW f, IsFormat(f), NEW out \in Seq(TurnsOf(f)), NEW m \in TurnsOf(f),
           NEW tools \in Seq(Tools), tools # <<>>, Spoke(out, tools, f),
           m.role = "user", m.content = <<Block(f.result, Head(tools))>>
    PROVE  Joined(out, m) \in Seq(TurnsOf(f)) /\ Heard(Joined(out, m), Tail(tools), f)
<1> DEFINE n == Len(out)
           out1 == Joined(out, m)
           t == Head(tools)
           b == Block(f.result, t)
<1>1. n \in Nat /\ n > 0 /\ n % 2 = 0 /\ InOrderTo(out, n, f) /\ ToolsOf(out[n].content, f.call) = tools
  BY DEF Spoke
<1>2. n \in 1..n /\ n % 2 # 1 /\ out # <<>>
  BY <1>1
<1>3. out[n].role = f.model
  <2> HIDE DEF n
  <2> QED
    BY <1>1, <1>2 DEF InOrderTo
<1>4. /\ out1 \in Seq(TurnsOf(f)) /\ Len(out1) = n + 1 /\ out1[n + 1] = m
      /\ \A i \in 1..n : out1[i] = out[i]
  BY <1>2, <1>3, JoinedAppends DEF IsFormat
<1> HIDE DEF out1, n
<1>5. InOrderTo(out1, n, f)
  BY <1>1, <1>4, OrderStays
<1>6. CalledBefore(out1, f) = tools
  <2>1. n + 1 # 1 /\ (n + 1) - 1 = n
    BY <1>1
  <2> QED
    BY <1>1, <1>2, <1>4, <2>1 DEF CalledBefore
<1>7. t \in Tools /\ Tail(tools) \in Seq(Tools) /\ <<t>> \o Tail(tools) = tools
  BY HeadAndTail
<1>8. /\ b \in BlocksOf(f) /\ Append(<<>>, b) = <<b>> /\ Append(<<>>, t) = <<t>>
      /\ ToolsOf(<<b>>, f.call) = <<>> /\ ToolsOf(<<b>>, f.result) = <<t>>
  <2> DEFINE content == <<>>
  <2>1. content \in Seq(BlocksOf(f))
    OBVIOUS
  <2>2. \A type : ToolsOf(content, type) = <<>>
    BY NoTools
  <2> HIDE DEF content, t
  <2>3. /\ b \in BlocksOf(f)
        /\ ToolsOf(Append(content, b), f.call) = ToolsOf(content, f.call)
        /\ ToolsOf(Append(content, b), f.result) = Append(ToolsOf(content, f.result), t)
    BY <1>7, <2>1, ResultsGrow DEF Tools
  <2> HIDE DEF b
  <2>4. Append(content, b) = <<b>> /\ Append(<<>>, t) = <<t>> /\ Append(<<>>, b) = <<b>>
    BY DEF content
  <2> QED
    BY <2>2, <2>3, <2>4
<1>9. Owes(m, tools, Tail(tools), f)
  <2>1. m.content = <<b>>
    OBVIOUS
  <2> HIDE DEF b, t
  <2>2. Len(<<b>>) = 1 /\ Len(<<t>>) = 1
    OBVIOUS
  <2> QED
    BY <1>7, <1>8, <2>1, <2>2 DEF Owes
<1>10. (n + 1) % 2 = 1 /\ (n + 1) - 1 = n
  BY <1>1
<1> QED
  BY <1>4, <1>5, <1>6, <1>9, <1>10 DEF Heard, out1

(* ...and the next ones go with it. *)
LEMMA NextResult ==
    ASSUME NEW f, IsFormat(f), NEW out \in Seq(TurnsOf(f)), NEW m \in TurnsOf(f),
           NEW tools \in Seq(Tools), tools # <<>>, Heard(out, tools, f),
           m.role = "user", m.content = <<Block(f.result, Head(tools))>>
    PROVE  Joined(out, m) \in Seq(TurnsOf(f)) /\ Heard(Joined(out, m), Tail(tools), f)
<1> DEFINE n == Len(out)
           out1 == Joined(out, m)
           t == Head(tools)
           b == Block(f.result, t)
           last == out[n]
           content == last.content
           grown == Append(content, b)
           called == CalledBefore(out, f)
<1>1. /\ n \in Nat /\ n % 2 = 1 /\ n > 0 /\ n \in 1..n /\ out # <<>>
      /\ InOrderTo(out, n - 1, f) /\ Owes(last, called, tools, f)
  BY DEF Heard
<1>2. /\ t \in Tools /\ Tail(tools) \in Seq(Tools) /\ <<t>> \o Tail(tools) = tools
      /\ \A r \in Seq(Tools) : Append(r, t) \o Tail(tools) = r \o tools
  BY HeadAndTail
<1>3. last \in TurnsOf(f) /\ content \in Seq(BlocksOf(f)) /\ last = [role |-> last.role, content |-> content]
  <2>1. last \in TurnsOf(f)
    BY <1>1
  <2> HIDE DEF last
  <2> QED
    BY <2>1 DEF TurnsOf, Turns
<1>4. /\ b \in BlocksOf(f) /\ content \o <<b>> = grown
      /\ ToolsOf(grown, f.call) = ToolsOf(content, f.call)
      /\ ToolsOf(grown, f.result) = Append(ToolsOf(content, f.result), t)
  <2> HIDE DEF content, t
  <2> QED
    BY <1>2, <1>3, ResultsGrow DEF Tools
<1>5. out1 = [out EXCEPT ![n] = [role |-> "user", content |-> grown]]
  <2>1. last.role = "user" /\ Last(out) = last
    BY <1>1 DEF Owes, Last
  <2> DEFINE x == last.content \o m.content
  <2>2. out1 = [out EXCEPT ![n].content = x]
    BY <1>1, <2>1 DEF Joined
  <2>3. x = grown
    BY <1>4
  <2> HIDE DEF x, grown, content
  <2>4. [last EXCEPT !.content = x] = [role |-> "user", content |-> x]
    <3> HIDE DEF last
    <3> QED
      BY <1>3, <2>1
  <2> QED
    BY <1>1, <2>2, <2>3, <2>4
<1>6. out1 \in Seq(TurnsOf(f))
  BY JoinedOK DEF TurnsOf
<1>7. /\ Len(out1) = n /\ out1[n] = [role |-> "user", content |-> grown]
      /\ \A i \in 1..(n - 1) : out1[i] = out[i]
  <2> HIDE DEF grown, out1
  <2>1. \A i \in 1..(n - 1) : i \in 1..n /\ i # n
    BY <1>1
  <2> QED
    BY <1>1, <1>5, <2>1
<1> HIDE DEF out1
<1>8. InOrderTo(out1, n - 1, f)
  <2>1. n - 1 \in Nat
    BY <1>1
  <2> HIDE DEF n
  <2> QED
    BY <1>1, <1>7, <2>1, OrderStays
<1>9. CalledBefore(out1, f) = called
  <2>1. n # 1 => n - 1 \in 1..(n - 1)
    <3>1. n \in Nat /\ n > 0
      BY <1>1
    <3> HIDE DEF n
    <3> QED
      BY <3>1
  <2> QED
    BY <1>7, <2>1 DEF CalledBefore
<1>10. Owes(out1[n], called, Tail(tools), f)
  <2> DEFINE results == ToolsOf(content, f.result)
  <2>1. results \in Seq(Tools)
    <3> HIDE DEF content
    <3> QED
      BY <1>3, ToolsType DEF BlocksOf, Tools
  <2>2. /\ ToolsOf(content, f.call) = <<>> /\ results \o tools = called
        /\ called # <<>> => Len(content) = Len(results)
    BY <1>1 DEF Owes
  <2>3. called # <<>> => Len(content) \in Nat /\ Len(results) \in Nat /\ Len(content) = Len(results)
    BY <1>3, <2>1, <2>2
  <2>4. Len(grown) = Len(content) + 1 /\ Len(Append(results, t)) = Len(results) + 1
    <3> HIDE DEF results, content, b, t
    <3> QED
      BY <1>2, <1>3, <1>4, <2>1
  <2>5. Append(results, t) \o Tail(tools) = called
    <3> HIDE DEF results, called, t
    <3> QED
      BY <1>2, <2>1, <2>2
  <2> HIDE DEF results, called, t
  <2>6. ToolsOf(grown, f.call) = <<>> /\ ToolsOf(grown, f.result) = Append(results, t)
    BY <1>4, <2>2 DEF results
  <2> HIDE DEF grown, content
  <2>7. out1[n].role = "user" /\ out1[n].content = grown
    BY <1>7
  <2> QED
    BY <2>2, <2>3, <2>4, <2>5, <2>6, <2>7 DEF Owes
<1> QED
  BY <1>1, <1>6, <1>7, <1>8, <1>9, <1>10 DEF Heard, out1

(* With nothing owed it is what the provider wants. *)
LEMMA HeardIsAlternating ==
    ASSUME NEW f, NEW out \in Seq(TurnsOf(f)), Heard(out, <<>>, f)
    PROVE  Alternating(out, f.model, f.call, f.result)
<1> DEFINE n == Len(out)
<1>1. /\ n \in Nat /\ n % 2 = 1 /\ n > 0 /\ n \in 1..n /\ out # <<>>
      /\ InOrderTo(out, n - 1, f) /\ Owes(out[n], CalledBefore(out, f), <<>>, f)
  BY DEF Heard
<1>2. ToolsOf(out[n].content, f.result) \o <<>> = ToolsOf(out[n].content, f.result)
  <2>1. out[n].content \in Seq(BlocksOf(f))
    <3>1. out[n] \in TurnsOf(f)
      BY <1>1
    <3> QED
      BY <3>1 DEF TurnsOf, Turns
  <2>2. ToolsOf(out[n].content, f.result) \in Seq(Tools)
    BY <2>1, ToolsType DEF BlocksOf, Tools
  <2> QED
    BY <2>2
<1>3. Last(out) = out[n]
  BY <1>1 DEF Last
<1>4. Answers(out, n, f.call, f.result)
  BY <1>1, <1>2 DEF Owes, Answers, CalledBefore
<1>5. out[n].role = "user"
  BY <1>1 DEF Owes
<1> HIDE DEF n
<1>6. \A i \in 1..n : i \in 1..(n - 1) \/ i = n
  BY <1>1
<1>7. \A i \in 1..n : /\ out[i].role = (IF i % 2 = 1 THEN "user" ELSE f.model)
                      /\ Answers(out, i, f.call, f.result)
  BY <1>1, <1>4, <1>5, <1>6 DEF InOrderTo
<1> QED
  BY <1>1, <1>3, <1>5, <1>7 DEF Alternating, n

--------------------------------------------------------------------------------
LEMMA CallsTyped == \A m \in Messages : m.calls \in Seq(Names) /\ Len(m.calls) \in Nat
<1> SUFFICES ASSUME NEW m \in Messages PROVE m.calls \in Seq(Names)
  OBVIOUS
<1>1. <<>> \in Seq(Names) /\ \A t \in Names : <<t>> \in Seq(Names)
  OBVIOUS
<1> QED
  BY <1>1 DEF Messages

(* With nothing waiting, every call has its result in the messages. *)
LEMMA NothingWaits ==
    ASSUME NEW messages \in Seq(Messages), Chain(messages, <<>>)
    PROVE  \A i \in 1..Len(messages) :
              messages[i].role = "assistant" =>
                  \A k \in 1..Len(messages[i].calls) :
                      /\ i + k <= Len(messages)
                      /\ messages[i + k].role = "tool" /\ messages[i + k].calls = <<messages[i].calls[k]>>
<1> DEFINE none == <<>>
           n == Len(messages)
<1>1. Len(none) = 0 /\ CallsAnswered(messages, none) /\ n \in Nat
  BY DEF Chain
<1> HIDE DEF none
<1> SUFFICES ASSUME NEW i \in 1..n, messages[i].role = "assistant",
                    NEW k \in 1..Len(messages[i].calls)
             PROVE  /\ i + k <= n
                    /\ messages[i + k].role = "tool" /\ messages[i + k].calls = <<messages[i].calls[k]>>
  OBVIOUS
<1>2. Len(messages[i].calls) \in Nat
  BY CallsTyped
<1>3. ~(i + k > n /\ i + k - n <= Len(none))
  BY <1>1, <1>2
<1> QED
  BY <1>1, <1>3 DEF CallsAnswered

(* A question or an answer that calls some tools. *)
LEMMA ChainGoesOn ==
    ASSUME NEW messages \in Seq(Messages), NEW m \in Messages, NEW tools \in Seq(Names),
           Chain(messages, <<>>),
           m.role \in {"user", "assistant"}, m.calls = tools
    PROVE  Append(messages, m) \in Seq(Messages) /\ Chain(Append(messages, m), tools)
<1> DEFINE n == Len(messages)
           more == Append(messages, m)
<1>1. /\ more \in Seq(Messages) /\ n \in Nat /\ Len(more) = n + 1 /\ more[n + 1] = m
      /\ \A i \in 1..n : more[i] = messages[i]
  BY AppendFacts
<1>2. \A i \in 1..n :
         messages[i].role = "assistant" =>
             \A k \in 1..Len(messages[i].calls) :
                 /\ i + k <= n
                 /\ messages[i + k].role = "tool" /\ messages[i + k].calls = <<messages[i].calls[k]>>
  BY NothingWaits
<1>3. ResultsCalled(messages)
  BY DEF Chain
<1>4. \A i \in 1..n : Len(messages[i].calls) \in Nat
  BY CallsTyped
<1>5. Len(tools) \in Nat
  OBVIOUS
<1>6. \A i \in 1..(n + 1) : i \in 1..n \/ i = n + 1
  BY <1>1
<1> HIDE DEF more, n
<1>7. CallsAnswered(more, tools)
  <2> SUFFICES ASSUME NEW i \in 1..(n + 1), more[i].role = "assistant",
                      NEW k \in 1..Len(more[i].calls)
               PROVE  \/ /\ i + k <= n + 1
                         /\ more[i + k].role = "tool" /\ more[i + k].calls = <<more[i].calls[k]>>
                      \/ /\ i + k > n + 1 /\ i + k - (n + 1) <= Len(tools)
                         /\ tools[i + k - (n + 1)] = more[i].calls[k]
    BY <1>1 DEF CallsAnswered
  <2>1. CASE i \in 1..n
    <3>1. k \in 1..Len(messages[i].calls) /\ Len(messages[i].calls) \in Nat /\ messages[i].role = "assistant"
      BY <1>1, <1>4, <2>1
    <3>2. /\ i + k <= n /\ messages[i + k].role = "tool"
          /\ messages[i + k].calls = <<messages[i].calls[k]>>
      BY <1>2, <2>1, <3>1
    <3>3. i + k \in 1..n /\ i + k <= n + 1
      BY <1>1, <2>1, <3>1, <3>2
    <3> QED
      BY <1>1, <2>1, <3>2, <3>3
  <2>2. CASE i = n + 1
    <3>1. k \in 1..Len(tools) /\ more[i].calls[k] = tools[k]
      BY <1>1, <2>2
    <3>2. i + k > n + 1 /\ i + k - (n + 1) = k /\ k <= Len(tools)
      BY <1>1, <1>5, <2>2, <3>1
    <3> QED
      BY <3>1, <3>2
  <2> QED
    BY <1>6, <2>1, <2>2
<1>8. ResultsCalled(more)
  <2> SUFFICES ASSUME NEW i \in 1..(n + 1), more[i].role = "tool"
               PROVE  \E k \in 1..(i - 1) : more[i - k].role = "assistant" /\ k <= Len(more[i - k].calls)
    BY <1>1 DEF ResultsCalled
  <2>1. i \in 1..n /\ messages[i].role = "tool"
    BY <1>1, <1>6
  <2>2. PICK k \in 1..(i - 1) : messages[i - k].role = "assistant" /\ k <= Len(messages[i - k].calls)
    BY <1>3, <2>1 DEF ResultsCalled, n
  <2>3. i - k \in 1..n
    BY <1>1, <2>1
  <2> QED
    BY <1>1, <2>2, <2>3
<1>9. Caller(more, tools)
  <2>1. n + 1 \in 1..(n + 1) /\ (tools # <<>> => m.role = "assistant")
    <3>1. m.role = "user" => m.calls = <<>>
      BY DEF Messages
    <3> QED
      BY <1>1, <3>1
  <2> QED
    BY <1>1, <2>1 DEF Caller
<1> QED
  BY <1>1, <1>7, <1>8, <1>9 DEF Chain, more

(* The result of the call that comes next. *)
LEMMA ChainTakesResult ==
    ASSUME NEW messages \in Seq(Messages), NEW m \in Messages, NEW tools \in Seq(Names), tools # <<>>,
           Chain(messages, tools),
           m.role = "tool", m.calls = <<Head(tools)>>
    PROVE  Append(messages, m) \in Seq(Messages) /\ Chain(Append(messages, m), Tail(tools))
<1> DEFINE n == Len(messages)
           more == Append(messages, m)
           rest == Tail(tools)
<1>1. /\ more \in Seq(Messages) /\ n \in Nat /\ Len(more) = n + 1 /\ more[n + 1] = m
      /\ \A i \in 1..n : more[i] = messages[i]
  BY AppendFacts
<1>2. /\ rest \in Seq(Names) /\ Len(tools) \in Nat \ {0} /\ Len(rest) = Len(tools) - 1
      /\ \A i \in 1..(Len(tools) - 1) : rest[i] = tools[i + 1]
      /\ Head(tools) = tools[1]
  BY TailFacts
<1>3. CallsAnswered(messages, tools) /\ ResultsCalled(messages) /\ Caller(messages, tools)
  BY DEF Chain
<1>4. \A i \in 1..n : Len(messages[i].calls) \in Nat
  BY CallsTyped
<1>5. \A i \in 1..(n + 1) : i \in 1..n \/ i = n + 1
  BY <1>1
<1> HIDE DEF more, rest
<1>6. CallsAnswered(more, rest)
  <2> SUFFICES \A i \in 1..Len(more) :
                  more[i].role = "assistant" =>
                      \A k \in 1..Len(more[i].calls) :
                          \/ /\ i + k <= Len(more)
                             /\ more[i + k].role = "tool" /\ more[i + k].calls = <<more[i].calls[k]>>
                          \/ /\ i + k > Len(more) /\ i + k - Len(more) <= Len(rest)
                             /\ rest[i + k - Len(more)] = more[i].calls[k]
    BY DEF CallsAnswered
  <2>0. Len(more) = n + 1
    BY <1>1
  <2> SUFFICES ASSUME NEW i \in 1..(n + 1), more[i].role = "assistant",
                      NEW k \in 1..Len(more[i].calls)
               PROVE  \/ /\ i + k <= n + 1
                         /\ more[i + k].role = "tool" /\ more[i + k].calls = <<more[i].calls[k]>>
                      \/ /\ i + k > n + 1 /\ i + k - (n + 1) <= Len(rest)
                         /\ rest[i + k - (n + 1)] = more[i].calls[k]
    BY <2>0
  <2>1. i \in 1..n
    BY <1>1, <1>5
  <2>2. more[i] = messages[i] /\ k \in 1..Len(messages[i].calls) /\ k \in Nat /\ k > 0
    BY <1>1, <1>4, <2>1
  <2>3. \/ /\ i + k <= n
           /\ messages[i + k].role = "tool" /\ messages[i + k].calls = <<messages[i].calls[k]>>
        \/ /\ i + k > n /\ i + k - n <= Len(tools)
           /\ tools[i + k - n] = messages[i].calls[k]
    BY <1>3, <2>1, <2>2 DEF CallsAnswered
  <2> HIDE DEF n
  <2>4. CASE i + k <= n
    <3>1. i + k \in 1..n /\ i + k <= n + 1
      BY <1>1, <2>1, <2>2, <2>4
    <3> QED
      BY <1>1, <2>2, <2>3, <2>4, <3>1
  <2>5. CASE i + k = n + 1
    <3>1. i + k - n = 1 /\ ~(i + k <= n) /\ i + k <= n + 1
      BY <1>1, <2>1, <2>2, <2>5
    <3>2. tools[1] = messages[i].calls[k]
      BY <2>3, <3>1
    <3> QED
      BY <1>1, <1>2, <2>2, <2>5, <3>1, <3>2
  <2>6. CASE i + k > n + 1
    <3>1. /\ ~(i + k <= n) /\ i + k - n <= Len(tools)
          /\ i + k - (n + 1) \in 1..(Len(tools) - 1) /\ (i + k - (n + 1)) + 1 = i + k - n
      <4>1. n \in Nat /\ i \in Nat /\ k \in Nat /\ Len(tools) \in Nat
        BY <1>1, <1>2, <2>1, <2>2
      <4>2. i + k <= n \/ i + k - n <= Len(tools)
        BY <2>3
      <4> QED
        BY <2>6, <4>1, <4>2
    <3>2. rest[i + k - (n + 1)] = tools[i + k - n]
      BY <1>2, <3>1
    <3>3. i + k - (n + 1) <= Len(rest)
      BY <1>2, <3>1
    <3> QED
      BY <2>2, <2>3, <2>6, <3>1, <3>2, <3>3
  <2> QED
    BY <1>1, <2>1, <2>2, <2>4, <2>5, <2>6
<1>7. PICK j \in 1..n : messages[j].role = "assistant" /\ j + Len(messages[j].calls) = n + Len(tools)
  BY <1>3 DEF Caller
<1>8. ResultsCalled(more)
  <2> SUFFICES ASSUME NEW i \in 1..(n + 1), more[i].role = "tool"
               PROVE  \E k \in 1..(i - 1) : more[i - k].role = "assistant" /\ k <= Len(more[i - k].calls)
    BY <1>1 DEF ResultsCalled
  <2>1. CASE i \in 1..n
    <3>1. messages[i].role = "tool"
      BY <1>1, <2>1
    <3>2. PICK k \in 1..(i - 1) : messages[i - k].role = "assistant" /\ k <= Len(messages[i - k].calls)
      BY <1>3, <2>1, <3>1 DEF ResultsCalled
    <3> HIDE DEF n
    <3>3. i - k \in 1..n
      BY <1>1, <2>1
    <3> QED
      BY <1>1, <3>2, <3>3
  <2>2. CASE i = n + 1
    <3> DEFINE k == i - j
    <3>1. Len(messages[j].calls) \in Nat
      BY <1>4
    <3> HIDE DEF n
    <3>2. k \in 1..(i - 1) /\ i - k = j /\ k <= Len(messages[j].calls)
      BY <1>1, <1>2, <1>7, <2>2, <3>1
    <3>3. more[j].role = "assistant" /\ more[j].calls = messages[j].calls
      BY <1>1, <1>7
    <3> HIDE DEF k
    <3> QED
      BY <3>2, <3>3
  <2> QED
    BY <1>5, <2>1, <2>2
<1>9. Caller(more, rest)
  <2>1. more[j] = messages[j] /\ j \in 1..(n + 1)
    BY <1>1
  <2>2. Len(messages[j].calls) \in Nat
    BY <1>4
  <2> HIDE DEF n
  <2>3. j + Len(more[j].calls) = (n + 1) + Len(rest)
    <3>1. Len(tools) \in Nat /\ Len(rest) = Len(tools) - 1 /\ n \in Nat /\ j \in Nat
      BY <1>1, <1>2
    <3>2. j + Len(messages[j].calls) = n + Len(tools)
      BY <1>7
    <3>3. Len(more[j].calls) = Len(messages[j].calls)
      BY <2>1
    <3> DEFINE c == Len(messages[j].calls)
               d == Len(tools)
    <3> HIDE DEF c, d
    <3>4. c \in Nat /\ d \in Nat /\ n \in Nat /\ j \in Nat /\ j + c = n + d
      BY <2>2, <3>1, <3>2 DEF c, d
    <3>5. j + c = (n + 1) + (d - 1)
      BY <3>4
    <3> QED
      BY <3>1, <3>3, <3>5 DEF c, d
  <2> QED
    BY <1>1, <1>7, <2>1, <2>3 DEF Caller
<1> QED
  BY <1>1, <1>6, <1>8, <1>9 DEF Chain, more, rest

(* When nothing waits and the user's side had the last word, it is what    *)
(* OpenAI wants.                                                           *)
LEMMA ChainIsAnswered ==
    ASSUME NEW messages \in Seq(Messages), messages # <<>>, Chain(messages, <<>>),
           messages[Len(messages)].role \in {"user", "tool"}
    PROVE  EachAnswered(toOpenAiMessages(messages))
<1> DEFINE n == Len(messages)
           out == toOpenAiMessages(messages)
           S == [role : {"system", "user", "assistant", "tool"}, calls : Seq(Names)]
           first == <<[role |-> "system", calls |-> <<>>]>>
           rest == [i \in 1..n |-> [role |-> messages[i].role, calls |-> messages[i].calls]]
<1>1. n \in Nat /\ n > 0
  OBVIOUS
<1>2. first \in Seq(S) /\ Len(first) = 1 /\ first[1] = [role |-> "system", calls |-> <<>>]
  <2>1. [role |-> "system", calls |-> <<>>] \in S
    OBVIOUS
  <2> QED
    BY <2>1
<1>3. /\ rest \in Seq(S) /\ Len(rest) = n
      /\ \A i \in 1..n : rest[i] = [role |-> messages[i].role, calls |-> messages[i].calls]
  <2>1. \A i \in 1..n : [role |-> messages[i].role, calls |-> messages[i].calls] \in S
    <3>1. \A m \in Messages : m.role \in {"user", "assistant", "tool"}
      BY DEF Messages
    <3> QED
      BY <3>1, CallsTyped
  <2> DEFINE e(i) == [role |-> messages[i].role, calls |-> messages[i].calls]
  <2>2. rest \in Seq(S)
    <3>1. \A i \in 1..n : e(i) \in S
      BY <2>1
    <3> HIDE DEF e, S, n
    <3>2. [i \in 1..n |-> e(i)] \in Seq(S)
      BY <1>1, <3>1, IsASeq
    <3> QED
      BY <3>2 DEF e
  <2>3. DOMAIN rest = 1..n
    OBVIOUS
  <2> HIDE DEF S
  <2>4. Len(rest) = n
    BY <1>1, <2>2, <2>3
  <2> QED
    BY <2>2, <2>4
<1>4. out = first \o rest
  BY DEF toOpenAiMessages
<1> HIDE DEF out, first, rest, S, n
<1>5. Len(out) = n + 1 /\ out[1] = [role |-> "system", calls |-> <<>>] /\ \A i \in 1..n : out[1 + i] = rest[i]
  <2>1. 1 \in 1..1
    OBVIOUS
  <2> QED
    <3>1. /\ Len(first \o rest) = Len(first) + Len(rest)
          /\ \A i \in 1..Len(first) : (first \o rest)[i] = first[i]
          /\ \A i \in 1..Len(rest) : (first \o rest)[Len(first) + i] = rest[i]
      <4>1. first \in Seq(S) /\ rest \in Seq(S)
        BY <1>2, <1>3
      <4> QED
        BY <4>1, ConcatFacts
    <3>2. Len(out) = 1 + n
      BY <1>2, <1>3, <1>4, <3>1
    <3>3. out[1] = first[1]
      BY <1>2, <1>4, <2>1, <3>1
    <3> QED
      BY <1>1, <1>2, <1>3, <1>4, <3>1, <3>2, <3>3
<1>6. \A i \in 1..n : out[i + 1].role = messages[i].role /\ out[i + 1].calls = messages[i].calls
  <2>1. \A i \in 1..n : i + 1 = 1 + i
    OBVIOUS
  <2> QED
    BY <1>3, <1>5, <2>1
<1>7. \A i \in 1..(n + 1) : i = 1 \/ (i - 1 \in 1..n /\ (i - 1) + 1 = i)
  BY <1>1
<1>8. ResultsCalled(messages)
  BY DEF Chain
<1>9. \A i \in 1..n : Len(messages[i].calls) \in Nat
  BY CallsTyped DEF n
<1>10. Last(out).role \in {"user", "tool"}
  <2>1. n \in 1..n
    BY <1>1
  <2>2. Last(out) = out[n + 1]
    BY <1>5 DEF Last
  <2> QED
    BY <1>6, <2>1, <2>2 DEF n
<1>11. ASSUME NEW i \in 1..(n + 1), out[i].role = "assistant", NEW k \in 1..Len(out[i].calls)
       PROVE  i + k <= n + 1 /\ out[i + k].role = "tool" /\ out[i + k].calls = <<out[i].calls[k]>>
  <2> DEFINE p == i - 1
  <2>1. p \in 1..n /\ p + 1 = i
    BY <1>5, <1>7, <1>11
  <2>2. messages[p].role = "assistant" /\ messages[p].calls = out[i].calls
    BY <1>6, <1>11, <2>1
  <2>3. k \in 1..Len(messages[p].calls) /\ Len(messages[p].calls) \in Nat
    BY <1>9, <1>11, <2>1, <2>2
  <2> HIDE DEF p
  <2>4. p + k <= n /\ messages[p + k].role = "tool" /\ messages[p + k].calls = <<messages[p].calls[k]>>
    BY <2>1, <2>2, <2>3, NothingWaits DEF n
  <2>5. p + k \in 1..n /\ (p + k) + 1 = i + k /\ i + k <= n + 1
    BY <1>1, <2>1, <2>3, <2>4
  <2> QED
    BY <1>6, <2>2, <2>4, <2>5
<1>12. ASSUME NEW i \in 1..(n + 1), out[i].role = "tool"
       PROVE  \E k \in 1..(i - 1) : out[i - k].role = "assistant" /\ k <= Len(out[i - k].calls)
  <2> DEFINE p == i - 1
  <2>1. p \in 1..n /\ p + 1 = i
    BY <1>5, <1>7, <1>12
  <2>2. messages[p].role = "tool"
    BY <1>6, <1>12, <2>1
  <2> HIDE DEF p
  <2>3. PICK k \in 1..(p - 1) : messages[p - k].role = "assistant" /\ k <= Len(messages[p - k].calls)
    BY <1>8, <2>1, <2>2 DEF ResultsCalled, n
  <2>4. k \in 1..(i - 1) /\ p - k \in 1..n /\ (p - k) + 1 = i - k
    BY <1>1, <2>1
  <2>5. out[(p - k) + 1].role = "assistant" /\ out[(p - k) + 1].calls = messages[p - k].calls
    BY <1>6, <2>3, <2>4
  <2>6. out[i - k].role = "assistant" /\ k <= Len(out[i - k].calls)
    BY <2>3, <2>4, <2>5
  <2> QED
    BY <2>4, <2>6
<1>13. \A i \in 1..Len(out) :
          /\ out[i].role = "assistant" =>
                \A k \in 1..Len(out[i].calls) :
                    i + k <= Len(out) /\ out[i + k].role = "tool" /\ out[i + k].calls = <<out[i].calls[k]>>
          /\ out[i].role = "tool" =>
                \E k \in 1..(i - 1) : out[i - k].role = "assistant" /\ k <= Len(out[i - k].calls)
  <2>1. Len(out) = n + 1
    BY <1>5
  <2> QED
    BY <1>11, <1>12, <2>1
<1>14. EachAnswered(out)
  BY <1>10, <1>13 DEF EachAnswered
<1> QED
  BY <1>14 DEF out

--------------------------------------------------------------------------------
(* What a message becomes in one of the two formats. *)
Becomes(m, turn, f) ==
    /\ turn \in TurnsOf(f)
    /\ turn.role = IF m.role = "assistant" THEN f.model ELSE "user"
    /\ m.role = "user" => ToolsOf(turn.content, f.call) = <<>> /\ ToolsOf(turn.content, f.result) = <<>>
    /\ m.role = "assistant" =>
          ToolsOf(turn.content, f.call) = m.calls /\ ToolsOf(turn.content, f.result) = <<>>
    /\ m.role = "tool" => turn.content = <<Block(f.result, m.calls[1])>>

(* A text calls nothing and is no result. *)
LEMMA TextBlock ==
    ASSUME NEW f, IsFormat(f)
    PROVE  LET text == <<Block("text", "none")>>
           IN  /\ text \in Seq(BlocksOf(f))
               /\ ToolsOf(text, f.call) = <<>> /\ ToolsOf(text, f.result) = <<>>
<1> DEFINE b == Block("text", "none")
           content == <<>>
<1>1. b \in BlocksOf(f) /\ b.type = "text"
  BY DEF Block, BlocksOf, Blocks
<1>2. content \in Seq(BlocksOf(f)) /\ \A type : ToolsOf(content, type) = <<>>
  BY NoTools
<1> HIDE DEF content, b
<1>3. Append(content, b) = <<b>> /\ <<b>> \in Seq(BlocksOf(f))
  BY <1>1 DEF content
<1>4. ToolsOf(Append(content, b), f.call) = Noted(ToolsOf(content, f.call), b, f.call)
  BY <1>1, <1>2, ToolsGrow DEF BlocksOf
<1>5. ToolsOf(Append(content, b), f.result) = Noted(ToolsOf(content, f.result), b, f.result)
  BY <1>1, <1>2, ToolsGrow DEF BlocksOf
<1>6. f.call # "text" /\ f.result # "text"
  BY DEF IsFormat
<1> QED
  BY <1>1, <1>2, <1>3, <1>4, <1>5, <1>6 DEF Noted, b

(* The blocks of the calls of one answer. *)
LEMMA CallBlocks ==
    ASSUME NEW f, IsFormat(f), NEW tools \in Seq(Names)
    PROVE  /\ Holding(f.call, tools) \in Seq(BlocksOf(f))
           /\ ToolsOf(Holding(f.call, tools), f.call) = tools
           /\ ToolsOf(Holding(f.call, tools), f.result) = <<>>
<1> DEFINE type == f.call
           other == f.result
<1>1. type # other
  BY DEF IsFormat
<1> HIDE DEF type, other
<1>2. /\ Holding(type, tools) \in Seq(Blocks({type}, Names))
      /\ ToolsOf(Holding(type, tools), type) = tools
      /\ ToolsOf(Holding(type, tools), other) = <<>>
  <2>1. Collects(Names, tools, type, other)
    BY <1>1, ToolsOfCalls
  <2> QED
    BY <2>1 DEF Collects
<1>3. Blocks({type}, Names) \subseteq BlocksOf(f)
  BY DEF Blocks, BlocksOf, type
<1>4. Holding(type, tools) \in Seq(BlocksOf(f))
  <2> DEFINE P == Blocks({type}, Names)
             Q == BlocksOf(f)
  <2>1. P \subseteq Q /\ Holding(type, tools) \in Seq(P)
    BY <1>2, <1>3
  <2> HIDE DEF P, Q
  <2>2. Holding(type, tools) \in Seq(Q)
    BY <2>1
  <2> QED
    BY <2>2 DEF Q
<1> QED
  BY <1>2, <1>4 DEF type, other

LEMMA ResultBlock ==
    ASSUME NEW f, IsFormat(f), NEW t \in Names
    PROVE  <<Block(f.result, t)>> \in Seq(BlocksOf(f))
<1>1. Block(f.result, t) \in BlocksOf(f)
  BY DEF Block, BlocksOf, Blocks
<1> HIDE DEF BlocksOf
<1> DEFINE b == Block(f.result, t)
           P == BlocksOf(f)
<1>2. b \in P
  BY <1>1
<1> HIDE DEF b, P
<1>3. <<b>> \in Seq(P)
  BY <1>2
<1> QED
  BY <1>3 DEF b, P

LEMMA FormatsOK == IsFormat(anthropic) /\ IsFormat(gemini)
BY DEF IsFormat, anthropic, gemini

(* The roles of messages and what they call. *)
LEMMA SpokenKinds ==
    ASSUME NEW m \in Messages
    PROVE  /\ m.role \in {"user", "assistant", "tool"} /\ m.calls \in Seq(Names)
           /\ m.role = "user" => m.calls = <<>>
           /\ m.role = "tool" => m.calls[1] \in Names /\ m.calls = <<m.calls[1]>>
<1>1. \A t \in Names : <<t>>[1] = t
  OBVIOUS
<1> QED
  BY <1>1, CallsTyped DEF Messages

LEMMA SentIsTurn ==
    ASSUME NEW m \in Messages
    PROVE  Becomes(m, Sent(m), anthropic)
<1> DEFINE f == anthropic
<1>1. /\ f.model = "assistant" /\ f.call = "tool_use" /\ f.result = "tool_result" /\ IsFormat(f)
      /\ TurnsOf(f) = Turns({"user", f.model}, BlocksOf(f))
  BY FormatsOK DEF anthropic, TurnsOf
<1> HIDE DEF f
<1>2. /\ m.role \in {"user", "assistant", "tool"} /\ m.calls \in Seq(Names)
      /\ m.role = "user" => m.calls = <<>>
      /\ m.role = "tool" => m.calls[1] \in Names /\ m.calls = <<m.calls[1]>>
  BY SpokenKinds
<1>3. Sent(m).role = (IF m.role = "assistant" THEN f.model ELSE "user") /\ Sent(m).content = blocksFor(m)
  BY <1>1 DEF Sent
<1>4. ASSUME blocksFor(m) \in Seq(BlocksOf(f)) PROVE Sent(m) \in TurnsOf(f)
  <2> DEFINE content == blocksFor(m)
             P == BlocksOf(f)
  <2>1. content \in Seq(P) /\ Sent(m) = [role |-> IF m.role = "assistant" THEN "assistant" ELSE "user", content |-> content]
    BY <1>4 DEF Sent
  <2> HIDE DEF content, P
  <2>2. Sent(m) \in Turns({"user", f.model}, P)
    BY <1>1, <2>1 DEF Turns
  <2> QED
    BY <1>1, <2>2 DEF P
<1>5. CASE m.role = "user" \/ (m.role = "assistant" /\ m.calls = <<>>)
  <2>1. blocksFor(m) = <<Block("text", "none")>>
    BY <1>5 DEF blocksFor
  <2>2. /\ blocksFor(m) \in Seq(BlocksOf(f))
        /\ ToolsOf(blocksFor(m), f.call) = <<>> /\ ToolsOf(blocksFor(m), f.result) = <<>>
    BY <1>1, <2>1, TextBlock
  <2> QED
    BY <1>2, <1>3, <1>4, <1>5, <2>2 DEF Becomes, f
<1>6. CASE m.role = "assistant" /\ m.calls # <<>>
  <2> DEFINE tools == m.calls
             calls == Holding(f.call, tools)
  <2>1. blocksFor(m) = calls
    BY <1>1, <1>6 DEF blocksFor, Holding
  <2>2. calls \in Seq(BlocksOf(f)) /\ ToolsOf(calls, f.call) = tools /\ ToolsOf(calls, f.result) = <<>>
    <3>1. tools \in Seq(Names)
      BY <1>2
    <3> HIDE DEF tools
    <3> QED
      BY <1>1, <3>1, CallBlocks
  <2> HIDE DEF calls
  <2> QED
    BY <1>3, <1>4, <1>6, <2>1, <2>2 DEF Becomes, f
<1>7. CASE m.role = "tool"
  <2>1. blocksFor(m) = <<Block(f.result, m.calls[1])>>
    BY <1>1, <1>7 DEF blocksFor
  <2>2. blocksFor(m) \in Seq(BlocksOf(f))
    BY <1>1, <1>2, <1>7, <2>1, ResultBlock
  <2> QED
    BY <1>3, <1>4, <1>7, <2>1, <2>2 DEF Becomes, f
<1> QED
  BY <1>2, <1>5, <1>6, <1>7

LEMMA PartsAreTurn ==
    ASSUME NEW m \in Messages
    PROVE  Becomes(m, partsFor(m), gemini)
<1> DEFINE f == gemini
<1>1. /\ f.model = "model" /\ f.call = "functionCall" /\ f.result = "functionResponse" /\ IsFormat(f)
      /\ TurnsOf(f) = Turns({"user", f.model}, BlocksOf(f))
  BY FormatsOK DEF gemini, TurnsOf
<1> HIDE DEF f
<1>2. /\ m.role \in {"user", "assistant", "tool"} /\ m.calls \in Seq(Names)
      /\ m.role = "user" => m.calls = <<>>
      /\ m.role = "tool" => m.calls[1] \in Names /\ m.calls = <<m.calls[1]>>
  BY SpokenKinds
<1>3. ASSUME NEW role \in {"user", f.model}, NEW content \in Seq(BlocksOf(f)),
             partsFor(m) = [role |-> role, content |-> content]
      PROVE  partsFor(m) \in TurnsOf(f)
  <2> DEFINE P == BlocksOf(f)
  <2>1. content \in Seq(P)
    OBVIOUS
  <2> HIDE DEF P
  <2>2. partsFor(m) \in Turns({"user", f.model}, P)
    BY <1>3, <2>1 DEF Turns
  <2> QED
    BY <1>1, <2>2 DEF P
<1>4. CASE m.role = "user" \/ (m.role = "assistant" /\ m.calls = <<>>)
  <2> DEFINE text == <<Block("text", "none")>>
             role == IF m.role = "assistant" THEN "model" ELSE "user"
  <2>1. partsFor(m) = [role |-> role, content |-> text]
    BY <1>4 DEF partsFor
  <2>2. /\ text \in Seq(BlocksOf(f))
        /\ ToolsOf(text, f.call) = <<>> /\ ToolsOf(text, f.result) = <<>>
    BY <1>1, TextBlock
  <2> HIDE DEF text
  <2>3. role \in {"user", f.model} /\ role = IF m.role = "assistant" THEN f.model ELSE "user"
    BY <1>1
  <2> HIDE DEF role
  <2>4. partsFor(m) \in TurnsOf(f) /\ partsFor(m).role = role /\ partsFor(m).content = text
    BY <1>3, <2>1, <2>2, <2>3
  <2> QED
    BY <1>2, <1>4, <2>2, <2>3, <2>4 DEF Becomes, f
<1>5. CASE m.role = "assistant" /\ m.calls # <<>>
  <2> DEFINE tools == m.calls
             calls == Holding(f.call, tools)
  <2>1. partsFor(m) = [role |-> f.model, content |-> calls]
    BY <1>1, <1>5 DEF partsFor, Holding
  <2>2. calls \in Seq(BlocksOf(f)) /\ ToolsOf(calls, f.call) = tools /\ ToolsOf(calls, f.result) = <<>>
    <3>1. tools \in Seq(Names)
      BY <1>2
    <3> HIDE DEF tools
    <3> QED
      BY <1>1, <3>1, CallBlocks
  <2> HIDE DEF calls
  <2>3. partsFor(m) \in TurnsOf(f) /\ partsFor(m).role = f.model /\ partsFor(m).content = calls
    BY <1>3, <2>1, <2>2
  <2> QED
    BY <1>5, <2>2, <2>3 DEF Becomes, f
<1>6. CASE m.role = "tool"
  <2> DEFINE content == <<Block(f.result, m.calls[1])>>
  <2>1. partsFor(m) = [role |-> "user", content |-> content]
    BY <1>1, <1>6 DEF partsFor
  <2>2. content \in Seq(BlocksOf(f))
    BY <1>1, <1>2, <1>6, ResultBlock
  <2> HIDE DEF content
  <2>3. partsFor(m) \in TurnsOf(f) /\ partsFor(m).role = "user" /\ partsFor(m).content = content
    BY <1>3, <2>1, <2>2
  <2> QED
    BY <1>6, <2>3 DEF Becomes, f, content
<1> QED
  BY <1>2, <1>4, <1>5, <1>6

--------------------------------------------------------------------------------
(* A conversation in a format, and one message more. *)
Each(e, s) == [i \in 1..Len(s) |-> e[s[i]]]
Grows(e, P, s, x) ==
    /\ Each(e, s) \in Seq(P) /\ e[x] \in P
    /\ Each(e, Append(s, x)) = Append(Each(e, s), e[x])

LEMMA EachGrows ==
    ASSUME NEW S, NEW P, NEW e \in [S -> P], NEW s \in Seq(S), NEW x \in S
    PROVE  Grows(e, P, s, x)
<1> DEFINE n == Len(s)
           s1 == Append(s, x)
           t == Each(e, s)
           t1 == Each(e, s1)
<1>1. s1 \in Seq(S) /\ n \in Nat /\ Len(s1) = n + 1 /\ s1[n + 1] = x /\ \A i \in 1..n : s1[i] = s[i]
  BY AppendFacts
<1>2. t \in Seq(P) /\ Len(t) = n /\ \A i \in 1..n : t[i] = e[s[i]]
  <2>1. t \in Seq(P)
    <3> DEFINE v(i) == e[s[i]]
    <3>1. \A i \in 1..n : v(i) \in P
      OBVIOUS
    <3> HIDE DEF v
    <3>2. [i \in 1..n |-> v(i)] \in Seq(P)
      BY <1>1, <3>1, IsASeq
    <3> QED
      BY <3>2 DEF v, Each
  <2>2. DOMAIN t = 1..n /\ \A i \in 1..n : t[i] = e[s[i]]
    BY DEF Each
  <2> HIDE DEF t
  <2> QED
    BY <1>1, <2>1, <2>2
<1>3. /\ Append(t, e[x]) \in Seq(P) /\ Len(Append(t, e[x])) = n + 1
      /\ Append(t, e[x])[n + 1] = e[x] /\ \A i \in 1..n : Append(t, e[x])[i] = t[i]
  <2>1. e[x] \in P
    OBVIOUS
  <2> HIDE DEF t
  <2> QED
    BY <1>2, <2>1, AppendFacts
<1>4. DOMAIN t1 = 1..(n + 1) /\ \A i \in 1..(n + 1) : t1[i] = e[s1[i]]
  BY <1>1 DEF Each
<1>5. DOMAIN Append(t, e[x]) = 1..(n + 1) /\ Append(t, e[x]) = [i \in 1..(n + 1) |-> Append(t, e[x])[i]]
  <2> DEFINE u == Append(t, e[x])
  <2>1. u \in Seq(P) /\ Len(u) = n + 1
    BY <1>3
  <2> HIDE DEF u
  <2>2. DOMAIN u = 1..(n + 1) /\ u = [i \in 1..(n + 1) |-> u[i]]
    BY <2>1
  <2> QED
    BY <2>2 DEF u
<1>6. t1 = [i \in 1..(n + 1) |-> e[s1[i]]]
  BY <1>1 DEF Each
<1>7. \A i \in 1..(n + 1) : Append(t, e[x])[i] = e[s1[i]]
  <2>1. \A i \in 1..(n + 1) : i \in 1..n \/ i = n + 1
    BY <1>1
  <2> QED
    BY <1>1, <1>2, <1>3, <2>1
<1>8. t1 = Append(t, e[x])
  <2> HIDE DEF t1, s1, t, n
  <2> QED
    BY <1>5, <1>6, <1>7
<1> QED
  BY <1>2, <1>8 DEF Grows

LEMMA SaidSomething ==
    ASSUME NEW S, NEW s \in Seq(S), NEW x \in S
    PROVE  Append(s, x) # <<>> /\ Append(s, x)[Len(Append(s, x))] = x
OBVIOUS

LEMMA AnthropicGrows ==
    ASSUME NEW messages \in Seq(Messages), NEW m \in Messages
    PROVE  toAnthropicMessages(Append(messages, m)) = Joined(toAnthropicMessages(messages), Sent(m))
<1> DEFINE e == [x \in Messages |-> Sent(x)]
           P == TurnsOf(anthropic)
<1>1. e \in [Messages -> P]
  BY SentIsTurn DEF Becomes
<1>2. \A s \in Seq(Messages) : toAnthropicMessages(s) = Merged(Each(e, s))
  <2> SUFFICES ASSUME NEW s \in Seq(Messages)
               PROVE  [i \in 1..Len(s) |-> Sent(s[i])] = Each(e, s)
    BY DEF toAnthropicMessages
  <2>1. \A i \in 1..Len(s) : s[i] \in Messages
    OBVIOUS
  <2> QED
    BY <2>1 DEF Each
<1>3. e[m] = Sent(m)
  OBVIOUS
<1> HIDE DEF e, P
<1>4. /\ Each(e, messages) \in Seq(P) /\ e[m] \in P
      /\ Each(e, Append(messages, m)) = Append(Each(e, messages), e[m])
  <2>1. Grows(e, P, messages, m)
    BY <1>1, EachGrows
  <2> QED
    BY <2>1 DEF Grows
<1>5. Append(messages, m) \in Seq(Messages)
  OBVIOUS
<1>6. Merged(Append(Each(e, messages), e[m])) = Joined(Merged(Each(e, messages)), e[m])
  BY <1>4, MergedGrows DEF TurnsOf, P
<1> QED
  BY <1>2, <1>3, <1>4, <1>5, <1>6

LEMMA GeminiGrows ==
    ASSUME NEW messages \in Seq(Messages), NEW m \in Messages
    PROVE  toContents(Append(messages, m)) = Joined(toContents(messages), partsFor(m))
<1> DEFINE e == [x \in Messages |-> partsFor(x)]
           P == TurnsOf(gemini)
<1>1. e \in [Messages -> P]
  BY PartsAreTurn DEF Becomes
<1>2. \A s \in Seq(Messages) : toContents(s) = Merged(Each(e, s))
  <2> SUFFICES ASSUME NEW s \in Seq(Messages)
               PROVE  [i \in 1..Len(s) |-> partsFor(s[i])] = Each(e, s)
    BY DEF toContents
  <2>1. \A i \in 1..Len(s) : s[i] \in Messages
    OBVIOUS
  <2> QED
    BY <2>1 DEF Each
<1>3. e[m] = partsFor(m)
  OBVIOUS
<1> HIDE DEF e, P
<1>4. /\ Each(e, messages) \in Seq(P) /\ e[m] \in P
      /\ Each(e, Append(messages, m)) = Append(Each(e, messages), e[m])
  <2>1. Grows(e, P, messages, m)
    BY <1>1, EachGrows
  <2> QED
    BY <2>1 DEF Grows
<1>5. Append(messages, m) \in Seq(Messages)
  OBVIOUS
<1>6. Merged(Append(Each(e, messages), e[m])) = Joined(Merged(Each(e, messages)), e[m])
  BY <1>4, MergedGrows DEF TurnsOf, P
<1> QED
  BY <1>2, <1>3, <1>4, <1>5, <1>6

--------------------------------------------------------------------------------
LEMMA QuestionGoes ==
    ASSUME NEW f, IsFormat(f), NEW out, AtRest(out, f), NEW m, NEW turn, Becomes(m, turn, f), m.role = "user"
    PROVE  Going(Joined(out, turn), <<>>, f)
<1>1. /\ turn \in TurnsOf(f) /\ turn.role = "user"
      /\ ToolsOf(turn.content, f.call) = <<>> /\ ToolsOf(turn.content, f.result) = <<>>
  BY DEF Becomes
<1> QED
  BY <1>1, UserAsks DEF AtRest, Going

LEMMA AnswerRests ==
    ASSUME NEW f, IsFormat(f), NEW out, Going(out, <<>>, f), NEW m, NEW turn, Becomes(m, turn, f),
           m.role = "assistant", m.calls = <<>>
    PROVE  AtRest(Joined(out, turn), f)
<1>1. /\ turn \in TurnsOf(f) /\ turn.role = f.model
      /\ ToolsOf(turn.content, f.call) = <<>> /\ ToolsOf(turn.content, f.result) = <<>>
  BY DEF Becomes
<1>2. Joined(out, turn) \in Seq(TurnsOf(f)) /\ Spoke(Joined(out, turn), ToolsOf(turn.content, f.call), f)
  BY <1>1, ModelSpeaks DEF Going
<1> QED
  BY <1>1, <1>2 DEF AtRest

LEMMA CallsGo ==
    ASSUME NEW f, IsFormat(f), NEW out, Going(out, <<>>, f), NEW m, NEW turn, Becomes(m, turn, f),
           m.role = "assistant", m.calls # <<>>
    PROVE  Going(Joined(out, turn), m.calls, f)
<1>1. /\ turn \in TurnsOf(f) /\ turn.role = f.model
      /\ ToolsOf(turn.content, f.call) = m.calls /\ ToolsOf(turn.content, f.result) = <<>>
  BY DEF Becomes
<1>2. Joined(out, turn) \in Seq(TurnsOf(f)) /\ Spoke(Joined(out, turn), ToolsOf(turn.content, f.call), f)
  BY <1>1, ModelSpeaks DEF Going
<1> QED
  BY <1>1, <1>2 DEF Going

LEMMA ResultGoes ==
    ASSUME NEW f, IsFormat(f), NEW out, NEW tools \in Seq(Names), tools # <<>>, Going(out, tools, f),
           NEW m, NEW turn, Becomes(m, turn, f), m.role = "tool", m.calls = <<Head(tools)>>
    PROVE  Going(Joined(out, turn), Tail(tools), f)
<1>1. m.calls[1] = Head(tools)
  OBVIOUS
<1>2. turn \in TurnsOf(f) /\ turn.role = "user" /\ turn.content = <<Block(f.result, Head(tools))>>
  BY <1>1 DEF Becomes
<1>3. tools \in Seq(Tools)
  BY DEF Tools
<1>4. Joined(out, turn) \in Seq(TurnsOf(f)) /\ Heard(Joined(out, turn), Tail(tools), f)
  BY <1>2, <1>3, FirstResult, NextResult DEF Going
<1> QED
  BY <1>4 DEF Going

LEMMA NoMessages == Rests(<<>>)
<1> DEFINE none == <<>>
<1>1. none \in Seq(Messages) /\ Len(none) = 0 /\ 1..Len(none) = {} /\ none = <<>>
  OBVIOUS
<1> HIDE DEF none
<1>2. Chain(none, <<>>)
  BY <1>1 DEF Chain, CallsAnswered, ResultsCalled, Caller
<1>3. toAnthropicMessages(none) = <<>> /\ toContents(none) = <<>>
  <2>1. [i \in 1..Len(none) |-> Sent(none[i])] = <<>> /\ [i \in 1..Len(none) |-> partsFor(none[i])] = <<>>
    BY <1>1
  <2> QED
    BY <2>1, NothingMerged DEF toAnthropicMessages, toContents
<1>4. AtRest(<<>>, anthropic) /\ AtRest(<<>>, gemini)
  BY DEF AtRest
<1> QED
  BY <1>1, <1>2, <1>3, <1>4 DEF Rests

(* The user asks, after whatever was said before. *)
LEMMA QuestionAsked ==
    ASSUME NEW messages, Rests(messages), NEW n \in Nat
    PROVE  Goes(Append(messages, Question(n)), <<>>)
<1> DEFINE m == Question(n)
           tools == <<>>
<1>1. m \in Messages /\ m.role = "user" /\ m.calls = tools /\ tools \in Seq(Names)
  BY DEF Question, Message, Messages
<1>2. /\ messages \in Seq(Messages) /\ Chain(messages, <<>>)
      /\ AtRest(toAnthropicMessages(messages), anthropic)
      /\ AtRest(toContents(messages), gemini)
  BY DEF Rests
<1> HIDE DEF m
<1>3. Append(messages, m) \in Seq(Messages) /\ Chain(Append(messages, m), tools)
  <2> HIDE DEF tools
  <2> QED
    BY <1>1, <1>2, ChainGoesOn
<1>4. Append(messages, m) # <<>> /\ Append(messages, m)[Len(Append(messages, m))].role = "user"
  BY <1>1, <1>2, SaidSomething
<1>5. Going(toAnthropicMessages(Append(messages, m)), <<>>, anthropic)
  BY <1>1, <1>2, AnthropicGrows, SentIsTurn, FormatsOK, QuestionGoes
<1>6. Going(toContents(Append(messages, m)), <<>>, gemini)
  BY <1>1, <1>2, GeminiGrows, PartsAreTurn, FormatsOK, QuestionGoes
<1> QED
  BY <1>3, <1>4, <1>5, <1>6 DEF Goes, m

(* The last word of the model ends it. *)
LEMMA AnswerGiven ==
    ASSUME NEW messages, Goes(messages, <<>>), NEW n \in Nat
    PROVE  Rests(Append(messages, Answer(n)))
<1> DEFINE m == Answer(n)
           tools == <<>>
<1>1. m \in Messages /\ m.role = "assistant" /\ m.calls = tools /\ tools \in Seq(Names)
  <2>1. <<>> \in Seq(Names)
    OBVIOUS
  <2> QED
    BY <2>1 DEF Answer, Message, Messages
<1>2. /\ messages \in Seq(Messages) /\ Chain(messages, <<>>)
      /\ Going(toAnthropicMessages(messages), <<>>, anthropic)
      /\ Going(toContents(messages), <<>>, gemini)
  BY DEF Goes
<1> HIDE DEF m
<1>3. Append(messages, m) \in Seq(Messages) /\ Chain(Append(messages, m), tools)
  <2> HIDE DEF tools
  <2> QED
    BY <1>1, <1>2, ChainGoesOn
<1>4. AtRest(toAnthropicMessages(Append(messages, m)), anthropic)
  BY <1>1, <1>2, AnthropicGrows, SentIsTurn, FormatsOK, AnswerRests
<1>5. AtRest(toContents(Append(messages, m)), gemini)
  BY <1>1, <1>2, GeminiGrows, PartsAreTurn, FormatsOK, AnswerRests
<1> QED
  BY <1>3, <1>4, <1>5 DEF Rests, m

(* The model calls some tools. *)
LEMMA ToolsCalled ==
    ASSUME NEW messages, Goes(messages, <<>>), NEW m \in Messages, m.role = "assistant", m.calls # <<>>
    PROVE  Goes(Append(messages, m), m.calls)
<1>1. /\ messages \in Seq(Messages) /\ Chain(messages, <<>>)
      /\ Going(toAnthropicMessages(messages), <<>>, anthropic)
      /\ Going(toContents(messages), <<>>, gemini)
  BY DEF Goes
<1>2. m.calls \in Seq(Names)
  BY CallsTyped
<1>3. Append(messages, m) \in Seq(Messages) /\ Chain(Append(messages, m), m.calls)
  BY <1>1, <1>2, ChainGoesOn
<1>4. Append(messages, m) # <<>>
  BY <1>1, SaidSomething
<1>5. Going(toAnthropicMessages(Append(messages, m)), m.calls, anthropic)
  BY <1>1, AnthropicGrows, SentIsTurn, FormatsOK, CallsGo
<1>6. Going(toContents(Append(messages, m)), m.calls, gemini)
  BY <1>1, GeminiGrows, PartsAreTurn, FormatsOK, CallsGo
<1> QED
  BY <1>3, <1>4, <1>5, <1>6 DEF Goes

(* A tool has run. *)
LEMMA ResultGiven ==
    ASSUME NEW messages, NEW tools \in Seq(Names), tools # <<>>, Goes(messages, tools),
           NEW m \in Messages, m.role = "tool", m.calls = <<Head(tools)>>
    PROVE  Goes(Append(messages, m), Tail(tools))
<1>1. /\ messages \in Seq(Messages) /\ Chain(messages, tools)
      /\ Going(toAnthropicMessages(messages), tools, anthropic)
      /\ Going(toContents(messages), tools, gemini)
  BY DEF Goes
<1>2. Append(messages, m) \in Seq(Messages) /\ Chain(Append(messages, m), Tail(tools))
  BY <1>1, ChainTakesResult
<1>3. Append(messages, m) # <<>> /\ Append(messages, m)[Len(Append(messages, m))].role = "tool"
  BY <1>1, SaidSomething
<1>4. Going(toAnthropicMessages(Append(messages, m)), Tail(tools), anthropic)
  BY <1>1, AnthropicGrows, SentIsTurn, FormatsOK, ResultGoes
<1>5. Going(toContents(Append(messages, m)), Tail(tools), gemini)
  BY <1>1, GeminiGrows, PartsAreTurn, FormatsOK, ResultGoes
<1> QED
  BY <1>2, <1>3, <1>4, <1>5 DEF Goes

(* With no call waiting any of the providers takes the messages. *)
LEMMA GoesIsAcceptable ==
    ASSUME NEW messages, Goes(messages, <<>>)
    PROVE  Acceptable(messages)
<1>1. /\ messages \in Seq(Messages) /\ messages # <<>> /\ Chain(messages, <<>>)
      /\ messages[Len(messages)].role \in {"user", "tool"}
      /\ Going(toAnthropicMessages(messages), <<>>, anthropic)
      /\ Going(toContents(messages), <<>>, gemini)
  BY DEF Goes
<1>2. EachAnswered(toOpenAiMessages(messages))
  BY <1>1, ChainIsAnswered
<1>3. Alternating(toAnthropicMessages(messages), anthropic.model, anthropic.call, anthropic.result)
  BY <1>1, HeardIsAlternating DEF Going
<1>4. Alternating(toContents(messages), gemini.model, gemini.call, gemini.result)
  BY <1>1, HeardIsAlternating DEF Going
<1>5. /\ anthropic.model = "assistant" /\ anthropic.call = "tool_use" /\ anthropic.result = "tool_result"
      /\ gemini.model = "model" /\ gemini.call = "functionCall" /\ gemini.result = "functionResponse"
  BY DEF anthropic, gemini
<1> QED
  BY <1>2, <1>3, <1>4, <1>5 DEF Acceptable

--------------------------------------------------------------------------------
(* A call that proposes names a manifest of the answers. *)
LEMMA ProposalsAreManifests ==
    \A call \in Parts : call.tool = "propose_device" => call.arg \in Manifests
<1> SUFFICES ASSUME NEW parts \in Completions, NEW i \in DOMAIN parts,
                    parts[i].tool = "propose_device"
             PROVE  parts[i].arg \in Manifests
  BY DEF Parts, ToSet
<1>1. i \in 1..Len(parts)
  BY CompletionsAssumption, LenProperties
<1> QED
  BY <1>1 DEF Manifests

(* A conversation starts without calls and proposals... *)
LEMMA StartOK ==
    ASSUME NEW history, NEW n \in Nat
    PROVE  RunOK(StartRun(history, n))
BY DEF RunOK, StartRun

(* ...and keeps its calls and its proposals apart from the texts. *)
LEMMA CompletedOK ==
    ASSUME NEW run, RunOK(run), NEW calls \in Seq(Parts)
    PROVE  RunOK(Completed(run, calls)) /\ Completed(run, calls).proposals = run.proposals
BY DEF RunOK, Completed

(* The gate lets nothing else through. *)
LEMMA HandledOK ==
    ASSUME NEW run, RunOK(run), Handling(run)
    PROVE  RunOK(Handled(run))
<1> DEFINE call == Head(run.calls)
           last == Len(run.calls) = 1
           proposals == IF call.tool = "propose_device" THEN propose_device(run.proposals, call.arg)
                        ELSE run.proposals
<1>1. call \in Parts /\ Tail(run.calls) \in Seq(Parts)
  BY TailFacts DEF RunOK, Handling
<1>2. proposals \in Seq(Proposals)
  BY <1>1, ProposalsAreManifests, AppendFacts DEF RunOK, propose_device, Proposals
<1> DEFINE messages == run.messages \o Result(run, call)
           steps == IF last THEN run.steps + 1 ELSE run.steps
           ended == last /\ run.steps + 1 = MaxSteps
<1>3. Handled(run) =
         [of |-> run.of, messages |-> messages, calls |-> Tail(run.calls),
          proposals |-> proposals, steps |-> steps, ended |-> ended]
  BY DEF Handled
<1> HIDE DEF call, last, proposals, messages, steps, ended
<1> QED
  BY <1>1, <1>2, <1>3 DEF RunOK

--------------------------------------------------------------------------------
(* What the actions do to the fields of the view. *)

(* A click only changes the button of its own card. *)
LEMMA ClickEffect ==
    ASSUME Types, NEW i \in 1..Len(view.cards), clickApply(i)
    PROVE  /\ view' = [thinking |-> view.thinking, cards |-> view'.cards, waiting |-> view.waiting]
           /\ view'.cards \in Seq(Cards) /\ Len(view'.cards) = Len(view.cards)
           /\ \A j \in 1..Len(view.cards) : j # i => view'.cards[j] = view.cards[j]
           /\ view'.cards[i].index = view.cards[i].index
           /\ view'.cards[i].yaml = view.cards[i].yaml
           /\ view'.cards[i].button = "applying"
<1> DEFINE card == [view.cards[i] EXCEPT !.button = "applying"]
<1>1. view.cards[i] \in Cards
  BY DEF Types, ViewTypes
<1>2. /\ card \in Cards /\ card.index = view.cards[i].index /\ card.yaml = view.cards[i].yaml
      /\ card.button = "applying"
  BY <1>1 DEF Cards
<1>3. view' = [view EXCEPT !.cards = [view.cards EXCEPT ![i] = card]]
  BY DEF clickApply, Clicked
<1> HIDE DEF card
<1>4. view' = [thinking |-> view.thinking, cards |-> [view.cards EXCEPT ![i] = card],
               waiting |-> view.waiting]
  <2>1. PICK th, cs, w : view = [thinking |-> th, cards |-> cs, waiting |-> w]
    BY DEF Types, ViewTypes
  <2> QED
    BY <1>3, <2>1
<1>5. /\ view'.cards \in Seq(Cards) /\ Len(view'.cards) = Len(view.cards)
      /\ \A j \in 1..Len(view.cards) : j # i => view'.cards[j] = view.cards[j]
      /\ view'.cards[i] = card
  <2>1. view'.cards = [view.cards EXCEPT ![i] = card] /\ view.cards \in Seq(Cards)
    BY <1>4 DEF Types, ViewTypes
  <2> QED
    BY <1>2, <2>1, ExceptSeq
<1> QED
  BY <1>2, <1>4, <1>5

(* Labelling changes the buttons of one index. *)
LEMMA LabelledOK ==
    ASSUME Types, NEW index, NEW label \in {"apply", "applying", "applied"}
    PROVE  /\ Labelled(index, label) \in Seq(Cards)
           /\ Len(Labelled(index, label)) = Len(view.cards)
           /\ \A i \in 1..Len(view.cards) :
                 /\ Labelled(index, label)[i].index = view.cards[i].index
                 /\ Labelled(index, label)[i].yaml = view.cards[i].yaml
                 /\ Labelled(index, label)[i].button =
                       IF view.cards[i].index = index THEN label ELSE view.cards[i].button
<1> DEFINE card(i) == [view.cards[i] EXCEPT !.button = label]
<1>1. \A i \in 1..Len(view.cards) : view.cards[i] \in Cards
  BY DEF Types, ViewTypes
<1>2. \A i \in 1..Len(view.cards) :
         /\ card(i) \in Cards /\ card(i).index = view.cards[i].index
         /\ card(i).yaml = view.cards[i].yaml /\ card(i).button = label
  BY <1>1 DEF Cards
<1>3. Labelled(index, label) =
         [i \in 1..Len(view.cards) |->
             IF view.cards[i].index = index THEN card(i) ELSE view.cards[i]]
  BY DEF Labelled
<1>4. Len(view.cards) \in Nat
  BY LenProperties DEF Types, ViewTypes
<1> HIDE DEF card
<1>5. Labelled(index, label) \in [1..Len(view.cards) -> Cards]
  BY <1>1, <1>2, <1>3
<1>6. Labelled(index, label) \in Seq(Cards) /\ Len(Labelled(index, label)) = Len(view.cards)
  BY <1>4, <1>5, IsASeq, LenProperties
<1> QED
  BY <1>2, <1>3, <1>6

(* What a message is depends on its type. *)
LEMMA MessageKinds ==
    /\ \A m \in ViewMessages :
          \/ m.type = "thinking" /\ m.of \in Nat
          \/ m.type = "answer" /\ m.of \in Nat /\ m.cards \in Seq(Cards)
          \/ m.type \in {"error", "needKey"} /\ m.of \in Nat
          \/ m.type \in {"applied", "applyCancelled", "applyError"} /\ m.index \in Nat
    /\ \A m \in HostMessages :
          \/ m.type = "ask" /\ m.of \in Nat
          \/ m.type = "apply" /\ m.index \in Nat
          \/ m.type = "saveSettings" /\ m.settings \in Settings
BY DEF ViewMessages, HostMessages

(* A message is read from the front of the queue, and is one of three:     *)
(* dots, a reply, or one that lets a button go.                            *)
LEMMA ReceiveEffect ==
    ASSUME Types, ViewReceives
    PROVE  /\ 1 \in 1..Len(toView) /\ toView[1] \in ViewMessages
           /\ view' = [thinking |-> view'.thinking, cards |-> view'.cards, waiting |-> view'.waiting]
           /\ \/ /\ toView[1].type = "thinking"
                 /\ view'.thinking = TRUE /\ view'.cards = view.cards /\ view'.waiting = view.waiting
              \/ /\ toView[1].type = "answer" /\ toView[1].of \in Nat /\ toView[1].cards \in Seq(Cards)
                 /\ view'.thinking = FALSE /\ view'.cards = view.cards \o toView[1].cards
                 /\ view'.waiting = view.waiting \ {toView[1].of}
              \/ /\ toView[1].type \in {"error", "needKey"} /\ toView[1].of \in Nat
                 /\ view'.thinking = FALSE /\ view'.cards = view.cards
                 /\ view'.waiting = view.waiting \ {toView[1].of}
              \/ /\ LetsGo(toView[1]) /\ toView[1].index \in Nat
                 /\ view'.thinking = view.thinking /\ view'.waiting = view.waiting
                 /\ \E label \in {"apply", "applied"} : view'.cards = Labelled(toView[1].index, label)
<1> DEFINE m == toView[1]
<1>1. toView # <<>> /\ toView \in Seq(ViewMessages)
  BY DEF ViewReceives, Types, QueueTypes, ViewTypes
<1>2. m = Head(toView) /\ m \in ViewMessages /\ 1 \in 1..Len(toView)
  BY <1>1, TailFacts
<1>3. PICK th, cs, w : view = [thinking |-> th, cards |-> cs, waiting |-> w]
  BY DEF Types, QueueTypes, ViewTypes
<1>4. view' = CASE m.type = "thinking" -> [view EXCEPT !.thinking = TRUE]
                [] m.type = "answer" -> Replied(m, m.cards)
                [] m.type \in {"error", "needKey"} -> Replied(m, <<>>)
                [] m.type = "applied" -> [view EXCEPT !.cards = Labelled(m.index, "applied")]
                [] m.type \in {"applyCancelled", "applyError"} ->
                      [view EXCEPT !.cards = Labelled(m.index, "apply")]
  BY <1>2 DEF ViewReceives
<1> HIDE DEF m
<1>5. CASE m.type = "thinking"
  BY <1>2, <1>3, <1>4, <1>5 DEF m
<1>6. CASE m.type = "answer"
  <2>1. m.of \in Nat /\ m.cards \in Seq(Cards)
    BY <1>2, <1>6, MessageKinds
  <2>2. view' = [thinking |-> FALSE, cards |-> view.cards \o m.cards, waiting |-> view.waiting \ {m.of}]
    BY <1>4, <1>6 DEF Replied
  <2> QED
    BY <1>2, <1>6, <2>1, <2>2 DEF m
<1>7. CASE m.type \in {"error", "needKey"}
  <2>1. m.of \in Nat
    BY <1>2, <1>7, MessageKinds
  <2>2. view' = [thinking |-> FALSE, cards |-> view.cards \o <<>>, waiting |-> view.waiting \ {m.of}]
    BY <1>4, <1>7 DEF Replied
  <2>3. view.cards \o <<>> = view.cards
    BY ConcatEmptySeq DEF Types, QueueTypes, ViewTypes
  <2> QED
    BY <1>2, <1>7, <2>1, <2>2, <2>3 DEF m
<1>8. CASE m.type \in {"applied", "applyCancelled", "applyError"}
  <2>1. m.index \in Nat
    BY <1>2, <1>8, MessageKinds
  <2>2. PICK label \in {"apply", "applied"} : view' = [view EXCEPT !.cards = Labelled(m.index, label)]
    BY <1>4, <1>8
  <2>3. view' = [thinking |-> th, cards |-> Labelled(m.index, label), waiting |-> w]
    BY <1>3, <2>2
  <2> QED
    BY <1>2, <1>3, <1>8, <2>1, <2>3 DEF m, LetsGo
<1> QED
  BY <1>2, <1>5, <1>6, <1>7, <1>8, MessageKinds

--------------------------------------------------------------------------------
(* A handler of a question goes on waiting, ends its conversation, or      *)
(* replies.                                                                *)
Moves(a, b) ==
    /\ AskOK(b) /\ b.of = a.of /\ a.at # "yaml" /\ b.at # "yaml"
    /\ asks' = (asks \ {a}) \union {b}
    /\ UNCHANGED host
    /\ toView' \in {toView, Append(toView, Reply("thinking", a.of))}

Concludes(a, b) ==
    /\ AskOK(b) /\ b.of = a.of /\ a.at # "yaml" /\ b.at = "yaml"
    /\ asks' = (asks \ {a}) \union {b}
    /\ b.first = Len(host.proposals) + 1
    /\ host' = [activeUri |-> host.activeUri, proposals |-> host.proposals \o b.run.proposals,
                history |-> host'.history]
    /\ UNCHANGED toView

Answering(a, m) ==
    /\ a.at = "yaml" /\ m.type = "answer" /\ m.cards \in Seq(Cards)
    /\ Len(m.cards) = Len(a.run.proposals)
    /\ \A i \in 1..Len(m.cards) :
          /\ m.cards[i].index = CardIndex(a, i) /\ m.cards[i].yaml = a.run.proposals[i]
          /\ m.cards[i].button = "apply"

Replying(a, m) ==
    /\ m \in ViewMessages /\ m.of = a.of
    /\ Answering(a, m) \/ m.type \in {"error", "needKey"}
    /\ asks' = asks \ {a}
    /\ UNCHANGED host
    /\ toView' = Append(toView, m)

(* A handler that moves on keeps its question. *)
LEMMA AskFields ==
    \A a, at, run, first :
        /\ At(a, at, run, first).of = a.of /\ At(a, at, run, first).at = at
        /\ At(a, at, run, first).run = run /\ At(a, at, run, first).first = first
        /\ AskOK(a) /\ at \in {"key", "note", "agent", "yaml"} /\ RunOK(run) /\ first \in Nat =>
              AskOK(At(a, at, run, first))
BY DEF AskOK, At

(* What a conversation does to its handler and to the panel. *)
LEMMA ProgressEffect ==
    ASSUME Types, NEW a \in asks, a.at = "agent", NEW run, RunOK(run), Progress(a, run),
           UNCHANGED toView
    PROVE  \E b : Moves(a, b) \/ Concludes(a, b)
<1>1. AskOK(a) /\ host.proposals \in Seq(Proposals) /\ Len(host.proposals) \in Nat
  BY LenProperties DEF Types, AskTypes, HostTypes
<1>2. CASE ~run.ended
  <2>1. AskOK(At(a, "agent", run, a.first)) /\ At(a, "agent", run, a.first).of = a.of
        /\ At(a, "agent", run, a.first).at = "agent"
    BY <1>1, AskFields DEF AskOK
  <2> QED
    BY <1>2, <2>1 DEF Progress, Step, Moves
<1>3. CASE run.ended
  <2> DEFINE b == At(a, "yaml", run, Len(host.proposals) + 1)
             history == host.history \o <<Question(a.of), Answer(a.of)>>
  <2>1. AskOK(b) /\ b.of = a.of /\ b.at = "yaml" /\ b.run = run /\ b.first = Len(host.proposals) + 1
    <3>1. Len(host.proposals) + 1 \in Nat
      BY <1>1
    <3> QED
      BY <1>1, <3>1, AskFields
  <2>2. asks' = (asks \ {a}) \union {b}
    BY <1>3 DEF Progress, Step
  <2>3. host' = [host EXCEPT !.history = history, !.proposals = host.proposals \o run.proposals]
    BY <1>3 DEF Progress
  <2> HIDE DEF b, history
  <2>4. host' = [activeUri |-> host.activeUri, proposals |-> host.proposals \o run.proposals,
                 history |-> history]
    <3>1. PICK u, ps, h : host = [activeUri |-> u, proposals |-> ps, history |-> h]
      BY DEF Types, AskTypes, HostTypes
    <3> QED
      BY <2>3, <3>1
  <2> QED
    BY <2>1, <2>2, <2>4 DEF Concludes
<1> QED
  BY <1>2, <1>3

(* No step of a handler does anything else, nor touches another handler. *)
LEMMA AskEffect ==
    ASSUME Types, NEW a \in asks, AskGoesOn(a)
    PROVE  /\ \/ \E b : Moves(a, b) \/ Concludes(a, b)
              \/ \E m : Replying(a, m)
           /\ UNCHANGED <<applies, saves, settings, toHost, view, disk, used>>
<1>1. AskOK(a) /\ RunOK(a.run) /\ a.of \in Nat /\ a.first \in Nat
  BY DEF Types, AskTypes, AskOK
<1>2. CASE KeyRead(a)
  <2>1. CASE settings.key \/ a.local
    <3> DEFINE b == At(a, "note", a.run, a.first)
    <3>1. AskOK(b) /\ b.of = a.of /\ b.at = "note"
      BY <1>1, AskFields
    <3>2. asks' = (asks \ {a}) \union {b} /\ a.at = "key" /\ UNCHANGED <<host, toView>>
      BY <1>2, <2>1 DEF KeyRead, Step
    <3> HIDE DEF b
    <3>3. Moves(a, b)
      BY <3>1, <3>2 DEF Moves
    <3> QED
      BY <1>2, <3>3 DEF KeyRead
  <2>2. CASE ~(settings.key \/ a.local)
    <3>1. Replying(a, Reply("needKey", a.of))
      BY <1>1, <1>2, <2>2 DEF KeyRead, Replying, Leave, Post, Reply, ViewMessages
    <3> QED
      BY <1>2, <3>1 DEF KeyRead
  <2> QED
    BY <2>1, <2>2
<1>3. CASE NoteRead(a)
  <2> DEFINE b == At(a, "agent", StartRun(host.history, a.of), a.first)
  <2>1. AskOK(b) /\ b.of = a.of /\ b.at = "agent"
    BY <1>1, AskFields, StartOK
  <2>2. asks' = (asks \ {a}) \union {b} /\ a.at = "note" /\ UNCHANGED host
        /\ toView' = Append(toView, Reply("thinking", a.of))
    BY <1>3 DEF NoteRead, Step, Post
  <2> HIDE DEF b
  <2>3. Moves(a, b)
    BY <2>1, <2>2 DEF Moves
  <2> QED
    BY <1>3, <2>3 DEF NoteRead
<1>4. CASE ToolRuns(a)
  <2>1. RunOK(Handled(a.run))
    BY <1>1, <1>4, HandledOK DEF ToolRuns
  <2> QED
    BY <1>4, <2>1, ProgressEffect DEF ToolRuns
<1>5. CASE ProviderFails(a)
  <2>1. Replying(a, Reply("error", a.of))
    BY <1>1, <1>5 DEF ProviderFails, Failed, Replying, Leave, Reply, ViewMessages
  <2> QED
    BY <1>5, <2>1 DEF ProviderFails
<1>6. CASE \E parts \in Completions : ProviderAnswers(a, parts)
  <2>1. PICK parts \in Completions : ProviderAnswers(a, parts)
    BY <1>6
  <2>2. RunOK(Completed(a.run, parseToolCalls(parts)))
    BY <1>1, CallsAreParts, CompletedOK
  <2> QED
    BY <2>1, <2>2, ProgressEffect DEF ProviderAnswers
<1>7. CASE YamlRead(a)
  <2> DEFINE card(i) == [index |-> CardIndex(a, i), yaml |-> a.run.proposals[i], button |-> "apply"]
             cards == [i \in 1..Len(a.run.proposals) |-> card(i)]
             m == [type |-> "answer", of |-> a.of, cards |-> cards]
  <2>1. a.run.proposals \in Seq(Proposals) /\ Len(a.run.proposals) \in Nat
    BY <1>1, LenProperties DEF RunOK
  <2>2. \A i \in 1..Len(a.run.proposals) : card(i) \in Cards
    BY <1>1, <2>1 DEF CardIndex, Cards
  <2>3. cards \in Seq(Cards) /\ Len(cards) = Len(a.run.proposals)
    <3> HIDE DEF card
    <3> QED
      BY <2>1, <2>2, IsASeq, LenProperties
  <2>4. \A i \in 1..Len(cards) : cards[i] = card(i)
    BY <2>3
  <2>5. /\ a.at = "yaml" /\ asks' = asks \ {a} /\ UNCHANGED host /\ toView' = Append(toView, m)
    BY <1>7 DEF YamlRead, Leave, Post
  <2>6. Answering(a, m)
    <3>1. m.type = "answer" /\ m.cards = cards
      OBVIOUS
    <3>2. \A i \in 1..Len(cards) :
             /\ card(i).index = CardIndex(a, i) /\ card(i).yaml = a.run.proposals[i]
             /\ card(i).button = "apply"
      OBVIOUS
    <3> HIDE DEF cards, m, card
    <3> QED
      BY <2>3, <2>4, <2>5, <3>1, <3>2 DEF Answering
  <2>7. m \in ViewMessages /\ m.of = a.of
    <3> HIDE DEF cards
    <3> QED
      BY <1>1, <2>3 DEF ViewMessages
  <2> HIDE DEF m, cards
  <2>8. Replying(a, m)
    BY <2>5, <2>6, <2>7 DEF Replying
  <2> QED
    BY <1>7, <2>8 DEF YamlRead
<1> QED
  BY <1>2, <1>3, <1>4, <1>5, <1>6, <1>7 DEF AskGoesOn

--------------------------------------------------------------------------------
(* The same for an apply: it moves on, writes, or lets go of the button.   *)
Proceeds(t, s) ==
    /\ s = [index |-> t.index, at |-> s.at, uri |-> s.uri]
    /\ s.at \in {"read", "write"} /\ s.uri \in Uris \union {None}
    /\ t.at # "dialog" => s.uri = t.uri
    /\ t.at = "dialog" => s.uri \in Uris
    /\ applies' = (applies \ {t}) \union {s}
    /\ UNCHANGED <<host, toView, disk>>

LetGo(t, m) ==
    /\ m \in ViewMessages /\ LetsGo(m) /\ m.index = t.index
    /\ applies' = applies \ {t}
    /\ toView' = Append(toView, m)

WritesTo(t) ==
    /\ t.at = "write"
    /\ disk' = [disk EXCEPT ![t.uri] = host.proposals[t.index]]
    /\ host' = [activeUri |-> t.uri, proposals |-> host.proposals, history |-> host.history]

(* No step of an apply does anything else. *)
LEMMA ApplyEffect ==
    ASSUME Types, Applies
    PROVE  \E t \in applies :
              /\ \/ \E s : Proceeds(t, s)
                 \/ \E m : LetGo(t, m) /\ (WritesTo(t) \/ UNCHANGED <<host, disk>>)
              /\ UNCHANGED <<asks, saves, settings, toHost, view>>
              /\ used' \in [asks : {used.asks}, failures : Nat, applies : Nat, saves : Nat]
<1>1. PICK t \in applies :
         FileRead(t) \/ Written(t) \/ WriteFails(t) \/ PickCancelled(t) \/ \E u \in Uris : Picked(t, u)
  BY DEF Applies
<1>2. /\ t = [index |-> t.index, at |-> t.at, uri |-> t.uri]
      /\ t.at \in {"dialog", "read", "write"} /\ t.uri \in Uris \union {None} /\ t.index \in Nat
      /\ used \in [asks : Nat, failures : Nat, applies : Nat, saves : Nat]
  BY DEF Types, ApplyTypes, ViewTypes, HostTypes
<1>3. used \in [asks : {used.asks}, failures : Nat, applies : Nat, saves : Nat]
  BY <1>2
<1>4. CASE FileRead(t)
  <2>1. [t EXCEPT !.at = "write"] = [index |-> t.index, at |-> "write", uri |-> t.uri]
    BY <1>2
  <2> DEFINE s == [index |-> t.index, at |-> "write", uri |-> t.uri]
  <2>2. Proceeds(t, s)
    BY <1>2, <1>4, <2>1 DEF FileRead, Proceeds
  <2> HIDE DEF s
  <2> QED
    BY <1>3, <1>4, <2>2 DEF FileRead
<1>5. CASE Written(t)
  <2> DEFINE m == [type |-> "applied", index |-> t.index]
  <2>1. LetGo(t, m)
    BY <1>2, <1>5 DEF Written, LetGo, Post, LetsGo, ViewMessages
  <2>2. WritesTo(t)
    <3>1. PICK u, ps, h : host = [activeUri |-> u, proposals |-> ps, history |-> h]
      BY DEF Types, ApplyTypes, ViewTypes, HostTypes
    <3> QED
      BY <1>5, <3>1 DEF Written, WritesTo
  <2> HIDE DEF m
  <2> QED
    BY <1>3, <1>5, <2>1, <2>2 DEF Written
<1>6. CASE WriteFails(t)
  <2> DEFINE m == [type |-> "applyError", index |-> t.index]
  <2>1. LetGo(t, m)
    BY <1>2, <1>6 DEF WriteFails, LetGo, Post, LetsGo, ViewMessages
  <2>2. used' \in [asks : {used.asks}, failures : Nat, applies : Nat, saves : Nat]
    BY <1>2, <1>6 DEF WriteFails
  <2> HIDE DEF m
  <2> QED
    BY <1>6, <2>1, <2>2 DEF WriteFails
<1>7. CASE PickCancelled(t)
  <2> DEFINE m == [type |-> "applyCancelled", index |-> t.index]
  <2>1. LetGo(t, m)
    BY <1>2, <1>7 DEF PickCancelled, Dismissed, LetGo, LetsGo, ViewMessages
  <2> HIDE DEF m
  <2> QED
    BY <1>3, <1>7, <2>1 DEF PickCancelled
<1>8. CASE \E u \in Uris : Picked(t, u)
  <2>1. PICK u \in Uris : Picked(t, u)
    BY <1>8
  <2>2. [t EXCEPT !.at = "read", !.uri = u] = [index |-> t.index, at |-> "read", uri |-> u]
    <3>1. PICK i, w, v : t = [index |-> i, at |-> w, uri |-> v]
      BY <1>2
    <3> DEFINE r == [t EXCEPT !.at = "read"]
    <3>2. r = [index |-> i, at |-> "read", uri |-> v]
      BY <3>1
    <3> HIDE DEF r
    <3>3. [r EXCEPT !.uri = u] = [index |-> i, at |-> "read", uri |-> u]
      BY <3>2
    <3>4. [[t EXCEPT !.at = "read"] EXCEPT !.uri = u] = [index |-> i, at |-> "read", uri |-> u]
      BY <3>3 DEF r
    <3> QED
      BY <3>1, <3>4
  <2> DEFINE s == [index |-> t.index, at |-> "read", uri |-> u]
  <2>3. Proceeds(t, s)
    BY <1>2, <2>1, <2>2 DEF Picked, Proceeds
  <2> HIDE DEF s
  <2> QED
    BY <1>3, <2>1, <2>3 DEF Picked
<1> QED
  BY <1>1, <1>4, <1>5, <1>6, <1>7, <1>8

--------------------------------------------------------------------------------
(* The panel starts a handler for what the webview asks for. *)
StartsAsk(m) ==
    /\ m.type = "ask"
    /\ \E b : AskOK(b) /\ b.of = m.of /\ b.at = "key" /\ asks' = asks \union {b}
    /\ UNCHANGED <<applies, saves>>

StartsApply(m) ==
    /\ m.type = "apply"
    /\ \E s : /\ s = [index |-> m.index, at |-> s.at, uri |-> s.uri]
              /\ s.at \in {"dialog", "read"} /\ s.uri \in Uris \union {None}
              /\ s.at # "dialog" => s.uri \in Uris
              /\ applies' = applies \union {s}
    /\ UNCHANGED <<asks, saves>>

StartsSave(m) ==
    /\ m.type = "saveSettings"
    /\ saves' = Append(saves, [at |-> "config", settings |-> m.settings])
    /\ UNCHANGED <<asks, applies>>

(* A message to the panel starts exactly one handler. *)
LEMMA HostEffect ==
    ASSUME Types, HostReceives
    PROVE  /\ 1 \in 1..Len(toHost) /\ toHost[1] \in HostMessages /\ toHost' = Tail(toHost)
           /\ StartsAsk(toHost[1]) \/ StartsApply(toHost[1]) \/ StartsSave(toHost[1])
           /\ UNCHANGED <<host, toView, settings, view, disk, used>>
<1> DEFINE m == toHost[1]
<1>1. toHost # <<>> /\ toHost \in Seq(HostMessages)
  BY DEF HostReceives, Types, QueueTypes, HostTypes
<1>2. m = Head(toHost) /\ m \in HostMessages /\ 1 \in 1..Len(toHost)
  BY <1>1, TailFacts
<1>3. \/ m.type = "ask" /\ ask(m.of)
      \/ m.type = "apply" /\ apply(m.index)
      \/ m.type = "saveSettings" /\ saves' = Append(saves, [at |-> "config", settings |-> m.settings])
         /\ UNCHANGED <<host, asks, applies, toView>>
  BY <1>2 DEF HostReceives
<1>4. toHost' = Tail(toHost) /\ UNCHANGED <<settings, view, disk, used>>
  BY DEF HostReceives
<1> HIDE DEF m
<1>5. CASE m.type = "ask" /\ ask(m.of)
  <2> DEFINE b == [of |-> m.of, at |-> "key", local |-> settings.local, first |-> 0,
                   run |-> StartRun(<<>>, m.of)]
  <2>1. m.of \in Nat
    BY <1>2, <1>5, MessageKinds
  <2>2. RunOK(StartRun(<<>>, m.of))
    BY <2>1, StartOK
  <2>3. AskOK(b) /\ b.of = m.of /\ b.at = "key"
    BY <2>1, <2>2 DEF AskOK
  <2>4. asks' = asks \union {b} /\ UNCHANGED <<host, applies, saves, toView>>
    BY <1>5 DEF ask
  <2> HIDE DEF b
  <2>5. StartsAsk(m)
    BY <1>5, <2>3, <2>4 DEF StartsAsk
  <2> QED
    BY <1>2, <1>4, <2>4, <2>5 DEF m
<1>6. CASE m.type = "apply" /\ apply(m.index)
  <2>1. PICK live \in Uris \union {None}, editor \in Uris \union {None} :
           LET target == targetUri(live, editor) IN
           /\ applies' = applies \union
                  {[index |-> m.index, at |-> IF target = None THEN "dialog" ELSE "read", uri |-> target]}
           /\ UNCHANGED <<host, asks, saves, toView>>
    BY <1>6 DEF apply
  <2> DEFINE target == targetUri(live, editor)
             s == [index |-> m.index, at |-> IF target = None THEN "dialog" ELSE "read",
                   uri |-> target]
  <2>2. target \in Uris \union {None}
    BY DEF targetUri, deviceUri, Types, QueueTypes, HostTypes
  <2> HIDE DEF target
  <2>3. /\ s = [index |-> m.index, at |-> s.at, uri |-> s.uri]
        /\ s.at \in {"dialog", "read"} /\ s.uri \in Uris \union {None}
        /\ s.at # "dialog" => s.uri \in Uris
    BY <2>2
  <2>4. applies' = applies \union {s} /\ UNCHANGED <<host, asks, saves, toView>>
    BY <2>1 DEF target
  <2> HIDE DEF s
  <2>5. StartsApply(m)
    BY <1>6, <2>3, <2>4 DEF StartsApply
  <2> QED
    BY <1>2, <1>4, <2>4, <2>5 DEF m
<1>7. CASE m.type = "saveSettings" /\ saves' = Append(saves, [at |-> "config", settings |-> m.settings])
           /\ UNCHANGED <<host, asks, applies, toView>>
  <2>1. StartsSave(m)
    BY <1>7 DEF StartsSave
  <2> QED
    BY <1>2, <1>4, <1>7, <2>1 DEF m
<1> QED
  BY <1>3, <1>5, <1>6, <1>7

(* Saving the settings touches nothing else. *)
LEMMA SavesEffect ==
    ASSUME Types, Saves
    PROVE  /\ saves' \in Seq([at : {"config", "key"}, settings : Settings])
           /\ settings' \in [local : BOOLEAN, key : BOOLEAN]
           /\ UNCHANGED <<host, asks, applies, toHost, toView, view, disk, used>>
<1> DEFINE S == [at : {"config", "key"}, settings : Settings]
<1>1. PICK i \in 1..Len(saves) : ConfigUpdated(i) \/ KeyStored(i)
  BY DEF Saves
<1>2. saves \in Seq(S) /\ saves[i] \in S /\ settings \in [local : BOOLEAN, key : BOOLEAN]
      /\ Len(saves) \in Nat
  BY LenProperties DEF Types, SaveTypes
<1>3. saves[i].settings \in [local : BOOLEAN, key : BOOLEAN]
  BY <1>2, SettingsAssumption
<1>4. CASE ConfigUpdated(i)
  <2>1. [saves[i] EXCEPT !.at = "key"] \in S
    BY <1>2
  <2>2. saves' = [saves EXCEPT ![i] = [saves[i] EXCEPT !.at = "key"]]
    BY <1>4 DEF ConfigUpdated
  <2>3. saves' \in Seq(S)
    BY <1>2, <2>1, <2>2, ExceptSeq
  <2> QED
    BY <1>2, <1>3, <1>4, <2>3 DEF ConfigUpdated
<1>5. CASE KeyStored(i)
  <2>1. RemoveAt(saves, i) \in Seq(S)
    BY <1>2, RemoveAtOK
  <2> QED
    BY <1>2, <1>3, <1>5, <2>1 DEF KeyStored
<1> QED
  BY <1>1, <1>4, <1>5

(* A question takes a number no question had. *)
LEMMA SubmitEffect ==
    ASSUME Types, submit
    PROVE  /\ used.asks \in Nat
           /\ used' \in [asks : {used.asks + 1}, failures : Nat, applies : Nat, saves : Nat]
           /\ view' = [thinking |-> TRUE, cards |-> view.cards,
                       waiting |-> view.waiting \union {used.asks + 1}]
           /\ toHost' = Append(toHost, [type |-> "ask", of |-> used.asks + 1])
           /\ [type |-> "ask", of |-> used.asks + 1] \in HostMessages
           /\ UNCHANGED <<hostVars, toView, disk>>
<1>1. used \in [asks : Nat, failures : Nat, applies : Nat, saves : Nat]
  BY DEF Types, ViewTypes
<1>2. used' \in [asks : {used.asks + 1}, failures : Nat, applies : Nat, saves : Nat]
  BY <1>1 DEF submit
<1>3. PICK th, cs, w : view = [thinking |-> th, cards |-> cs, waiting |-> w]
  BY DEF Types, ViewTypes
<1> DEFINE w2 == view.waiting \union {used.asks + 1}
<1>4. view' = [view EXCEPT !.thinking = TRUE, !.waiting = w2]
  BY DEF submit
<1> HIDE DEF w2
<1>5. view' = [thinking |-> TRUE, cards |-> view.cards, waiting |-> w2]
  BY <1>3, <1>4
<1>6. [type |-> "ask", of |-> used.asks + 1] \in HostMessages
  BY <1>1 DEF HostMessages
<1> QED
  BY <1>1, <1>2, <1>5, <1>6 DEF submit, w2

(* What does not change keeps its type. *)
LEMMA TypesFrame ==
    ASSUME Types
    PROVE  /\ UNCHANGED host => HostTypes'
           /\ UNCHANGED asks => AskTypes'
           /\ UNCHANGED applies => ApplyTypes'
           /\ UNCHANGED <<saves, settings>> => SaveTypes'
           /\ UNCHANGED <<toHost, toView>> => QueueTypes'
           /\ UNCHANGED <<view, used>> => ViewTypes'
           /\ UNCHANGED disk => DOMAIN disk' = Uris
<1>1. UNCHANGED host => HostTypes'
  BY DEF Types, HostTypes
<1>2. UNCHANGED asks => AskTypes'
  BY DEF Types, AskTypes
<1>3. UNCHANGED applies => ApplyTypes'
  BY DEF Types, ApplyTypes
<1>4. UNCHANGED <<saves, settings>> => SaveTypes'
  BY DEF Types, SaveTypes
<1>5. UNCHANGED <<toHost, toView>> => QueueTypes'
  BY DEF Types, QueueTypes
<1>6. UNCHANGED <<view, used>> => ViewTypes'
  BY DEF Types, ViewTypes
<1> QED
  BY <1>1, <1>2, <1>3, <1>4, <1>5, <1>6 DEF Types

(* Every step keeps the types. *)
LEMMA TypesStep ==
    ASSUME Types, [Next]_vars
    PROVE  Types'
<1>1. CASE submit
  <2> DEFINE m == [type |-> "ask", of |-> used.asks + 1]
  <2>1. /\ used.asks \in Nat
        /\ used' \in [asks : {used.asks + 1}, failures : Nat, applies : Nat, saves : Nat]
        /\ view' = [thinking |-> TRUE, cards |-> view.cards,
                    waiting |-> view.waiting \union {used.asks + 1}]
        /\ toHost' = Append(toHost, m) /\ m \in HostMessages
        /\ UNCHANGED <<hostVars, toView, disk>>
    BY <1>1, SubmitEffect
  <2> HIDE DEF m
  <2>2. QueueTypes'
    BY <2>1, AppendFacts DEF Types, QueueTypes
  <2>3. view.cards \in Seq(Cards) /\ view.waiting \in SUBSET (1..used.asks)
    BY DEF Types, ViewTypes
  <2>4. ViewTypes'
    BY <2>1, <2>3 DEF ViewTypes
  <2> QED
    BY <2>1, <2>2, <2>4, TypesFrame DEF Types, hostVars
<1>2. ASSUME NEW i \in 1..Len(view.cards), clickApply(i)
      PROVE  Types'
  <2>1. [type |-> "apply", index |-> view.cards[i].index] \in HostMessages
    <3>1. view.cards[i] \in Cards
      BY DEF Types, ViewTypes
    <3> QED
      BY <3>1 DEF HostMessages, Cards
  <2>2. QueueTypes'
    BY <1>2, <2>1, AppendFacts DEF clickApply, Types, QueueTypes
  <2>3. used' \in [asks : {used.asks}, failures : Nat, applies : Nat, saves : Nat]
    <3>1. used' = [used EXCEPT !.applies = used.applies + 1]
      BY <1>2 DEF clickApply
    <3> QED
      BY <3>1 DEF Types, ViewTypes
  <2>4. ViewTypes'
    BY <1>2, <2>3, ClickEffect DEF Types, ViewTypes
  <2> QED
    BY <1>2, <2>2, <2>4, TypesFrame DEF clickApply, Types, hostVars
<1>3. ASSUME NEW s \in Settings, clickSave(s)
      PROVE  Types'
  <2>1. [type |-> "saveSettings", settings |-> s] \in HostMessages
    BY DEF HostMessages
  <2>2. QueueTypes'
    BY <1>3, <2>1, AppendFacts DEF clickSave, Types, QueueTypes
  <2>3. used' \in [asks : {used.asks}, failures : Nat, applies : Nat, saves : Nat]
    BY <1>3 DEF clickSave, Types, ViewTypes
  <2>4. ViewTypes'
    BY <1>3, <2>3 DEF clickSave, Types, ViewTypes
  <2> QED
    BY <1>3, <2>2, <2>4, TypesFrame DEF clickSave, Types, hostVars
<1>4. CASE ViewReceives
  <2>1. QueueTypes'
    BY <1>4, TailFacts DEF ViewReceives, Types, QueueTypes
  <2>2. view.cards \in Seq(Cards) /\ view.thinking \in BOOLEAN
        /\ view.waiting \in SUBSET (1..used.asks)
    BY DEF Types, ViewTypes
  <2>3. view'.cards \in Seq(Cards)
    <3>1. \/ view'.cards = view.cards
          \/ toView[1].cards \in Seq(Cards) /\ view'.cards = view.cards \o toView[1].cards
          \/ \E index, label : label \in {"apply", "applied"} /\ view'.cards = Labelled(index, label)
      BY <1>4, ReceiveEffect
    <3>2. \A index, label : label \in {"apply", "applied"} => Labelled(index, label) \in Seq(Cards)
      BY LabelledOK
    <3>3. \A cards \in Seq(Cards) : view.cards \o cards \in Seq(Cards)
      BY <2>2, ConcatFacts
    <3> QED
      BY <2>2, <3>1, <3>2, <3>3
  <2>4. view'.thinking \in BOOLEAN /\ view'.waiting \in SUBSET (1..used.asks)
    BY <1>4, <2>2, ReceiveEffect
  <2>5. ViewTypes'
    BY <1>4, <2>3, <2>4, ReceiveEffect DEF ViewReceives, Types, ViewTypes
  <2> QED
    BY <1>4, <2>1, <2>5, TypesFrame DEF ViewReceives, Types, hostVars
<1>5. CASE HostReceives
  <2>1. /\ QueueTypes' /\ toHost[1] \in HostMessages
        /\ StartsAsk(toHost[1]) \/ StartsApply(toHost[1]) \/ StartsSave(toHost[1])
        /\ UNCHANGED <<host, settings, view, disk, used>>
    BY <1>5, HostEffect, TailFacts DEF HostReceives, Types, QueueTypes
  <2>2. CASE StartsAsk(toHost[1])
    <3>1. AskTypes'
      BY <2>2 DEF StartsAsk, Types, AskTypes
    <3> QED
      BY <2>1, <2>2, <3>1, TypesFrame DEF StartsAsk, Types
  <2>3. CASE StartsApply(toHost[1])
    <3>1. toHost[1].index \in Nat
      BY <2>1, <2>3, MessageKinds DEF StartsApply
    <3>2. ApplyTypes'
      BY <2>3, <3>1 DEF StartsApply, Types, ApplyTypes
    <3> QED
      BY <2>1, <2>3, <3>2, TypesFrame DEF StartsApply, Types
  <2>4. CASE StartsSave(toHost[1])
    <3>1. toHost[1].settings \in Settings
      BY <2>1, <2>4, MessageKinds DEF StartsSave
    <3>2. [at |-> "config", settings |-> toHost[1].settings]
             \in [at : {"config", "key"}, settings : Settings]
      BY <3>1
    <3>3. SaveTypes'
      BY <2>1, <2>4, <3>2, AppendFacts DEF StartsSave, Types, SaveTypes
    <3> QED
      BY <2>1, <2>4, <3>3, TypesFrame DEF StartsSave, Types
  <2> QED
    BY <2>1, <2>2, <2>3, <2>4
<1>6. ASSUME NEW a \in asks, AskGoesOn(a)
      PROVE  Types'
  <2>1. UNCHANGED <<applies, saves, settings, toHost, view, disk, used>>
    BY <1>6, AskEffect
  <2>2. ASSUME NEW b, Moves(a, b)
        PROVE  Types'
    <3>1. Reply("thinking", a.of) \in ViewMessages
      BY DEF Reply, ViewMessages, Types, AskTypes, AskOK
    <3>2. QueueTypes'
      BY <2>1, <2>2, <3>1, AppendFacts DEF Moves, Types, QueueTypes
    <3>3. AskTypes'
      BY <2>2 DEF Moves, Types, AskTypes
    <3> QED
      BY <2>1, <2>2, <3>2, <3>3, TypesFrame DEF Moves, Types
  <2>3. ASSUME NEW b, Concludes(a, b)
        PROVE  Types'
    <3>1. b.run.proposals \in Seq(Proposals)
      BY <2>3 DEF Concludes, AskOK, RunOK
    <3>2. HostTypes'
      <4>1. host.proposals \o b.run.proposals \in Seq(Proposals)
        BY <3>1, ConcatProperties DEF Types, HostTypes
      <4>2. host' = [activeUri |-> host.activeUri, proposals |-> host.proposals \o b.run.proposals,
                     history |-> host'.history]
        BY <2>3 DEF Concludes
      <4>3. host.activeUri \in Uris \union {None}
        BY DEF Types, HostTypes
      <4>4. PICK h : host' = [activeUri |-> host.activeUri,
                              proposals |-> host.proposals \o b.run.proposals, history |-> h]
        BY <4>2
      <4> QED
        BY <4>1, <4>3, <4>4 DEF HostTypes
    <3>3. AskTypes'
      BY <2>3 DEF Concludes, Types, AskTypes
    <3> QED
      BY <2>1, <2>3, <3>2, <3>3, TypesFrame DEF Concludes, Types
  <2>4. ASSUME NEW m, Replying(a, m)
        PROVE  Types'
    <3>1. QueueTypes'
      BY <2>1, <2>4, AppendFacts DEF Replying, Types, QueueTypes
    <3>2. AskTypes'
      BY <2>4 DEF Replying, Types, AskTypes
    <3> QED
      BY <2>1, <2>4, <3>1, <3>2, TypesFrame DEF Replying, Types
  <2> QED
    BY <1>6, <2>2, <2>3, <2>4, AskEffect
<1>7. CASE Applies
  <2>1. PICK t \in applies :
           /\ \/ \E s : Proceeds(t, s)
              \/ \E m : LetGo(t, m) /\ (WritesTo(t) \/ UNCHANGED <<host, disk>>)
           /\ UNCHANGED <<asks, saves, settings, toHost, view>>
           /\ used' \in [asks : {used.asks}, failures : Nat, applies : Nat, saves : Nat]
    BY <1>7, ApplyEffect
  <2>2. t.index \in Nat /\ (t.at # "dialog" => t.uri \in Uris)
    BY DEF Types, ApplyTypes
  <2>3. ViewTypes'
    BY <2>1 DEF Types, ViewTypes
  <2>4. ASSUME NEW s, Proceeds(t, s)
        PROVE  Types'
    <3>1. ApplyTypes'
      <4>1. t.index \in Nat
        BY DEF Types, ApplyTypes
      <4>2. s.index = t.index /\ s.uri \in Uris
        BY <2>2, <2>4 DEF Proceeds
      <4> QED
        BY <2>4, <4>1, <4>2 DEF Proceeds, Types, ApplyTypes
    <3> QED
      BY <2>1, <2>3, <2>4, <3>1, TypesFrame DEF Proceeds, Types
  <2>5. ASSUME NEW m, LetGo(t, m), WritesTo(t) \/ UNCHANGED <<host, disk>>
        PROVE  Types'
    <3>1. QueueTypes'
      BY <2>1, <2>5, AppendFacts DEF LetGo, Types, QueueTypes
    <3>2. ApplyTypes'
      BY <2>5 DEF LetGo, Types, ApplyTypes
    <3>3. HostTypes' /\ DOMAIN disk' = Uris
      <4>1. CASE WritesTo(t)
        <5>1. t.uri \in Uris
          BY <2>2, <4>1 DEF WritesTo
        <5> QED
          BY <4>1, <5>1 DEF WritesTo, Types, HostTypes
      <4> QED
        BY <2>5, <4>1, TypesFrame
    <3> QED
      BY <2>1, <2>3, <3>1, <3>2, <3>3, TypesFrame DEF Types
  <2> QED
    BY <2>1, <2>4, <2>5
<1>8. CASE Saves
  <2>1. SaveTypes'
    BY <1>8, SavesEffect DEF SaveTypes
  <2> QED
    BY <1>8, <2>1, SavesEffect, TypesFrame DEF Types
<1>9. CASE UNCHANGED vars
  BY <1>9, TypesFrame DEF vars, hostVars, Types
<1> QED
  BY <1>1, <1>2, <1>3, <1>4, <1>5, <1>6, <1>7, <1>8, <1>9 DEF Next

--------------------------------------------------------------------------------
(* What posting and reading do to the places of the messages. *)
LEMMA HostAppended ==
    ASSUME Types, NEW m \in HostMessages, toHost' = Append(toHost, m)
    PROVE  LET n == Len(toHost) + 1 IN
           /\ n \in Nat /\ toHost'[n] = m
           /\ \A p \in 1..Len(toHost) : toHost'[p] = toHost[p] /\ p # n
           /\ Asked' = IF m.type = "ask" THEN Asked \union {n} ELSE Asked
           /\ Clicks' = IF m.type = "apply" THEN Clicks \union {n} ELSE Clicks
           /\ Asked \subseteq 1..Len(toHost) /\ Clicks \subseteq 1..Len(toHost)
<1> DEFINE n == Len(toHost) + 1
<1>1. /\ Len(toHost') = n /\ Len(toHost) \in Nat /\ toHost'[n] = m
      /\ \A p \in 1..Len(toHost) : toHost'[p] = toHost[p]
  BY AppendFacts DEF Types, QueueTypes
<1>2. \A p : p \in 1..Len(toHost') <=> p \in 1..Len(toHost) \/ p = n
  BY <1>1
<1>3. \A p \in 1..Len(toHost) : p # n
  BY <1>1
<1> HIDE DEF n
<1> QED
  BY <1>1, <1>2, <1>3 DEF Asked, Clicks, n

(* The messages that are left move up by one place... *)
LEMMA HostRead ==
    ASSUME Types, toHost # <<>>, toHost' = Tail(toHost)
    PROVE  /\ Asked' \union Clicks' \union Asked \union Clicks \subseteq Nat
           /\ \A p \in Asked' : p + 1 \in Asked /\ p # 0 /\ toHost'[p] = toHost[p + 1]
           /\ \A p \in Asked : p # 1 => p - 1 \in Asked' /\ toHost'[p - 1] = toHost[p]
           /\ \A p \in Clicks' : p + 1 \in Clicks /\ p # 0 /\ toHost'[p] = toHost[p + 1]
           /\ \A p \in Clicks : p # 1 => p - 1 \in Clicks' /\ toHost'[p - 1] = toHost[p]
<1>1. /\ Len(toHost) \in Nat \ {0} /\ Len(toHost') = Len(toHost) - 1
      /\ \A i \in 1..(Len(toHost) - 1) : toHost'[i] = toHost[i + 1]
  BY TailFacts DEF Types, QueueTypes
<1>2. \A p \in 1..Len(toHost') : p + 1 \in 1..Len(toHost) /\ p # 0 /\ toHost'[p] = toHost[p + 1]
  BY <1>1
<1>3. \A p \in 1..Len(toHost) : p # 1 => p - 1 \in 1..Len(toHost') /\ toHost'[p - 1] = toHost[p]
  BY <1>1
<1> QED
  BY <1>2, <1>3 DEF Asked, Clicks

(* ...and so in the other direction. *)
LEMMA ViewAppended ==
    ASSUME Types, NEW m \in ViewMessages, toView' = Append(toView, m)
    PROVE  LET n == Len(toView) + 1 IN
           /\ n \in Nat /\ toView'[n] = m
           /\ \A p \in 1..Len(toView) : toView'[p] = toView[p] /\ p < n
           /\ Replies' = IF IsReply(m) THEN Replies \union {n} ELSE Replies
           /\ Dots' = IF m.type = "thinking" THEN Dots \union {n} ELSE Dots
           /\ Releases' = IF LetsGo(m) THEN Releases \union {n} ELSE Releases
           /\ Deliveries' = IF m.type = "answer" THEN Deliveries \union {n} ELSE Deliveries
           /\ Replies \subseteq 1..Len(toView) /\ Dots \subseteq 1..Len(toView)
           /\ Releases \subseteq 1..Len(toView) /\ Deliveries \subseteq 1..Len(toView)
<1> DEFINE n == Len(toView) + 1
<1>1. /\ Len(toView') = n /\ Len(toView) \in Nat /\ toView'[n] = m
      /\ \A p \in 1..Len(toView) : toView'[p] = toView[p]
  BY AppendFacts DEF Types, QueueTypes
<1>2. \A p : p \in 1..Len(toView') <=> p \in 1..Len(toView) \/ p = n
  BY <1>1
<1>3. n \in Nat /\ \A p \in 1..Len(toView) : p < n
  BY <1>1
<1> HIDE DEF n
<1>4. Replies' = IF IsReply(m) THEN Replies \union {n} ELSE Replies
  BY <1>1, <1>2 DEF Replies, IsReply
<1>5. Dots' = IF m.type = "thinking" THEN Dots \union {n} ELSE Dots
  BY <1>1, <1>2 DEF Dots
<1>6. Releases' = IF LetsGo(m) THEN Releases \union {n} ELSE Releases
  BY <1>1, <1>2 DEF Releases, LetsGo
<1>7. Deliveries' = IF m.type = "answer" THEN Deliveries \union {n} ELSE Deliveries
  BY <1>1, <1>2 DEF Deliveries
<1>8. /\ Replies \subseteq 1..Len(toView) /\ Dots \subseteq 1..Len(toView)
      /\ Releases \subseteq 1..Len(toView) /\ Deliveries \subseteq 1..Len(toView)
  BY DEF Replies, Dots, Releases, Deliveries
<1> QED
  BY <1>1, <1>3, <1>4, <1>5, <1>6, <1>7, <1>8 DEF n

(* The messages that the webview has not read yet move up as well. *)
LEMMA ViewRead ==
    ASSUME Types, toView # <<>>, toView' = Tail(toView)
    PROVE  /\ Replies \union Dots \union Releases \union Deliveries \subseteq Nat
           /\ Replies' \union Dots' \union Releases' \union Deliveries' \subseteq Nat
           /\ \A p \in Replies' : p + 1 \in Replies /\ p # 0 /\ toView'[p] = toView[p + 1]
           /\ \A p \in Replies : p # 1 => p - 1 \in Replies' /\ toView'[p - 1] = toView[p]
           /\ \A p \in Dots' : p + 1 \in Dots /\ p # 0 /\ toView'[p] = toView[p + 1]
           /\ \A p \in Releases' : p + 1 \in Releases /\ p # 0 /\ toView'[p] = toView[p + 1]
           /\ \A p \in Releases : p # 1 => p - 1 \in Releases' /\ toView'[p - 1] = toView[p]
           /\ \A p \in Deliveries' : p + 1 \in Deliveries /\ p # 0 /\ toView'[p] = toView[p + 1]
<1>1. /\ Len(toView) \in Nat \ {0} /\ Len(toView') = Len(toView) - 1
      /\ \A i \in 1..(Len(toView) - 1) : toView'[i] = toView[i + 1]
  BY TailFacts DEF Types, QueueTypes
<1>2. \A p \in 1..Len(toView') : p + 1 \in 1..Len(toView) /\ p # 0 /\ toView'[p] = toView[p + 1]
  BY <1>1
<1>3. \A p \in 1..Len(toView) : p # 1 => p - 1 \in 1..Len(toView') /\ toView'[p - 1] = toView[p]
  BY <1>1
<1>4. \A p \in Replies' : p + 1 \in Replies /\ p # 0 /\ toView'[p] = toView[p + 1]
  BY <1>2 DEF Replies, IsReply
<1>5. \A p \in Replies : p # 1 => p - 1 \in Replies' /\ toView'[p - 1] = toView[p]
  BY <1>3 DEF Replies, IsReply
<1>6. \A p \in Dots' : p + 1 \in Dots /\ p # 0 /\ toView'[p] = toView[p + 1]
  BY <1>2 DEF Dots
<1>7. \A p \in Releases' : p + 1 \in Releases /\ p # 0 /\ toView'[p] = toView[p + 1]
  BY <1>2 DEF Releases, LetsGo
<1>8. \A p \in Releases : p # 1 => p - 1 \in Releases' /\ toView'[p - 1] = toView[p]
  BY <1>3 DEF Releases, LetsGo
<1>9. \A p \in Deliveries' : p + 1 \in Deliveries /\ p # 0 /\ toView'[p] = toView[p + 1]
  BY <1>2 DEF Deliveries
<1>10. /\ Replies \union Dots \union Releases \union Deliveries \subseteq Nat
       /\ Replies' \union Dots' \union Releases' \union Deliveries' \subseteq Nat
  BY DEF Replies, Dots, Releases, Deliveries
<1> QED
  BY <1>4, <1>5, <1>6, <1>7, <1>8, <1>9, <1>10

(* A queue that is read at its front loses what the first message was      *)
(* about; one that is posted to gains it.  The functions say what the      *)
(* messages at some places of the queue are about.                         *)
LEMMA TakenFromFront ==
    ASSUME NEW P \in SUBSET Nat, NEW Q \in SUBSET Nat, NEW f, NEW g,
           \A q \in Q : q + 1 \in P /\ q # 0 /\ g[q] = f[q + 1],
           \A p \in P : p # 1 => p - 1 \in Q /\ g[p - 1] = f[p],
           \A p, q \in P : f[p] = f[q] => p = q
    PROVE  /\ \A p, q \in Q : g[p] = g[q] => p = q
           /\ 1 \in P => /\ f[1] \in {f[p] : p \in P}
                         /\ {g[q] : q \in Q} = {f[p] : p \in P} \ {f[1]}
           /\ 1 \notin P => {g[q] : q \in Q} = {f[p] : p \in P}
<1>1. \A p, q \in Q : g[p] = g[q] => p = q
  <2> SUFFICES ASSUME NEW p \in Q, NEW q \in Q, g[p] = g[q]
               PROVE  p = q
    OBVIOUS
  <2>1. f[p + 1] = f[q + 1] /\ p + 1 \in P /\ q + 1 \in P
    OBVIOUS
  <2>2. p + 1 = q + 1 /\ p \in Nat /\ q \in Nat
    BY <2>1
  <2> QED
    BY <2>2
<1>2. \A q \in Q : g[q] \in {f[p] : p \in P}
  OBVIOUS
<1>3. \A p \in P : p # 1 => f[p] \in {g[q] : q \in Q}
  OBVIOUS
<1>4. ASSUME 1 \in P, NEW q \in Q
      PROVE  g[q] # f[1]
  <2>1. q \in Nat /\ q + 1 \in P /\ q # 0 /\ g[q] = f[q + 1]
    OBVIOUS
  <2>2. q + 1 # 1
    BY <2>1
  <2> QED
    BY <1>4, <2>1, <2>2
<1>5. 1 \in P => f[1] \in {f[p] : p \in P} /\ {g[q] : q \in Q} = {f[p] : p \in P} \ {f[1]}
  <2> SUFFICES ASSUME 1 \in P
               PROVE  {g[q] : q \in Q} = {f[p] : p \in P} \ {f[1]}
    OBVIOUS
  <2>1. \A x \in {g[q] : q \in Q} : x \in {f[p] : p \in P} \ {f[1]}
    BY <1>2, <1>4
  <2>2. \A x \in {f[p] : p \in P} \ {f[1]} : x \in {g[q] : q \in Q}
    BY <1>3
  <2> QED
    BY <2>1, <2>2
<1>6. 1 \notin P => {g[q] : q \in Q} = {f[p] : p \in P}
  <2> SUFFICES ASSUME 1 \notin P
               PROVE  {g[q] : q \in Q} = {f[p] : p \in P}
    OBVIOUS
  <2>1. \A p \in P : f[p] \in {g[q] : q \in Q}
    BY <1>3
  <2> QED
    BY <1>2, <2>1
<1> QED
  BY <1>1, <1>5, <1>6

(* The message behind the others adds what it is about, and that alone. *)
LEMMA PutAtEnd ==
    ASSUME NEW P, NEW n, n \notin P, NEW f, NEW g, \A p \in P : g[p] = f[p],
           \A p, q \in P : f[p] = f[q] => p = q
    PROVE  /\ {g[q] : q \in P \union {n}} = {f[p] : p \in P} \union {g[n]}
           /\ g[n] \notin {f[p] : p \in P} =>
                 \A p, q \in P \union {n} : g[p] = g[q] => p = q
OBVIOUS

(* A question is on its way to the panel once it is posted... *)
LEMMA AskPosted ==
    ASSUME Types, AsksDiffer, NEW m \in HostMessages, toHost' = Append(toHost, m),
           m.type = "ask" => m.of \notin AskedAbout
    PROVE  /\ AsksDiffer'
           /\ AskedAbout' = IF m.type = "ask" THEN AskedAbout \union {m.of} ELSE AskedAbout
<1> DEFINE n == Len(toHost) + 1
           f == [p \in Asked |-> toHost[p].of]
           g == [p \in Asked' |-> toHost'[p].of]
<1>1. /\ toHost'[n] = m
      /\ \A p \in Asked : toHost'[p] = toHost[p] /\ p # n
      /\ Asked' = IF m.type = "ask" THEN Asked \union {n} ELSE Asked
  BY HostAppended
<1> HIDE DEF n
<1>2. AskedAbout = {f[p] : p \in Asked} /\ AskedAbout' = {g[p] : p \in Asked'}
  BY DEF AskedAbout
<1>3. (\A p, q \in Asked : f[p] = f[q] => p = q)
      /\ (AsksDiffer' <=> \A p, q \in Asked' : g[p] = g[q] => p = q)
  BY DEF AsksDiffer
<1>4. \A p \in Asked : g[p] = f[p]
  BY <1>1
<1>5. CASE m.type = "ask"
  <2>1. g[n] = m.of /\ Asked' = Asked \union {n} /\ n \notin Asked
    BY <1>1, <1>5
  <2> HIDE DEF f, g
  <2>2. {g[q] : q \in Asked \union {n}} = {f[p] : p \in Asked} \union {g[n]}
    <3>1. {g[q] : q \in Asked \union {n}} = {g[q] : q \in Asked} \union {g[n]}
      OBVIOUS
    <3>2. {g[q] : q \in Asked} = {f[p] : p \in Asked}
      BY <1>4
    <3> QED
      BY <3>1, <3>2
  <2>3. \A p, q \in Asked \union {n} : g[p] = g[q] => p = q
    BY <1>2, <1>3, <1>4, <1>5, <2>1, PutAtEnd
  <2> QED
    BY <1>2, <1>3, <1>5, <2>1, <2>2, <2>3
<1>6. CASE m.type # "ask"
  <2>1. Asked' = Asked
    BY <1>1, <1>6
  <2> HIDE DEF f, g
  <2>2. AskedAbout' = AskedAbout
    BY <1>2, <1>4, <2>1
  <2>3. AsksDiffer'
    BY <1>3, <1>4, <2>1
  <2> QED
    BY <1>6, <2>2, <2>3
<1> QED
  BY <1>5, <1>6

(* ...until it is read. *)
LEMMA AskTaken ==
    ASSUME Types, AsksDiffer, 1 \in 1..Len(toHost), toHost # <<>>, toHost' = Tail(toHost)
    PROVE  /\ AsksDiffer'
           /\ toHost[1].type = "ask" =>
                 toHost[1].of \in AskedAbout /\ AskedAbout' = AskedAbout \ {toHost[1].of}
           /\ toHost[1].type # "ask" => AskedAbout' = AskedAbout
<1> DEFINE f == [p \in Asked |-> toHost[p].of]
           g == [p \in Asked' |-> toHost'[p].of]
<1>1. /\ Asked' \in SUBSET Nat /\ Asked \in SUBSET Nat
      /\ \A p \in Asked' : p + 1 \in Asked /\ p # 0 /\ toHost'[p] = toHost[p + 1]
      /\ \A p \in Asked : p # 1 => p - 1 \in Asked' /\ toHost'[p - 1] = toHost[p]
  BY HostRead
<1>2. (1 \in Asked <=> toHost[1].type = "ask") /\ (1 \in Asked => f[1] = toHost[1].of)
  BY DEF Asked
<1>3. AskedAbout = {f[p] : p \in Asked} /\ AskedAbout' = {g[p] : p \in Asked'}
  BY DEF AskedAbout
<1>4. (\A p, q \in Asked : f[p] = f[q] => p = q)
      /\ (AsksDiffer' <=> \A p, q \in Asked' : g[p] = g[q] => p = q)
  BY DEF AsksDiffer
<1>5. /\ \A p \in Asked' : p + 1 \in Asked /\ p # 0 /\ g[p] = f[p + 1]
      /\ \A p \in Asked : p # 1 => p - 1 \in Asked' /\ g[p - 1] = f[p]
  BY <1>1
<1> HIDE DEF f, g
<1>6. /\ \A p, q \in Asked' : g[p] = g[q] => p = q
      /\ 1 \in Asked => /\ f[1] \in {f[p] : p \in Asked}
                        /\ {g[q] : q \in Asked'} = {f[p] : p \in Asked} \ {f[1]}
      /\ 1 \notin Asked => {g[q] : q \in Asked'} = {f[p] : p \in Asked}
  BY <1>1, <1>4, <1>5, TakenFromFront
<1> QED
  BY <1>2, <1>3, <1>4, <1>6

(* A click is on its way once it is posted... *)
LEMMA ClickPosted ==
    ASSUME Types, ClicksDiffer, NEW m \in HostMessages, toHost' = Append(toHost, m),
           m.type = "apply" => m.index \notin ClickedOn
    PROVE  /\ ClicksDiffer'
           /\ ClickedOn' = IF m.type = "apply" THEN ClickedOn \union {m.index} ELSE ClickedOn
<1> DEFINE n == Len(toHost) + 1
           f == [p \in Clicks |-> toHost[p].index]
           g == [p \in Clicks' |-> toHost'[p].index]
<1>1. /\ toHost'[n] = m
      /\ \A p \in Clicks : toHost'[p] = toHost[p] /\ p # n
      /\ Clicks' = IF m.type = "apply" THEN Clicks \union {n} ELSE Clicks
  BY HostAppended
<1> HIDE DEF n
<1>2. ClickedOn = {f[p] : p \in Clicks} /\ ClickedOn' = {g[p] : p \in Clicks'}
  BY DEF ClickedOn
<1>3. (\A p, q \in Clicks : f[p] = f[q] => p = q)
      /\ (ClicksDiffer' <=> \A p, q \in Clicks' : g[p] = g[q] => p = q)
  BY DEF ClicksDiffer
<1>4. \A p \in Clicks : g[p] = f[p]
  BY <1>1
<1>5. CASE m.type = "apply"
  <2>1. g[n] = m.index /\ Clicks' = Clicks \union {n} /\ n \notin Clicks
    BY <1>1, <1>5
  <2> HIDE DEF f, g
  <2>2. {g[q] : q \in Clicks \union {n}} = {f[p] : p \in Clicks} \union {g[n]}
    <3>1. {g[q] : q \in Clicks \union {n}} = {g[q] : q \in Clicks} \union {g[n]}
      OBVIOUS
    <3>2. {g[q] : q \in Clicks} = {f[p] : p \in Clicks}
      BY <1>4
    <3> QED
      BY <3>1, <3>2
  <2>3. \A p, q \in Clicks \union {n} : g[p] = g[q] => p = q
    BY <1>2, <1>3, <1>4, <1>5, <2>1, PutAtEnd
  <2> QED
    BY <1>2, <1>3, <1>5, <2>1, <2>2, <2>3
<1>6. CASE m.type # "apply"
  <2>1. Clicks' = Clicks
    BY <1>1, <1>6
  <2> HIDE DEF f, g
  <2>2. ClickedOn' = ClickedOn
    BY <1>2, <1>4, <2>1
  <2>3. ClicksDiffer'
    BY <1>3, <1>4, <2>1
  <2> QED
    BY <1>6, <2>2, <2>3
<1> QED
  BY <1>5, <1>6

(* ...until it is read. *)
LEMMA ClickTaken ==
    ASSUME Types, ClicksDiffer, 1 \in 1..Len(toHost), toHost # <<>>, toHost' = Tail(toHost)
    PROVE  /\ ClicksDiffer'
           /\ toHost[1].type = "apply" =>
                 toHost[1].index \in ClickedOn /\ ClickedOn' = ClickedOn \ {toHost[1].index}
           /\ toHost[1].type # "apply" => ClickedOn' = ClickedOn
<1> DEFINE f == [p \in Clicks |-> toHost[p].index]
           g == [p \in Clicks' |-> toHost'[p].index]
<1>1. /\ Clicks' \in SUBSET Nat /\ Clicks \in SUBSET Nat
      /\ \A p \in Clicks' : p + 1 \in Clicks /\ p # 0 /\ toHost'[p] = toHost[p + 1]
      /\ \A p \in Clicks : p # 1 => p - 1 \in Clicks' /\ toHost'[p - 1] = toHost[p]
  BY HostRead
<1>2. (1 \in Clicks <=> toHost[1].type = "apply") /\ (1 \in Clicks => f[1] = toHost[1].index)
  BY DEF Clicks
<1>3. ClickedOn = {f[p] : p \in Clicks} /\ ClickedOn' = {g[p] : p \in Clicks'}
  BY DEF ClickedOn
<1>4. (\A p, q \in Clicks : f[p] = f[q] => p = q)
      /\ (ClicksDiffer' <=> \A p, q \in Clicks' : g[p] = g[q] => p = q)
  BY DEF ClicksDiffer
<1>5. /\ \A p \in Clicks' : p + 1 \in Clicks /\ p # 0 /\ g[p] = f[p + 1]
      /\ \A p \in Clicks : p # 1 => p - 1 \in Clicks' /\ g[p - 1] = f[p]
  BY <1>1
<1> HIDE DEF f, g
<1>6. /\ \A p, q \in Clicks' : g[p] = g[q] => p = q
      /\ 1 \in Clicks => /\ f[1] \in {f[p] : p \in Clicks}
                        /\ {g[q] : q \in Clicks'} = {f[p] : p \in Clicks} \ {f[1]}
      /\ 1 \notin Clicks => {g[q] : q \in Clicks'} = {f[p] : p \in Clicks}
  BY <1>1, <1>4, <1>5, TakenFromFront
<1> QED
  BY <1>2, <1>3, <1>4, <1>6

(* A reply is on its way to the webview once it is posted... *)
LEMMA ReplyPosted ==
    ASSUME Types, RepliesDiffer, NEW m \in ViewMessages, toView' = Append(toView, m),
           IsReply(m) => m.of \notin RepliedTo
    PROVE  /\ RepliesDiffer'
           /\ RepliedTo' = IF IsReply(m) THEN RepliedTo \union {m.of} ELSE RepliedTo
<1> DEFINE n == Len(toView) + 1
           f == [p \in Replies |-> toView[p].of]
           g == [p \in Replies' |-> toView'[p].of]
<1>1. /\ toView'[n] = m
      /\ \A p \in Replies : toView'[p] = toView[p] /\ p # n
      /\ Replies' = IF IsReply(m) THEN Replies \union {n} ELSE Replies
  BY ViewAppended
<1> HIDE DEF n
<1>2. RepliedTo = {f[p] : p \in Replies} /\ RepliedTo' = {g[p] : p \in Replies'}
  BY DEF RepliedTo
<1>3. (\A p, q \in Replies : f[p] = f[q] => p = q)
      /\ (RepliesDiffer' <=> \A p, q \in Replies' : g[p] = g[q] => p = q)
  BY DEF RepliesDiffer
<1>4. \A p \in Replies : g[p] = f[p]
  BY <1>1
<1>5. CASE IsReply(m)
  <2>1. g[n] = m.of /\ Replies' = Replies \union {n} /\ n \notin Replies
    BY <1>1, <1>5
  <2> HIDE DEF f, g
  <2>2. {g[q] : q \in Replies \union {n}} = {f[p] : p \in Replies} \union {g[n]}
    <3>1. {g[q] : q \in Replies \union {n}} = {g[q] : q \in Replies} \union {g[n]}
      OBVIOUS
    <3>2. {g[q] : q \in Replies} = {f[p] : p \in Replies}
      BY <1>4
    <3> QED
      BY <3>1, <3>2
  <2>3. \A p, q \in Replies \union {n} : g[p] = g[q] => p = q
    BY <1>2, <1>3, <1>4, <1>5, <2>1, PutAtEnd
  <2> QED
    BY <1>2, <1>3, <1>5, <2>1, <2>2, <2>3
<1>6. CASE ~IsReply(m)
  <2>1. Replies' = Replies
    BY <1>1, <1>6
  <2> HIDE DEF f, g
  <2>2. RepliedTo' = RepliedTo
    BY <1>2, <1>4, <2>1
  <2>3. RepliesDiffer'
    BY <1>3, <1>4, <2>1
  <2> QED
    BY <1>6, <2>2, <2>3
<1> QED
  BY <1>5, <1>6

(* ...until it is read. *)
LEMMA ReplyTaken ==
    ASSUME Types, RepliesDiffer, 1 \in 1..Len(toView), toView # <<>>, toView' = Tail(toView)
    PROVE  /\ RepliesDiffer'
           /\ IsReply(toView[1]) =>
                 toView[1].of \in RepliedTo /\ RepliedTo' = RepliedTo \ {toView[1].of}
           /\ ~IsReply(toView[1]) => RepliedTo' = RepliedTo
<1> DEFINE f == [p \in Replies |-> toView[p].of]
           g == [p \in Replies' |-> toView'[p].of]
<1>1. /\ Replies' \in SUBSET Nat /\ Replies \in SUBSET Nat
      /\ \A p \in Replies' : p + 1 \in Replies /\ p # 0 /\ toView'[p] = toView[p + 1]
      /\ \A p \in Replies : p # 1 => p - 1 \in Replies' /\ toView'[p - 1] = toView[p]
  BY ViewRead
<1>2. (1 \in Replies <=> IsReply(toView[1])) /\ (1 \in Replies => f[1] = toView[1].of)
  BY DEF Replies
<1>3. RepliedTo = {f[p] : p \in Replies} /\ RepliedTo' = {g[p] : p \in Replies'}
  BY DEF RepliedTo
<1>4. (\A p, q \in Replies : f[p] = f[q] => p = q)
      /\ (RepliesDiffer' <=> \A p, q \in Replies' : g[p] = g[q] => p = q)
  BY DEF RepliesDiffer
<1>5. /\ \A p \in Replies' : p + 1 \in Replies /\ p # 0 /\ g[p] = f[p + 1]
      /\ \A p \in Replies : p # 1 => p - 1 \in Replies' /\ g[p - 1] = f[p]
  BY <1>1
<1> HIDE DEF f, g
<1>6. /\ \A p, q \in Replies' : g[p] = g[q] => p = q
      /\ 1 \in Replies => /\ f[1] \in {f[p] : p \in Replies}
                        /\ {g[q] : q \in Replies'} = {f[p] : p \in Replies} \ {f[1]}
      /\ 1 \notin Replies => {g[q] : q \in Replies'} = {f[p] : p \in Replies}
  BY <1>1, <1>4, <1>5, TakenFromFront
<1> QED
  BY <1>2, <1>3, <1>4, <1>6

(* What lets a button go is on its way once it is posted... *)
LEMMA ReleasePosted ==
    ASSUME Types, ReleasesDiffer, NEW m \in ViewMessages, toView' = Append(toView, m),
           LetsGo(m) => m.index \notin Released
    PROVE  /\ ReleasesDiffer'
           /\ Released' = IF LetsGo(m) THEN Released \union {m.index} ELSE Released
<1> DEFINE n == Len(toView) + 1
           f == [p \in Releases |-> toView[p].index]
           g == [p \in Releases' |-> toView'[p].index]
<1>1. /\ toView'[n] = m
      /\ \A p \in Releases : toView'[p] = toView[p] /\ p # n
      /\ Releases' = IF LetsGo(m) THEN Releases \union {n} ELSE Releases
  BY ViewAppended
<1> HIDE DEF n
<1>2. Released = {f[p] : p \in Releases} /\ Released' = {g[p] : p \in Releases'}
  BY DEF Released
<1>3. (\A p, q \in Releases : f[p] = f[q] => p = q)
      /\ (ReleasesDiffer' <=> \A p, q \in Releases' : g[p] = g[q] => p = q)
  BY DEF ReleasesDiffer
<1>4. \A p \in Releases : g[p] = f[p]
  BY <1>1
<1>5. CASE LetsGo(m)
  <2>1. g[n] = m.index /\ Releases' = Releases \union {n} /\ n \notin Releases
    BY <1>1, <1>5
  <2> HIDE DEF f, g
  <2>2. {g[q] : q \in Releases \union {n}} = {f[p] : p \in Releases} \union {g[n]}
    <3>1. {g[q] : q \in Releases \union {n}} = {g[q] : q \in Releases} \union {g[n]}
      OBVIOUS
    <3>2. {g[q] : q \in Releases} = {f[p] : p \in Releases}
      BY <1>4
    <3> QED
      BY <3>1, <3>2
  <2>3. \A p, q \in Releases \union {n} : g[p] = g[q] => p = q
    BY <1>2, <1>3, <1>4, <1>5, <2>1, PutAtEnd
  <2> QED
    BY <1>2, <1>3, <1>5, <2>1, <2>2, <2>3
<1>6. CASE ~LetsGo(m)
  <2>1. Releases' = Releases
    BY <1>1, <1>6
  <2> HIDE DEF f, g
  <2>2. Released' = Released
    BY <1>2, <1>4, <2>1
  <2>3. ReleasesDiffer'
    BY <1>3, <1>4, <2>1
  <2> QED
    BY <1>6, <2>2, <2>3
<1> QED
  BY <1>5, <1>6

(* ...until it is read. *)
LEMMA ReleaseTaken ==
    ASSUME Types, ReleasesDiffer, 1 \in 1..Len(toView), toView # <<>>, toView' = Tail(toView)
    PROVE  /\ ReleasesDiffer'
           /\ LetsGo(toView[1]) =>
                 toView[1].index \in Released /\ Released' = Released \ {toView[1].index}
           /\ ~LetsGo(toView[1]) => Released' = Released
<1> DEFINE f == [p \in Releases |-> toView[p].index]
           g == [p \in Releases' |-> toView'[p].index]
<1>1. /\ Releases' \in SUBSET Nat /\ Releases \in SUBSET Nat
      /\ \A p \in Releases' : p + 1 \in Releases /\ p # 0 /\ toView'[p] = toView[p + 1]
      /\ \A p \in Releases : p # 1 => p - 1 \in Releases' /\ toView'[p - 1] = toView[p]
  BY ViewRead
<1>2. (1 \in Releases <=> LetsGo(toView[1])) /\ (1 \in Releases => f[1] = toView[1].index)
  BY DEF Releases
<1>3. Released = {f[p] : p \in Releases} /\ Released' = {g[p] : p \in Releases'}
  BY DEF Released
<1>4. (\A p, q \in Releases : f[p] = f[q] => p = q)
      /\ (ReleasesDiffer' <=> \A p, q \in Releases' : g[p] = g[q] => p = q)
  BY DEF ReleasesDiffer
<1>5. /\ \A p \in Releases' : p + 1 \in Releases /\ p # 0 /\ g[p] = f[p + 1]
      /\ \A p \in Releases : p # 1 => p - 1 \in Releases' /\ g[p - 1] = f[p]
  BY <1>1
<1> HIDE DEF f, g
<1>6. /\ \A p, q \in Releases' : g[p] = g[q] => p = q
      /\ 1 \in Releases => /\ f[1] \in {f[p] : p \in Releases}
                        /\ {g[q] : q \in Releases'} = {f[p] : p \in Releases} \ {f[1]}
      /\ 1 \notin Releases => {g[q] : q \in Releases'} = {f[p] : p \in Releases}
  BY <1>1, <1>4, <1>5, TakenFromFront
<1> QED
  BY <1>2, <1>3, <1>4, <1>6

--------------------------------------------------------------------------------
(* A handler that posts leaves its reply behind the dots it asked for. *)
LEMMA DotsPosted ==
    ASSUME Types, NEW m \in ViewMessages, toView' = Append(toView, m), DotsEnd,
           \A n \in HandledNow : n \in HandledNow' \/ (IsReply(m) /\ m.of = n),
           view'.thinking => view'.waiting # {},
           m.type = "thinking" => m.of \in HandledNow'
    PROVE  DotsEnd'
<1> DEFINE n == Len(toView) + 1
<1>1. /\ toView'[n] = m
      /\ \A p \in Dots \union Replies : toView'[p] = toView[p] /\ p < n
      /\ Replies' = IF IsReply(m) THEN Replies \union {n} ELSE Replies
      /\ Dots' = IF m.type = "thinking" THEN Dots \union {n} ELSE Dots
  BY ViewAppended
<1> HIDE DEF n
<1>2. SUFFICES ASSUME NEW p \in Dots'
               PROVE  \/ toView'[p].of \in HandledNow'
                      \/ \E q \in Replies' : p < q /\ toView'[q].of = toView'[p].of
  BY DEF DotsEnd
<1>3. CASE p \in Dots
  <2>1. \/ toView[p].of \in HandledNow
        \/ \E q \in Replies : p < q /\ toView[q].of = toView[p].of
    BY <1>3 DEF DotsEnd
  <2>2. CASE toView[p].of \in HandledNow
    BY <1>1, <1>3, <2>2
  <2>3. CASE \E q \in Replies : p < q /\ toView[q].of = toView[p].of
    BY <1>1, <1>3, <2>3
  <2> QED
    BY <2>1, <2>2, <2>3
<1>4. CASE p \notin Dots
  BY <1>1, <1>4
<1> QED
  BY <1>3, <1>4

(* Reading the first message leaves every reply behind its dots. *)
LEMMA DotsTaken ==
    ASSUME Types, 1 \in 1..Len(toView), toView # <<>>, toView' = Tail(toView), DotsEnd,
           HandledNow \subseteq HandledNow',
           view'.thinking => view'.waiting # {}
    PROVE  DotsEnd'
<1>1. /\ Replies \subseteq Nat /\ Dots' \subseteq Nat
      /\ \A p \in Replies : p # 1 => p - 1 \in Replies' /\ toView'[p - 1] = toView[p]
      /\ \A p \in Dots' : p + 1 \in Dots /\ p # 0 /\ toView'[p] = toView[p + 1]
  BY ViewRead
<1>2. SUFFICES ASSUME NEW p \in Dots'
               PROVE  \/ toView'[p].of \in HandledNow'
                      \/ \E q \in Replies' : p < q /\ toView'[q].of = toView'[p].of
  BY DEF DotsEnd
<1>3. /\ p \in Nat \ {0} /\ p + 1 \in Dots /\ toView'[p] = toView[p + 1]
      /\ \/ toView[p + 1].of \in HandledNow
         \/ \E q \in Replies : p + 1 < q /\ toView[q].of = toView[p + 1].of
  BY <1>1 DEF DotsEnd
<1>4. ASSUME NEW q \in Replies, p + 1 < q, toView[q].of = toView[p + 1].of
      PROVE  \E r \in Replies' : p < r /\ toView'[r].of = toView'[p].of
  <2>1. q \in Nat /\ q # 1
    BY <1>1, <1>3, <1>4
  <2>2. q - 1 \in Replies' /\ toView'[q - 1] = toView[q]
    BY <1>1, <2>1
  <2>3. p < q - 1
    BY <1>3, <1>4, <2>1
  <2> QED
    BY <1>3, <1>4, <2>2, <2>3
<1> QED
  BY <1>3, <1>4

(* Nothing that is about questions changes. *)
QuietQuestions ==
    /\ AskedAbout' = AskedAbout /\ AsksDiffer' /\ UNCHANGED asks
    /\ RepliedTo' = RepliedTo /\ RepliesDiffer' /\ DotsEnd'
    /\ view'.waiting = view.waiting

(* Then every question stays where it is. *)
LEMMA QuestionsQuiet ==
    ASSUME Questions, QuietQuestions
    PROVE  Questions'
BY DEF Questions, QuietQuestions, WaitedFor, HandledNow, HandlersDiffer

(* Where the questions are, through every step. *)
LEMMA QuestionsStep ==
    ASSUME Types, Questions, [Next]_vars
    PROVE  Questions'
<1>0. /\ WaitedFor /\ AsksDiffer /\ HandlersDiffer /\ RepliesDiffer /\ DotsEnd
      /\ view.thinking => view.waiting # {}
  BY DEF Questions, DotsEnd
<1>a. UNCHANGED toHost => AskedAbout' = AskedAbout /\ AsksDiffer'
  BY <1>0 DEF AskedAbout, AsksDiffer, Asked
<1>b. UNCHANGED toView => RepliedTo' = RepliedTo /\ RepliesDiffer'
  BY <1>0 DEF RepliedTo, RepliesDiffer, Replies
<1>c. ASSUME UNCHANGED toView, HandledNow \subseteq HandledNow', view'.thinking => view'.waiting # {}
      PROVE  DotsEnd'
  BY <1>0, <1>c DEF DotsEnd, Dots, Replies
<1>d. UNCHANGED asks => HandledNow' = HandledNow /\ HandlersDiffer'
  BY <1>0 DEF HandledNow, HandlersDiffer
<1>1. CASE submit
  <2> DEFINE m == [type |-> "ask", of |-> used.asks + 1]
  <2>1. /\ used.asks \in Nat /\ m \in HostMessages /\ toHost' = Append(toHost, m)
        /\ view'.waiting = view.waiting \union {used.asks + 1} /\ view'.thinking = TRUE
        /\ UNCHANGED <<asks, toView>>
    BY <1>1, SubmitEffect DEF hostVars
  <2>2. used.asks + 1 \notin view.waiting
    BY <2>1 DEF Types, ViewTypes
  <2>3. m.type = "ask" /\ m.of = used.asks + 1
    OBVIOUS
  <2> HIDE DEF m
  <2>4. m.of \notin AskedAbout \union HandledNow \union RepliedTo
    BY <1>0, <2>2, <2>3 DEF WaitedFor
  <2>5. AsksDiffer' /\ AskedAbout' = AskedAbout \union {m.of}
    BY <1>0, <2>1, <2>3, <2>4, AskPosted
  <2>6. RepliedTo' = RepliedTo /\ RepliesDiffer' /\ HandledNow' = HandledNow /\ HandlersDiffer'
    BY <1>b, <1>d, <2>1
  <2>7. DotsEnd'
    BY <1>c, <2>1, <2>6
  <2>8. WaitedFor'
    BY <1>0, <2>1, <2>3, <2>4, <2>5, <2>6 DEF WaitedFor
  <2> QED
    BY <2>5, <2>6, <2>7, <2>8 DEF Questions
<1>2. ASSUME NEW i \in 1..Len(view.cards), clickApply(i)
      PROVE  Questions'
  <2> DEFINE m == [type |-> "apply", index |-> view.cards[i].index]
  <2>1. /\ toHost' = Append(toHost, m) /\ UNCHANGED <<asks, toView>>
        /\ view'.waiting = view.waiting /\ view'.thinking = view.thinking
    <3>1. toHost' = Append(toHost, m) /\ UNCHANGED <<asks, toView>>
      BY <1>2 DEF clickApply, hostVars
    <3>2. view' = [thinking |-> view.thinking, cards |-> view'.cards, waiting |-> view.waiting]
      BY <1>2, ClickEffect
    <3>3. PICK cards : view' = [thinking |-> view.thinking, cards |-> cards, waiting |-> view.waiting]
      BY <3>2
    <3> QED
      BY <3>1, <3>3
  <2>2. m \in HostMessages /\ m.type = "apply"
    <3>1. view.cards[i] \in Cards
      BY DEF Types, ViewTypes
    <3> QED
      BY <3>1 DEF HostMessages, Cards
  <2> HIDE DEF m
  <2>3. AskedAbout' = AskedAbout /\ AsksDiffer'
    BY <1>0, <2>1, <2>2, AskPosted
  <2> QED
    BY <1>0, <1>b, <1>c, <1>d, <2>1, <2>3, QuestionsQuiet DEF QuietQuestions
<1>3. ASSUME NEW s \in Settings, clickSave(s)
      PROVE  Questions'
  <2> DEFINE m == [type |-> "saveSettings", settings |-> s]
  <2>1. /\ toHost' = Append(toHost, m) /\ UNCHANGED <<asks, toView, view>>
        /\ m \in HostMessages /\ m.type = "saveSettings"
    BY <1>3 DEF clickSave, hostVars, HostMessages
  <2> HIDE DEF m
  <2>2. AskedAbout' = AskedAbout /\ AsksDiffer'
    BY <1>0, <2>1, AskPosted
  <2> QED
    BY <1>0, <1>b, <1>c, <1>d, <2>1, <2>2, QuestionsQuiet DEF QuietQuestions
<1>4. CASE ViewReceives
  <2> DEFINE m == toView[1]
  <2>1. /\ 1 \in 1..Len(toView) /\ toView # <<>> /\ toView' = Tail(toView) /\ m \in ViewMessages
        /\ UNCHANGED <<toHost, asks>>
        /\ \/ m.type = "thinking" /\ view'.thinking = TRUE /\ view'.waiting = view.waiting
           \/ IsReply(m) /\ view'.thinking = FALSE /\ view'.waiting = view.waiting \ {m.of}
           \/ LetsGo(m) /\ view'.thinking = view.thinking /\ view'.waiting = view.waiting
    BY <1>4, ReceiveEffect DEF ViewReceives, hostVars, IsReply
  <2>2. /\ AskedAbout' = AskedAbout /\ AsksDiffer' /\ HandledNow' = HandledNow /\ HandlersDiffer'
    BY <1>a, <1>d, <2>1
  <2>3. /\ RepliesDiffer'
        /\ IsReply(m) => m.of \in RepliedTo /\ RepliedTo' = RepliedTo \ {m.of}
        /\ ~IsReply(m) => RepliedTo' = RepliedTo
    BY <1>0, <2>1, ReplyTaken
  <2>4. view'.thinking => view'.waiting # {}
    <3>1. CASE m.type = "thinking"
      <4>1. 1 \in Dots
        BY <2>1, <3>1 DEF Dots
      <4>2. m.of \in HandledNow \union RepliedTo
        BY <1>0, <4>1 DEF DotsEnd, RepliedTo
      <4>3. view'.waiting = view.waiting
        BY <2>1, <3>1 DEF IsReply, LetsGo
      <4> QED
        BY <1>0, <4>2, <4>3 DEF WaitedFor
    <3> QED
      BY <1>0, <2>1, <3>1
  <2>5. DotsEnd'
    BY <1>0, <2>1, <2>2, <2>4, DotsTaken
  <2>6. WaitedFor'
    <3>1. IsReply(m) => ~LetsGo(m) /\ m.type # "thinking"
      BY DEF IsReply, LetsGo
    <3> HIDE DEF m
    <3>2. CASE IsReply(m)
      BY <1>0, <2>1, <2>2, <2>3, <3>1, <3>2 DEF WaitedFor
    <3>3. CASE ~IsReply(m)
      BY <1>0, <2>1, <2>2, <2>3, <3>3 DEF WaitedFor
    <3> QED
      BY <3>2, <3>3
  <2> QED
    BY <2>2, <2>3, <2>5, <2>6 DEF Questions
<1>5. CASE HostReceives
  <2> DEFINE m == toHost[1]
  <2>1. /\ 1 \in 1..Len(toHost) /\ toHost # <<>> /\ toHost' = Tail(toHost) /\ m \in HostMessages
        /\ UNCHANGED <<toView, view>>
        /\ StartsAsk(m) \/ StartsApply(m) \/ StartsSave(m)
    BY <1>5, HostEffect DEF HostReceives
  <2>2. /\ AsksDiffer'
        /\ m.type = "ask" => m.of \in AskedAbout /\ AskedAbout' = AskedAbout \ {m.of}
        /\ m.type # "ask" => AskedAbout' = AskedAbout
    BY <1>0, <2>1, AskTaken
  <2> HIDE DEF m
  <2>3. CASE StartsAsk(m)
    <3>1. PICK b : b.of = m.of /\ asks' = asks \union {b}
      BY <2>3 DEF StartsAsk
    <3>2. m.type = "ask"
      BY <2>3 DEF StartsAsk
    <3>3. HandledNow' = HandledNow \union {m.of}
      BY <3>1 DEF HandledNow
    <3>4. m.of \notin HandledNow /\ m.of \notin RepliedTo
      BY <1>0, <2>2, <3>2 DEF WaitedFor
    <3>5. HandlersDiffer'
      BY <1>0, <3>1, <3>4 DEF HandlersDiffer, HandledNow
    <3>6. RepliedTo' = RepliedTo /\ RepliesDiffer' /\ DotsEnd'
      BY <1>0, <1>b, <1>c, <2>1, <3>3
    <3>7. WaitedFor'
      BY <1>0, <2>1, <2>2, <3>2, <3>3, <3>4, <3>6 DEF WaitedFor
    <3> QED
      BY <2>2, <3>5, <3>6, <3>7 DEF Questions
  <2>4. CASE StartsApply(m) \/ StartsSave(m)
    <3>1. UNCHANGED asks /\ m.type # "ask"
      BY <2>4 DEF StartsApply, StartsSave
    <3> QED
      BY <1>0, <1>b, <1>c, <1>d, <2>1, <2>2, <3>1, QuestionsQuiet DEF QuietQuestions
  <2> QED
    BY <2>1, <2>3, <2>4
<1>6. ASSUME NEW a \in asks, AskGoesOn(a)
      PROVE  Questions'
  <2>1. UNCHANGED <<toHost, view>> /\ AskOK(a)
    BY <1>6, AskEffect DEF Types, AskTypes
  <2>2. AskedAbout' = AskedAbout /\ AsksDiffer' /\ a.of \in HandledNow
    BY <1>a, <2>1 DEF HandledNow
  <2>3. ASSUME NEW b, b.of = a.of, asks' = (asks \ {a}) \union {b}
        PROVE  HandledNow' = HandledNow /\ HandlersDiffer'
    <3>1. \A n \in HandledNow : n \in HandledNow'
      BY <2>3 DEF HandledNow
    <3>2. \A n \in HandledNow' : n \in HandledNow
      BY <2>3 DEF HandledNow
    <3>3. HandlersDiffer'
      BY <1>0, <2>3 DEF HandlersDiffer
    <3> QED
      BY <3>1, <3>2, <3>3
  <2>4. ASSUME NEW b, Moves(a, b)
        PROVE  Questions'
    <3> DEFINE m == Reply("thinking", a.of)
    <3>1. m \in ViewMessages /\ m.type = "thinking" /\ m.of = a.of
      BY <2>1 DEF Reply, ViewMessages, AskOK
    <3>2. b.of = a.of /\ asks' = (asks \ {a}) \union {b} /\ toView' \in {toView, Append(toView, m)}
      BY <2>4 DEF Moves
    <3> HIDE DEF m
    <3>3. HandledNow' = HandledNow /\ HandlersDiffer'
      BY <2>3, <3>2
    <3>4. RepliedTo' = RepliedTo /\ RepliesDiffer'
      <4>1. ~IsReply(m)
        BY <3>1 DEF IsReply
      <4> QED
        BY <1>0, <1>b, <3>1, <3>2, <4>1, ReplyPosted
    <3>5. DotsEnd'
      <4>1. CASE UNCHANGED toView
        BY <1>0, <1>c, <2>1, <3>3, <4>1
      <4>2. CASE toView' = Append(toView, m)
        BY <1>0, <2>1, <2>2, <3>1, <3>3, <4>2, DotsPosted
      <4> QED
        BY <3>2, <4>1, <4>2
    <3>6. WaitedFor'
      BY <1>0, <2>1, <2>2, <3>3, <3>4 DEF WaitedFor
    <3> QED
      BY <2>2, <3>3, <3>4, <3>5, <3>6 DEF Questions
  <2>5. ASSUME NEW b, Concludes(a, b)
        PROVE  Questions'
    <3>1. HandledNow' = HandledNow /\ HandlersDiffer' /\ UNCHANGED toView
      BY <2>3, <2>5 DEF Concludes
    <3>2. RepliedTo' = RepliedTo /\ RepliesDiffer' /\ DotsEnd'
      BY <1>0, <1>b, <1>c, <2>1, <3>1
    <3>3. WaitedFor'
      BY <1>0, <2>1, <2>2, <3>1, <3>2 DEF WaitedFor
    <3> QED
      BY <2>2, <3>1, <3>2, <3>3 DEF Questions
  <2>6. ASSUME NEW m, Replying(a, m)
        PROVE  Questions'
    <3>1. /\ m \in ViewMessages /\ m.of = a.of /\ IsReply(m) /\ asks' = asks \ {a}
          /\ toView' = Append(toView, m)
      BY <2>6 DEF Replying, Answering, IsReply
    <3>2. HandlersDiffer' /\ HandledNow' = HandledNow \ {a.of}
      <4>1. \A n \in HandledNow' : n \in HandledNow /\ n # a.of
        BY <1>0, <3>1 DEF HandledNow, HandlersDiffer
      <4>2. \A n \in HandledNow : n # a.of => n \in HandledNow'
        BY <3>1 DEF HandledNow
      <4>3. HandlersDiffer'
        BY <1>0, <3>1 DEF HandlersDiffer
      <4> QED
        BY <2>2, <4>1, <4>2, <4>3
    <3>3. m.of \notin RepliedTo
      BY <1>0, <2>2, <3>1 DEF WaitedFor
    <3>4. RepliesDiffer' /\ RepliedTo' = RepliedTo \union {a.of}
      BY <1>0, <3>1, <3>3, ReplyPosted
    <3>5. DotsEnd'
      <4>1. m.type # "thinking"
        BY <3>1 DEF IsReply
      <4> QED
        BY <1>0, <2>1, <3>1, <3>2, <4>1, DotsPosted
    <3>6. WaitedFor'
      BY <1>0, <2>1, <2>2, <3>2, <3>4 DEF WaitedFor
    <3> QED
      BY <2>2, <3>2, <3>4, <3>5, <3>6 DEF Questions
  <2> QED
    BY <1>6, <2>4, <2>5, <2>6, AskEffect
<1>7. CASE Applies
  <2>1. /\ UNCHANGED <<asks, toHost, view>>
        /\ UNCHANGED toView \/ \E m \in ViewMessages : LetsGo(m) /\ toView' = Append(toView, m)
    BY <1>7, ApplyEffect DEF Proceeds, LetGo
  <2>2. CASE UNCHANGED toView
    BY <1>0, <1>a, <1>b, <1>c, <1>d, <2>1, <2>2, QuestionsQuiet DEF QuietQuestions
  <2>3. ASSUME NEW m \in ViewMessages, LetsGo(m), toView' = Append(toView, m)
        PROVE  Questions'
    <3>1. ~IsReply(m) /\ m.type # "thinking"
      BY <2>3 DEF LetsGo, IsReply
    <3>2. RepliedTo' = RepliedTo /\ RepliesDiffer'
      BY <1>0, <2>3, <3>1, ReplyPosted
    <3>3. HandledNow' = HandledNow
      BY <1>d, <2>1
    <3>4. DotsEnd'
      BY <1>0, <2>1, <2>3, <3>1, <3>3, DotsPosted
    <3> QED
      BY <1>a, <2>1, <3>2, <3>4, QuestionsQuiet DEF QuietQuestions
  <2> QED
    BY <2>1, <2>2, <2>3
<1>8. CASE Saves \/ UNCHANGED vars
  <2>1. UNCHANGED <<asks, toHost, toView, view>>
    BY <1>8, SavesEffect DEF vars, hostVars
  <2> QED
    BY <1>0, <1>a, <1>b, <1>c, <1>d, <2>1, QuestionsQuiet DEF QuietQuestions
<1> QED
  BY <1>1, <1>2, <1>3, <1>4, <1>5, <1>6, <1>7, <1>8 DEF Next

--------------------------------------------------------------------------------
(* A step that makes no card, delivers none and concludes no conversation  *)
(* leaves every card where it was, whatever its button says, and what it   *)
(* shows: the messages only move up in their queue.                        *)
MovedUp(d) ==
    /\ \A p \in Deliveries' : d[p] \in Deliveries /\ toView'[p] = toView[d[p]]
    /\ \A p, q \in Deliveries' : d[p] = d[q] => p = q

SameCards ==
    /\ Len(view'.cards) = Len(view.cards)
    /\ \A i \in 1..Len(view.cards) :
          view'.cards[i].index = view.cards[i].index /\ view'.cards[i].yaml = view.cards[i].yaml

(* Such a step keeps what is known of the cards. *)
LEMMA CardsStay ==
    ASSUME CardsShow, OneCard, SameCards, \E d : MovedUp(d), Making' \subseteq Making,
           host'.proposals = host.proposals
    PROVE  CardsShow' /\ OneCard'
<1>1. PICK d : MovedUp(d)
  OBVIOUS
<1>2. Indices(view'.cards) = Indices(view.cards) /\ (Distinct(view.cards) => Distinct(view'.cards))
  BY DEF SameCards, Indices, Distinct
<1>3. CardsShow'
  <2>1. \A i \in 1..Len(view'.cards) : Shows(host'.proposals, view'.cards[i])
    BY DEF CardsShow, Shows, SameCards
  <2>2. \A p \in Deliveries' : \A i \in 1..Len(toView'[p].cards) :
           Shows(host'.proposals, toView'[p].cards[i]) /\ toView'[p].cards[i].button = "apply"
    BY <1>1 DEF CardsShow, MovedUp
  <2>3. \A a \in Making' :
           /\ a.first >= 1 /\ a.first + Len(a.run.proposals) - 1 <= Len(host'.proposals)
           /\ \A i \in 1..Len(a.run.proposals) :
                 a.run.proposals[i] = host'.proposals[CardIndex(a, i)]
    BY DEF CardsShow
  <2> QED
    BY <2>1, <2>2, <2>3 DEF CardsShow, CardIndex
<1>4. OneCard'
  <2>1. Distinct(view'.cards) /\ \A p \in Deliveries' : Distinct(toView'[p].cards)
    BY <1>1, <1>2 DEF OneCard, MovedUp
  <2>2. /\ \A p \in Deliveries' : Indices(view'.cards) \intersect Indices(toView'[p].cards) = {}
        /\ \A p, q \in Deliveries' :
              p # q => Indices(toView'[p].cards) \intersect Indices(toView'[q].cards) = {}
    <3>1. \A p \in Deliveries' : d[p] \in Deliveries /\ toView'[p] = toView[d[p]]
      BY <1>1 DEF MovedUp
    <3>2. \A p, q \in Deliveries' : p # q => d[p] # d[q]
      BY <1>1 DEF MovedUp
    <3>3. \A p, q \in Deliveries :
             p # q => Indices(toView[p].cards) \intersect Indices(toView[q].cards) = {}
      BY DEF OneCard
    <3>4. \A p \in Deliveries : Indices(view.cards) \intersect Indices(toView[p].cards) = {}
      BY DEF OneCard
    <3>5. \A p \in Deliveries' : Indices(view'.cards) \intersect Indices(toView'[p].cards) = {}
      BY <1>2, <3>1, <3>4
    <3>6. ASSUME NEW p \in Deliveries', NEW q \in Deliveries', p # q
          PROVE  Indices(toView'[p].cards) \intersect Indices(toView'[q].cards) = {}
      <4>1. Indices(toView[d[p]].cards) \intersect Indices(toView[d[q]].cards) = {}
        BY <3>1, <3>2, <3>3, <3>6
      <4> QED
        BY <3>1, <4>1
    <3> QED
      BY <3>5, <3>6
  <2>3. /\ \A a \in Making' : Indices(view'.cards) \intersect Kept(a) = {}
        /\ \A a \in Making', p \in Deliveries' : Indices(toView'[p].cards) \intersect Kept(a) = {}
        /\ \A a, b \in Making' : a # b => Kept(a) \intersect Kept(b) = {}
    BY <1>1, <1>2 DEF OneCard, MovedUp
  <2> QED
    BY <2>1, <2>2, <2>3 DEF OneCard, Indices, Distinct, Kept
<1> QED
  BY <1>3, <1>4

(* A delivered card shows what its handler kept; the indices of the cards  *)
(* are those that were kept.                                               *)
LEMMA AnswerPosted ==
    ASSUME Types, CardsShow, OneCard, NEW a \in asks, NEW m \in ViewMessages, Answering(a, m),
           toView' = Append(toView, m), Making' = Making \ {a}, UNCHANGED <<host, view>>
    PROVE  CardsShow' /\ OneCard'
<1> DEFINE n == Len(toView) + 1
<1>1. /\ toView'[n] = m /\ Deliveries' = Deliveries \union {n}
      /\ \A p \in Deliveries : toView'[p] = toView[p] /\ p # n
  <2>1. m.type = "answer"
    BY DEF Answering
  <2> QED
    BY <2>1, ViewAppended
<1> HIDE DEF n
<1>2. a \in Making /\ a.first \in Nat /\ Len(a.run.proposals) \in Nat
  BY LenProperties DEF Answering, Making, Types, AskTypes, AskOK, RunOK
<1>3. \A i \in 1..Len(m.cards) :
         /\ m.cards[i].index = a.first + i - 1 /\ m.cards[i].button = "apply"
         /\ m.cards[i].yaml = host.proposals[a.first + i - 1]
         /\ a.first + i - 1 \in 1..Len(host.proposals)
  <2>1. /\ a.first >= 1 /\ a.first + Len(a.run.proposals) - 1 <= Len(host.proposals)
        /\ \A i \in 1..Len(a.run.proposals) :
              a.run.proposals[i] = host.proposals[a.first + i - 1]
    BY <1>2 DEF CardsShow, CardIndex
  <2>2. Len(host.proposals) \in Nat
    BY LenProperties DEF Types, HostTypes
  <2>3. Len(m.cards) = Len(a.run.proposals)
    BY DEF Answering
  <2>4. \A i \in 1..Len(m.cards) :
           /\ m.cards[i].index = a.first + i - 1 /\ m.cards[i].button = "apply"
           /\ m.cards[i].yaml = a.run.proposals[i]
    BY DEF Answering, CardIndex
  <2>5. SUFFICES ASSUME NEW i \in 1..Len(m.cards)
                 PROVE  /\ m.cards[i].yaml = host.proposals[a.first + i - 1]
                        /\ a.first + i - 1 \in 1..Len(host.proposals)
    BY <2>4
  <2>6. m.cards[i].yaml = host.proposals[a.first + i - 1]
    BY <2>1, <2>3, <2>4
  <2>7. a.first + i - 1 \in 1..Len(host.proposals)
    <3> DEFINE first == a.first
               last == Len(host.proposals)
               count == Len(a.run.proposals)
    <3>1. first \in Nat /\ count \in Nat /\ last \in Nat /\ i \in 1..count
      BY <1>2, <2>2, <2>3
    <3>2. first >= 1 /\ first + count - 1 <= last
      BY <2>1
    <3> HIDE DEF first, last, count
    <3>3. first + i - 1 \in 1..last
      BY <3>1, <3>2
    <3> QED
      BY <3>3 DEF first, last
  <2> QED
    BY <2>6, <2>7
<1>4. Distinct(m.cards)
  <2> SUFFICES ASSUME NEW i \in 1..Len(m.cards), NEW j \in 1..Len(m.cards),
                      m.cards[i].index = m.cards[j].index
               PROVE  i = j
    BY DEF Distinct
  <2>1. m.cards[i].index = a.first + i - 1 /\ m.cards[j].index = a.first + j - 1
    BY <1>3
  <2>2. a.first + i - 1 = a.first + j - 1
    BY <2>1
  <2>3. i \in Int /\ j \in Int /\ a.first \in Int
    BY <1>2
  <2> QED
    BY <2>2, <2>3
<1>5. Indices(m.cards) \subseteq Kept(a)
  <2>1. Len(m.cards) = Len(a.run.proposals)
    BY DEF Answering
  <2>2. ASSUME NEW i \in 1..Len(m.cards)
        PROVE  m.cards[i].index \in Kept(a)
    <3>1. a.first + i - 1 \in a.first .. (a.first + Len(a.run.proposals) - 1)
      BY <1>2, <2>1
    <3> QED
      BY <1>3, <3>1 DEF Kept
  <2> QED
    BY <2>2 DEF Indices
<1>6. CardsShow'
  <2>1. ASSUME NEW p \in Deliveries', NEW i \in 1..Len(toView'[p].cards)
        PROVE  Shows(host'.proposals, toView'[p].cards[i]) /\ toView'[p].cards[i].button = "apply"
    <3>1. CASE p \in Deliveries
      BY <1>1, <3>1 DEF CardsShow
    <3>2. CASE p = n
      <4>1. toView'[p] = m /\ host'.proposals = host.proposals /\ i \in 1..Len(m.cards)
        BY <1>1, <3>2
      <4>2. Shows(host.proposals, m.cards[i]) /\ m.cards[i].button = "apply"
        BY <1>3, <4>1 DEF Shows
      <4> QED
        BY <4>1, <4>2
    <3> QED
      BY <1>1, <3>1, <3>2
  <2>2. \A i \in 1..Len(view'.cards) : Shows(host'.proposals, view'.cards[i])
    BY DEF CardsShow
  <2> QED
    BY <2>1, <2>2 DEF CardsShow, CardIndex
<1>7. OneCard'
  <2>1. Distinct(view'.cards) /\ \A p \in Deliveries' : Distinct(toView'[p].cards)
    BY <1>1, <1>4 DEF OneCard
  <2>2. \A p \in Deliveries' : Indices(view'.cards) \intersect Indices(toView'[p].cards) = {}
    <3>1. Indices(view.cards) \intersect Kept(a) = {}
      BY <1>2 DEF OneCard
    <3>2. \A p \in Deliveries : Indices(view.cards) \intersect Indices(toView[p].cards) = {}
      BY DEF OneCard
    <3> QED
      BY <1>1, <1>5, <3>1, <3>2
  <2>3. \A p, q \in Deliveries' :
           p # q => Indices(toView'[p].cards) \intersect Indices(toView'[q].cards) = {}
    <3>1. \A p \in Deliveries : Indices(toView[p].cards) \intersect Kept(a) = {}
      BY <1>2 DEF OneCard
    <3>2. \A p, q \in Deliveries :
             p # q => Indices(toView[p].cards) \intersect Indices(toView[q].cards) = {}
      BY DEF OneCard
    <3> DEFINE before == [p \in Deliveries |-> Indices(toView[p].cards)]
               after == [p \in Deliveries' |-> Indices(toView'[p].cards)]
    <3>3. /\ \A p \in Deliveries : after[p] = before[p] /\ p # n
          /\ \A p \in Deliveries' : p \in Deliveries \/ p = n
          /\ n \in Deliveries' => after[n] \subseteq Kept(a)
      BY <1>1, <1>5
    <3>4. \A p \in Deliveries : before[p] \intersect Kept(a) = {}
      BY <3>1
    <3>5. \A p, q \in Deliveries : p # q => before[p] \intersect before[q] = {}
      BY <3>2
    <3> HIDE DEF before, after
    <3>6. ASSUME NEW p \in Deliveries', NEW q \in Deliveries', p # q
          PROVE  after[p] \intersect after[q] = {}
      <4>1. CASE p \in Deliveries /\ q \in Deliveries
        BY <3>3, <3>5, <3>6, <4>1
      <4>2. CASE p \in Deliveries /\ q = n
        BY <3>3, <3>4, <4>2
      <4>3. CASE p = n /\ q \in Deliveries
        BY <3>3, <3>4, <4>3
      <4> QED
        BY <3>3, <3>6, <4>1, <4>2, <4>3
    <3> QED
      BY <3>6 DEF after
  <2>4. \A b \in Making' : Kept(b) \intersect Kept(a) = {} /\ Indices(view'.cards) \intersect Kept(b) = {}
    BY <1>2 DEF OneCard
  <2>5. \A b \in Making', p \in Deliveries' : Indices(toView'[p].cards) \intersect Kept(b) = {}
    <3>1. \A b \in Making', p \in Deliveries : Indices(toView[p].cards) \intersect Kept(b) = {}
      BY DEF OneCard
    <3> QED
      BY <1>1, <1>5, <2>4, <3>1
  <2>6. \A b, c \in Making' : b # c => Kept(b) \intersect Kept(c) = {}
    BY DEF OneCard
  <2> QED
    BY <2>1, <2>2, <2>3, <2>4, <2>5, <2>6 DEF OneCard, Indices, Distinct, Kept
<1> QED
  BY <1>6, <1>7

(* What a conversation proposed goes behind what the panel keeps, where no *)
(* card points yet.                                                        *)
LEMMA ProposalsKept ==
    ASSUME Types, CardsShow, OneCard, NEW a, NEW b, Concludes(a, b), UNCHANGED view
    PROVE  CardsShow' /\ OneCard'
<1> DEFINE new == b.run.proposals
           n == Len(host.proposals)
<1>1. /\ host.proposals \in Seq(Proposals) /\ new \in Seq(Proposals)
      /\ host'.proposals = host.proposals \o new /\ b.first = n + 1
      /\ asks' = (asks \ {a}) \union {b} /\ a.at # "yaml" /\ b.at = "yaml" /\ UNCHANGED toView
  <2>1. PICK h : host' = [activeUri |-> host.activeUri, proposals |-> host.proposals \o new,
                          history |-> h]
    BY DEF Concludes
  <2> QED
    BY <2>1 DEF Concludes, Types, HostTypes, AskOK, RunOK
<1>2. /\ n \in Nat /\ Len(new) \in Nat /\ Len(host'.proposals) = n + Len(new)
      /\ \A i \in 1..n : host'.proposals[i] = host.proposals[i]
      /\ \A i \in 1..Len(new) : host'.proposals[n + i] = new[i]
  <2> DEFINE old == host.proposals
  <2>1. old \in Seq(Proposals) /\ new \in Seq(Proposals) /\ host'.proposals = old \o new
    BY <1>1
  <2> HIDE DEF old, new
  <2>2. /\ Len(old) \in Nat /\ Len(new) \in Nat /\ Len(old \o new) = Len(old) + Len(new)
        /\ \A i \in 1..Len(old) : (old \o new)[i] = old[i]
        /\ \A i \in 1..Len(new) : (old \o new)[Len(old) + i] = new[i]
    BY <2>1, ConcatFacts
  <2> QED
    BY <2>1, <2>2 DEF old
<1>3. Making' = Making \union {b} /\ Deliveries' = Deliveries
  BY <1>1 DEF Making, Deliveries
<1>4. Kept(b) = (n + 1)..(n + Len(new))
  <2>1. \A k, j \in Nat : (k + 1) + j - 1 = k + j
    OBVIOUS
  <2>2. Kept(b) = b.first .. (b.first + Len(new) - 1)
    BY DEF Kept
  <2> HIDE DEF n, new
  <2> QED
    BY <1>1, <1>2, <2>1, <2>2
<1> HIDE DEF new
<1>5. \A c : Shows(host.proposals, c) => Shows(host'.proposals, c) /\ c.index \notin Kept(b)
  BY <1>2, <1>4 DEF Shows
<1>6. ASSUME NEW c \in Making
      PROVE  /\ Kept(c) \intersect Kept(b) = {}
             /\ c.first >= 1 /\ c.first + Len(c.run.proposals) - 1 <= Len(host'.proposals)
             /\ \A i \in 1..Len(c.run.proposals) :
                   c.run.proposals[i] = host'.proposals[c.first + i - 1]
  <2>1. /\ c.first >= 1 /\ c.first + Len(c.run.proposals) - 1 <= n
        /\ \A i \in 1..Len(c.run.proposals) :
              c.run.proposals[i] = host.proposals[c.first + i - 1]
    BY DEF CardsShow, CardIndex
  <2>2. c.first \in Nat /\ Len(c.run.proposals) \in Nat
    BY LenProperties DEF Making, Types, AskTypes, AskOK, RunOK
  <2> HIDE DEF n
  <2>3. \A x \in Kept(c) : x \in Int /\ x <= n
    BY <1>2, <2>1, <2>2 DEF Kept
  <2>4. \A x \in Kept(b) : x \in Int /\ x > n
    BY <1>2, <1>4
  <2>5. Kept(c) \intersect Kept(b) = {}
    <3> SUFFICES ASSUME NEW x \in Kept(c), x \in Kept(b)
                 PROVE  FALSE
      OBVIOUS
    <3> QED
      BY <1>2, <2>3, <2>4
  <2>6. \A i \in 1..Len(c.run.proposals) : c.first + i - 1 \in 1..n
    <3> DEFINE first == c.first
               count == Len(c.run.proposals)
    <3>1. first \in Nat /\ count \in Nat /\ n \in Nat /\ first >= 1 /\ first + count - 1 <= n
      BY <1>2, <2>1, <2>2
    <3> HIDE DEF first, count
    <3>2. \A i \in 1..count : first + i - 1 \in 1..n
      BY <3>1
    <3> QED
      BY <3>2 DEF first, count
  <2>7. \A i \in 1..Len(c.run.proposals) : c.run.proposals[i] = host'.proposals[c.first + i - 1]
    BY <1>2, <2>1, <2>6
  <2>8. c.first + Len(c.run.proposals) - 1 <= Len(host'.proposals)
    BY <1>2, <2>1, <2>2
  <2> QED
    BY <2>1, <2>5, <2>7, <2>8
<1>7. CardsShow'
  <2>1. \A i \in 1..Len(view'.cards) : Shows(host'.proposals, view'.cards[i])
    BY <1>5 DEF CardsShow
  <2>2. \A p \in Deliveries' : \A i \in 1..Len(toView'[p].cards) :
           Shows(host'.proposals, toView'[p].cards[i]) /\ toView'[p].cards[i].button = "apply"
    <3>1. \A p \in Deliveries : \A i \in 1..Len(toView[p].cards) :
             Shows(host.proposals, toView[p].cards[i]) /\ toView[p].cards[i].button = "apply"
      BY DEF CardsShow
    <3>2. Deliveries' = Deliveries /\ toView' = toView
      BY <1>1, <1>3
    <3> QED
      BY <1>5, <3>1, <3>2
  <2>3. \A i \in 1..Len(new) : new[i] = host'.proposals[b.first + i - 1]
    BY <1>1, <1>2
  <2>4. b.first >= 1 /\ b.first + Len(new) - 1 <= Len(host'.proposals)
    BY <1>1, <1>2
  <2> QED
    BY <1>3, <1>6, <2>1, <2>2, <2>3, <2>4 DEF CardsShow, CardIndex, new
<1>8. OneCard'
  <2>1. Indices(view.cards) \intersect Kept(b) = {}
    BY <1>5 DEF Indices, CardsShow
  <2>2. \A p \in Deliveries : Indices(toView[p].cards) \intersect Kept(b) = {}
    BY <1>5 DEF Indices, CardsShow
  <2>3. \A c, e \in Making' : c # e => Kept(c) \intersect Kept(e) = {}
    <3>1. \A c, e \in Making : c # e => Kept(c) \intersect Kept(e) = {}
      BY DEF OneCard
    <3>2. \A c \in Making : Kept(c) \intersect Kept(b) = {} /\ Kept(b) \intersect Kept(c) = {}
      BY <1>6
    <3> QED
      BY <1>3, <3>1, <3>2
  <2>4. /\ Distinct(view.cards)
        /\ \A p \in Deliveries : Distinct(toView[p].cards)
        /\ \A p \in Deliveries : Indices(view.cards) \intersect Indices(toView[p].cards) = {}
        /\ \A p, q \in Deliveries :
              p # q => Indices(toView[p].cards) \intersect Indices(toView[q].cards) = {}
        /\ \A c \in Making : Indices(view.cards) \intersect Kept(c) = {}
        /\ \A c \in Making, p \in Deliveries : Indices(toView[p].cards) \intersect Kept(c) = {}
    BY DEF OneCard
  <2>5. /\ \A c \in Making' : Indices(view.cards) \intersect Kept(c) = {}
        /\ \A c \in Making', p \in Deliveries : Indices(toView[p].cards) \intersect Kept(c) = {}
    BY <1>3, <2>1, <2>2, <2>4
  <2>6. view' = view /\ toView' = toView /\ Deliveries' = Deliveries
    BY <1>1, <1>3
  <2>7. /\ \A c \in Making' : Indices(view'.cards) \intersect Kept(c) = {}
        /\ \A c \in Making', p \in Deliveries' : Indices(toView'[p].cards) \intersect Kept(c) = {}
    BY <2>5, <2>6
  <2>8. /\ Distinct(view'.cards)
        /\ \A p \in Deliveries' : Distinct(toView'[p].cards)
        /\ \A p \in Deliveries' : Indices(view'.cards) \intersect Indices(toView'[p].cards) = {}
        /\ \A p, q \in Deliveries' :
              p # q => Indices(toView'[p].cards) \intersect Indices(toView'[q].cards) = {}
    BY <2>4, <2>6
  <2> QED
    BY <2>3, <2>7, <2>8 DEF OneCard, Indices, Distinct, Kept
<1> QED
  BY <1>7, <1>8

(* An answer that arrives puts its cards behind those of the transcript. *)
LEMMA AnswerRead ==
    ASSUME Types, CardsShow, OneCard, toView # <<>>, toView' = Tail(toView),
           1 \in Deliveries, toView[1].cards \in Seq(Cards),
           view'.cards = view.cards \o toView[1].cards, UNCHANGED <<host, asks>>
    PROVE  CardsShow' /\ OneCard'
<1> DEFINE new == toView[1].cards
           old == view.cards
           n == Len(old)
<1>1. Making' = Making /\ host'.proposals = host.proposals
  BY DEF Making
<1>2. \A p \in Deliveries' :
         p + 1 \in Deliveries /\ p \in Nat \ {0} /\ toView'[p] = toView[p + 1] /\ p + 1 # 1
  <2>1. /\ Deliveries' \subseteq Nat
        /\ \A p \in Deliveries' : p + 1 \in Deliveries /\ p # 0 /\ toView'[p] = toView[p + 1]
    BY ViewRead
  <2>2. \A p \in Nat : p # 0 => p + 1 # 1
    OBVIOUS
  <2> QED
    BY <2>1, <2>2
<1>3. \A p, q \in Deliveries' : p # q => p + 1 # q + 1
  BY <1>2
<1>4. old \in Seq(Cards) /\ new \in Seq(Cards) /\ view'.cards = old \o new
  BY DEF Types, ViewTypes
<1> HIDE DEF new, old
<1>5. /\ n \in Nat /\ Len(new) \in Nat /\ Len(view'.cards) = n + Len(new)
      /\ \A i \in 1..n : view'.cards[i] = old[i]
      /\ \A i \in (n + 1)..(n + Len(new)) : i - n \in 1..Len(new) /\ view'.cards[i] = new[i - n]
  <2>1. /\ Len(old \o new) = Len(old) + Len(new)
        /\ \A i \in 1..Len(old) : (old \o new)[i] = old[i]
        /\ \A i \in (Len(old) + 1)..(Len(old) + Len(new)) :
              i - Len(old) \in 1..Len(new) /\ (old \o new)[i] = new[i - Len(old)]
    BY <1>4, ConcatFacts
  <2>2. Len(old) \in Nat /\ Len(new) \in Nat
    BY <1>4, LenProperties
  <2> QED
    BY <1>4, <2>1, <2>2
<1> HIDE DEF n
<1>6. \A i \in 1..Len(view'.cards) :
         \/ i \in 1..n /\ view'.cards[i] = old[i]
         \/ i - n \in 1..Len(new) /\ i \notin 1..n /\ view'.cards[i] = new[i - n]
  <2>1. \A k, j \in Nat : \A i \in 1..(k + j) : i \in 1..k \/ (i \in (k + 1)..(k + j) /\ i \notin 1..k)
    OBVIOUS
  <2> QED
    BY <1>5, <2>1
<1>7. Indices(view'.cards) \subseteq Indices(old) \union Indices(new)
  BY <1>6 DEF Indices, n
<1>8. Indices(old) \intersect Indices(new) = {} /\ Distinct(old) /\ Distinct(new)
  BY DEF OneCard, old, new
<1>9. Distinct(view'.cards)
  <2> SUFFICES ASSUME NEW i \in 1..Len(view'.cards), NEW j \in 1..Len(view'.cards),
                      view'.cards[i].index = view'.cards[j].index
               PROVE  i = j
    BY DEF Distinct
  <2>1. \A k \in 1..n : old[k].index \in Indices(old)
    BY DEF Indices, n
  <2>2. \A k \in 1..Len(new) : new[k].index \in Indices(new)
    BY DEF Indices
  <2>3. CASE i \in 1..n /\ j \in 1..n
    BY <1>6, <1>8, <2>3 DEF Distinct, n
  <2>4. CASE i \notin 1..n /\ j \notin 1..n
    <3>1. /\ i - n \in 1..Len(new) /\ view'.cards[i] = new[i - n]
          /\ j - n \in 1..Len(new) /\ view'.cards[j] = new[j - n]
      BY <1>6, <2>4
    <3>2. \A k, l \in 1..Len(new) : new[k].index = new[l].index => k = l
      BY <1>8 DEF Distinct
    <3>3. i - n = j - n
      BY <3>1, <3>2
    <3> QED
      BY <1>5, <3>3
  <2>5. CASE ~(i \in 1..n <=> j \in 1..n)
    BY <1>6, <1>8, <2>1, <2>2, <2>5
  <2> QED
    BY <2>3, <2>4, <2>5
<1>10. CardsShow'
  <2>1. \A i \in 1..Len(view'.cards) : Shows(host'.proposals, view'.cards[i])
    <3>1. \A i \in 1..n : Shows(host.proposals, old[i])
      BY DEF CardsShow, old, n
    <3>2. \A i \in 1..Len(new) : Shows(host.proposals, new[i])
      BY DEF CardsShow, new
    <3> QED
      BY <1>1, <1>6, <3>1, <3>2
  <2>2. \A p \in Deliveries' : \A i \in 1..Len(toView'[p].cards) :
           Shows(host'.proposals, toView'[p].cards[i]) /\ toView'[p].cards[i].button = "apply"
    <3>1. \A p \in Deliveries : \A i \in 1..Len(toView[p].cards) :
             Shows(host.proposals, toView[p].cards[i]) /\ toView[p].cards[i].button = "apply"
      BY DEF CardsShow
    <3>2. ASSUME NEW p \in Deliveries'
          PROVE  \A i \in 1..Len(toView'[p].cards) :
                    Shows(host'.proposals, toView'[p].cards[i]) /\ toView'[p].cards[i].button = "apply"
      <4>1. \A i \in 1..Len(toView[p + 1].cards) :
               /\ Shows(host.proposals, toView[p + 1].cards[i])
               /\ toView[p + 1].cards[i].button = "apply"
        BY <1>2, <3>1
      <4> QED
        BY <1>1, <1>2, <4>1
    <3> QED
      BY <3>2
  <2> QED
    BY <1>1, <2>1, <2>2 DEF CardsShow, CardIndex
<1>11. OneCard'
  <2>1. \A p \in Deliveries' : Distinct(toView'[p].cards)
    BY <1>2 DEF OneCard
  <2>2. \A p \in Deliveries' : Indices(view'.cards) \intersect Indices(toView'[p].cards) = {}
    <3>1. \A p \in Deliveries : Indices(old) \intersect Indices(toView[p].cards) = {}
      BY DEF OneCard, old
    <3>2. \A p \in Deliveries : p # 1 => Indices(new) \intersect Indices(toView[p].cards) = {}
      BY DEF OneCard, new
    <3>3. ASSUME NEW p \in Deliveries'
          PROVE  Indices(view'.cards) \intersect Indices(toView'[p].cards) = {}
      <4>1. /\ Indices(old) \intersect Indices(toView[p + 1].cards) = {}
            /\ Indices(new) \intersect Indices(toView[p + 1].cards) = {}
        BY <1>2, <3>1, <3>2
      <4> QED
        BY <1>2, <1>7, <4>1
    <3> QED
      BY <3>3
  <2>3. \A p, q \in Deliveries' :
           p # q => Indices(toView'[p].cards) \intersect Indices(toView'[q].cards) = {}
    <3>1. ASSUME NEW p \in Deliveries', NEW q \in Deliveries', p # q
          PROVE  Indices(toView'[p].cards) \intersect Indices(toView'[q].cards) = {}
      <4>1. Indices(toView[p + 1].cards) \intersect Indices(toView[q + 1].cards) = {}
        BY <1>2, <1>3, <3>1 DEF OneCard
      <4> QED
        BY <1>2, <4>1
    <3> QED
      BY <3>1
  <2>4. \A a \in Making' : Indices(view'.cards) \intersect Kept(a) = {}
    <3>1. \A a \in Making : Indices(old) \intersect Kept(a) = {} /\ Indices(new) \intersect Kept(a) = {}
      BY DEF OneCard, old, new
    <3> QED
      BY <1>1, <1>7, <3>1
  <2>5. \A a \in Making', p \in Deliveries' : Indices(toView'[p].cards) \intersect Kept(a) = {}
    BY <1>1, <1>2 DEF OneCard
  <2>6. \A a, b \in Making' : a # b => Kept(a) \intersect Kept(b) = {}
    BY <1>1 DEF OneCard
  <2> QED
    BY <1>9, <2>1, <2>2, <2>3, <2>4, <2>5, <2>6 DEF OneCard, Indices, Distinct, Kept
<1> QED
  BY <1>10, <1>11

(* What is delivered stays when something else is posted... *)
LEMMA DeliveriesStay ==
    ASSUME Types,
           \/ UNCHANGED toView
           \/ \E m \in ViewMessages : m.type # "answer" /\ toView' = Append(toView, m)
    PROVE  \E d : MovedUp(d)
<1> DEFINE d == [p \in Deliveries' |-> p]
<1>1. Deliveries' = Deliveries /\ \A p \in Deliveries : toView'[p] = toView[p]
  <2>1. CASE UNCHANGED toView
    BY <2>1 DEF Deliveries
  <2>2. CASE \E m \in ViewMessages : m.type # "answer" /\ toView' = Append(toView, m)
    BY <2>2, ViewAppended
  <2> QED
    BY <2>1, <2>2
<1>2. MovedUp(d)
  BY <1>1 DEF MovedUp
<1> HIDE DEF d
<1> QED
  BY <1>2

(* ...and moves up when something is read. *)
LEMMA DeliveriesMoveUp ==
    ASSUME Types, toView # <<>>, toView' = Tail(toView)
    PROVE  \E d : MovedUp(d)
<1> DEFINE d == [p \in Deliveries' |-> p + 1]
<1>1. /\ Deliveries' \subseteq Nat
      /\ \A p \in Deliveries' : p + 1 \in Deliveries /\ toView'[p] = toView[p + 1]
  BY ViewRead
<1>2. \A p, q \in Deliveries' : d[p] = d[q] => p = q
  BY <1>1
<1>3. MovedUp(d)
  BY <1>1, <1>2 DEF MovedUp
<1> HIDE DEF d
<1> QED
  BY <1>3

(* The cards and what they show, through every step. *)
LEMMA CardsStep ==
    ASSUME Types, CardsShow, OneCard, [Next]_vars
    PROVE  CardsShow' /\ OneCard'
<1>a. UNCHANGED view => SameCards
  BY DEF SameCards
<1>b. UNCHANGED asks => Making' \subseteq Making
  BY DEF Making
<1>c. UNCHANGED toView => \E d : MovedUp(d)
  BY DeliveriesStay
<1>1. CASE submit
  <2>1. /\ UNCHANGED <<host, asks, toView>>
        /\ view' = [thinking |-> TRUE, cards |-> view.cards,
                    waiting |-> view.waiting \union {used.asks + 1}]
    BY <1>1, SubmitEffect DEF hostVars
  <2>2. SameCards
    BY <2>1 DEF SameCards
  <2> QED
    BY <1>b, <1>c, <2>1, <2>2, CardsStay
<1>2. ASSUME NEW i \in 1..Len(view.cards), clickApply(i)
      PROVE  CardsShow' /\ OneCard'
  <2>1. UNCHANGED <<host, asks, toView>>
    BY <1>2 DEF clickApply, hostVars
  <2>2. SameCards
    BY <1>2, ClickEffect DEF SameCards
  <2> QED
    BY <1>b, <1>c, <2>1, <2>2, CardsStay
<1>3. CASE ViewReceives
  <2>1. /\ toView # <<>> /\ toView' = Tail(toView) /\ UNCHANGED <<host, asks>>
        /\ 1 \in 1..Len(toView)
        /\ \/ toView[1].type # "answer" /\ view'.cards = view.cards
           \/ /\ toView[1].type = "answer" /\ toView[1].cards \in Seq(Cards)
              /\ view'.cards = view.cards \o toView[1].cards
           \/ \E label \in {"apply", "applied"} : view'.cards = Labelled(toView[1].index, label)
    BY <1>3, ReceiveEffect DEF ViewReceives, hostVars
  <2>2. CASE toView[1].type # "answer" /\ view'.cards = view.cards
    <3>1. SameCards
      BY <2>2 DEF SameCards
    <3> QED
      BY <1>b, <2>1, <3>1, DeliveriesMoveUp, CardsStay
  <2>3. CASE /\ toView[1].type = "answer" /\ toView[1].cards \in Seq(Cards)
             /\ view'.cards = view.cards \o toView[1].cards
    <3>1. 1 \in Deliveries
      BY <2>1, <2>3 DEF Deliveries
    <3> QED
      BY <2>1, <2>3, <3>1, AnswerRead
  <2>4. CASE \E label \in {"apply", "applied"} : view'.cards = Labelled(toView[1].index, label)
    <3>1. SameCards
      BY <2>4, LabelledOK DEF SameCards
    <3> QED
      BY <1>b, <2>1, <3>1, DeliveriesMoveUp, CardsStay
  <2> QED
    BY <2>1, <2>2, <2>3, <2>4
<1>4. CASE HostReceives
  <2>1. UNCHANGED <<host, toView, view>> /\ (UNCHANGED asks \/ StartsAsk(toHost[1]))
    BY <1>4, HostEffect DEF StartsApply, StartsSave
  <2>2. Making' \subseteq Making
    BY <1>b, <2>1 DEF StartsAsk, Making
  <2> QED
    BY <1>a, <1>c, <2>1, <2>2, CardsStay
<1>5. ASSUME NEW a \in asks, AskGoesOn(a)
      PROVE  CardsShow' /\ OneCard'
  <2>1. UNCHANGED view
    BY <1>5, AskEffect
  <2>2. ASSUME NEW b, Moves(a, b)
        PROVE  CardsShow' /\ OneCard'
    <3>1. Making' \subseteq Making /\ UNCHANGED host
      BY <2>2 DEF Moves, Making
    <3>2. Reply("thinking", a.of) \in ViewMessages /\ Reply("thinking", a.of).type # "answer"
      BY DEF Reply, ViewMessages, Types, AskTypes, AskOK
    <3>3. \E d : MovedUp(d)
      BY <2>2, <3>2, DeliveriesStay DEF Moves
    <3> QED
      BY <1>a, <2>1, <3>1, <3>3, CardsStay
  <2>3. ASSUME NEW b, Concludes(a, b)
        PROVE  CardsShow' /\ OneCard'
    BY <2>1, <2>3, ProposalsKept
  <2>4. ASSUME NEW m, Replying(a, m)
        PROVE  CardsShow' /\ OneCard'
    <3>1. /\ m \in ViewMessages /\ toView' = Append(toView, m) /\ UNCHANGED host
          /\ Making' = Making \ {a}
      BY <2>4 DEF Replying, Making
    <3>2. CASE Answering(a, m)
      BY <2>1, <3>1, <3>2, AnswerPosted
    <3>3. CASE m.type \in {"error", "needKey"}
      <4>1. \E d : MovedUp(d)
        BY <3>1, <3>3, DeliveriesStay
      <4> QED
        BY <1>a, <2>1, <3>1, <4>1, CardsStay
    <3> QED
      BY <2>4, <3>2, <3>3 DEF Replying
  <2> QED
    BY <1>5, <2>2, <2>3, <2>4, AskEffect
<1>6. CASE Applies
  <2>1. /\ UNCHANGED <<asks, view>> /\ host'.proposals = host.proposals
        /\ UNCHANGED toView \/ \E m \in ViewMessages : LetsGo(m) /\ toView' = Append(toView, m)
    BY <1>6, ApplyEffect DEF Proceeds, LetGo, WritesTo
  <2>2. \E d : MovedUp(d)
    BY <2>1, DeliveriesStay DEF LetsGo
  <2> QED
    BY <1>a, <1>b, <2>1, <2>2, CardsStay
<1>7. CASE (\E s \in Settings : clickSave(s)) \/ Saves \/ UNCHANGED vars
  <2>1. UNCHANGED <<host, asks, toView, view>>
    BY <1>7, SavesEffect DEF vars, hostVars, clickSave
  <2> QED
    BY <1>a, <1>b, <1>c, <2>1, CardsStay
<1> QED
  BY <1>1, <1>2, <1>3, <1>4, <1>5, <1>6, <1>7 DEF Next

--------------------------------------------------------------------------------
(* A message that is not about a button leaves the buttons alone... *)
LEMMA ReleasesStay ==
    ASSUME Types, ReleasesDiffer,
           \/ UNCHANGED toView
           \/ \E m \in ViewMessages : ~LetsGo(m) /\ toView' = Append(toView, m)
    PROVE  Released' = Released /\ ReleasesDiffer'
<1>1. CASE UNCHANGED toView
  BY <1>1 DEF Released, ReleasesDiffer, Releases
<1>2. CASE \E m \in ViewMessages : ~LetsGo(m) /\ toView' = Append(toView, m)
  BY <1>2, ReleasePosted
<1> QED
  BY <1>1, <1>2

(* ...in either direction... *)
LEMMA ClicksStay ==
    ASSUME Types, ClicksDiffer,
           \/ UNCHANGED toHost
           \/ \E m \in HostMessages : m.type # "apply" /\ toHost' = Append(toHost, m)
    PROVE  ClickedOn' = ClickedOn /\ ClicksDiffer'
<1>1. CASE UNCHANGED toHost
  BY <1>1 DEF ClickedOn, ClicksDiffer, Clicks
<1>2. CASE \E m \in HostMessages : m.type # "apply" /\ toHost' = Append(toHost, m)
  BY <1>2, ClickPosted
<1> QED
  BY <1>1, <1>2

(* ...as does what leaves the cards as they are. *)
LEMMA PressedStay ==
    ASSUME view'.cards = view.cards
    PROVE  Pressed' = Pressed
BY DEF Pressed

(* The button that is clicked was not pressed: its index has no other. *)
LEMMA PressedClicked ==
    ASSUME Types, Distinct(view.cards), NEW i \in 1..Len(view.cards), clickApply(i)
    PROVE  /\ Pressed' = Pressed \union {view.cards[i].index}
           /\ view.cards[i].index \notin Pressed
<1>1. view.cards[i].button = "apply"
  BY DEF clickApply
<1>2. view.cards[i].index \notin Pressed
  BY <1>1 DEF Pressed, Distinct
<1>3. /\ Len(view'.cards) = Len(view.cards) /\ view'.cards[i].index = view.cards[i].index
      /\ view'.cards[i].button = "applying"
      /\ \A j \in 1..Len(view.cards) : j # i => view'.cards[j] = view.cards[j]
  BY ClickEffect
<1>4. \A n \in Pressed' : n \in Pressed \/ n = view.cards[i].index
  BY <1>3 DEF Pressed
<1>5. \A n \in Pressed : n \in Pressed'
  BY <1>1, <1>3 DEF Pressed
<1>6. view.cards[i].index \in Pressed'
  BY <1>3 DEF Pressed
<1> QED
  BY <1>2, <1>4, <1>5, <1>6

(* A label other than "applying" lets go of the buttons of its index. *)
LEMMA PressedReleased ==
    ASSUME Types, NEW index, NEW label \in {"apply", "applied"},
           view'.cards = Labelled(index, label)
    PROVE  Pressed' = Pressed \ {index}
<1>1. /\ Len(view'.cards) = Len(view.cards)
      /\ \A i \in 1..Len(view.cards) :
            /\ view'.cards[i].index = view.cards[i].index
            /\ view'.cards[i].button = IF view.cards[i].index = index THEN label ELSE view.cards[i].button
  BY LabelledOK
<1>2. \A n \in Pressed' : n \in Pressed \ {index}
  BY <1>1 DEF Pressed
<1>3. \A n \in Pressed \ {index} : n \in Pressed'
  BY <1>1 DEF Pressed
<1> QED
  BY <1>2, <1>3

(* New cards come with their buttons free. *)
LEMMA PressedDelivered ==
    ASSUME Types, CardsShow, toView[1].type = "answer", 1 \in 1..Len(toView),
           toView[1].cards \in Seq(Cards), view'.cards = view.cards \o toView[1].cards
    PROVE  Pressed' = Pressed
<1> DEFINE old == view.cards
           new == toView[1].cards
<1>1. old \in Seq(Cards) /\ new \in Seq(Cards) /\ view'.cards = old \o new
  BY DEF Types, ViewTypes
<1>2. \A i \in 1..Len(new) : new[i].button = "apply"
  BY DEF CardsShow, Deliveries
<1> HIDE DEF old, new
<1>3. /\ Len(old) \in Nat /\ Len(new) \in Nat /\ Len(old \o new) = Len(old) + Len(new)
      /\ \A i \in 1..Len(old) : (old \o new)[i] = old[i]
      /\ \A i \in (Len(old) + 1)..(Len(old) + Len(new)) :
            i - Len(old) \in 1..Len(new) /\ (old \o new)[i] = new[i - Len(old)]
  BY <1>1, ConcatFacts
<1>4. \A k, j \in Nat : \A i \in 1..(k + j) : i \in 1..k \/ i \in (k + 1)..(k + j)
  OBVIOUS
<1>5. \A i \in 1..Len(view'.cards) :
         view'.cards[i].button = "applying" => i \in 1..Len(old) /\ view'.cards[i] = old[i]
  BY <1>1, <1>2, <1>3, <1>4
<1>6. \A i \in 1..Len(old) : i \in 1..Len(view'.cards) /\ view'.cards[i] = old[i]
  BY <1>1, <1>3
<1>7. \A n \in Pressed' : n \in Pressed
  BY <1>5 DEF Pressed, old
<1>8. \A n \in Pressed : n \in Pressed'
  BY <1>6 DEF Pressed, old
<1> QED
  BY <1>7, <1>8

(* Nothing about buttons changes. *)
QuietButtons ==
    /\ Pressed' = Pressed /\ UNCHANGED applies
    /\ ClickedOn' = ClickedOn /\ ClicksDiffer'
    /\ Released' = Released /\ ReleasesDiffer'

(* Then every click stays where it is. *)
LEMMA ButtonsQuiet ==
    ASSUME Buttons, QuietButtons
    PROVE  Buttons'
BY DEF Buttons, QuietButtons, ButtonsWait, InWork, AppliesDiffer

(* Where the clicks are, through every step. *)
LEMMA ButtonsStep ==
    ASSUME Types, CardsShow, OneCard, Buttons, [Next]_vars
    PROVE  Buttons'
<1>0. ButtonsWait /\ ClicksDiffer /\ AppliesDiffer /\ ReleasesDiffer
  BY DEF Buttons
<1>a. UNCHANGED view => Pressed' = Pressed
  BY PressedStay
<1>b. UNCHANGED toHost => ClickedOn' = ClickedOn /\ ClicksDiffer'
  BY <1>0, ClicksStay
<1>c. UNCHANGED toView => Released' = Released /\ ReleasesDiffer'
  BY <1>0, ReleasesStay
<1>d. UNCHANGED applies => InWork' = InWork /\ AppliesDiffer'
  BY <1>0 DEF InWork, AppliesDiffer
<1>1. CASE submit
  <2>1. /\ UNCHANGED <<applies, toView>>
        /\ view' = [thinking |-> TRUE, cards |-> view.cards,
                    waiting |-> view.waiting \union {used.asks + 1}]
    BY <1>1, SubmitEffect DEF hostVars
  <2>2. ClickedOn' = ClickedOn /\ ClicksDiffer'
    <3>1. \E m \in HostMessages : m.type # "apply" /\ toHost' = Append(toHost, m)
      BY <1>1, SubmitEffect
    <3> QED
      BY <1>0, <3>1, ClicksStay
  <2>3. Pressed' = Pressed
    BY <2>1, PressedStay
  <2> QED
    BY <1>c, <2>1, <2>2, <2>3, ButtonsQuiet DEF QuietButtons
<1>2. ASSUME NEW i \in 1..Len(view.cards), clickApply(i)
      PROVE  Buttons'
  <2> DEFINE m == [type |-> "apply", index |-> view.cards[i].index]
  <2>1. /\ m \in HostMessages /\ m.type = "apply" /\ m.index = view.cards[i].index
        /\ toHost' = Append(toHost, m) /\ UNCHANGED <<applies, toView>>
    <3>1. view.cards[i] \in Cards
      BY DEF Types, ViewTypes
    <3> QED
      BY <1>2, <3>1 DEF HostMessages, Cards, clickApply, hostVars
  <2> HIDE DEF m
  <2>2. Pressed' = Pressed \union {m.index} /\ m.index \notin Pressed
    BY <1>2, <2>1, PressedClicked DEF OneCard
  <2>3. m.index \notin ClickedOn \union InWork \union Released
    BY <1>0, <2>2 DEF ButtonsWait
  <2>4. ClicksDiffer' /\ ClickedOn' = ClickedOn \union {m.index}
    BY <1>0, <2>1, <2>3, ClickPosted
  <2>5. /\ InWork' = InWork /\ AppliesDiffer' /\ Released' = Released /\ ReleasesDiffer'
    BY <1>c, <1>d, <2>1
  <2>6. ButtonsWait'
    BY <1>0, <2>2, <2>3, <2>4, <2>5 DEF ButtonsWait
  <2> QED
    BY <2>4, <2>5, <2>6 DEF Buttons
<1>3. CASE ViewReceives
  <2> DEFINE m == toView[1]
  <2>1. /\ 1 \in 1..Len(toView) /\ toView # <<>> /\ toView' = Tail(toView)
        /\ UNCHANGED <<toHost, applies>>
        /\ \/ ~LetsGo(m) /\ view'.cards = view.cards
           \/ /\ m.type = "answer" /\ m.cards \in Seq(Cards) /\ ~LetsGo(m)
              /\ view'.cards = view.cards \o m.cards
           \/ LetsGo(m) /\ \E label \in {"apply", "applied"} : view'.cards = Labelled(m.index, label)
    BY <1>3, ReceiveEffect DEF ViewReceives, hostVars, LetsGo
  <2>2. /\ ReleasesDiffer'
        /\ LetsGo(m) => m.index \in Released /\ Released' = Released \ {m.index}
        /\ ~LetsGo(m) => Released' = Released
    BY <1>0, <2>1, ReleaseTaken
  <2>3. CASE ~LetsGo(m)
    <3>1. Pressed' = Pressed
      BY <2>1, <2>3, PressedStay, PressedDelivered
    <3> QED
      BY <1>b, <2>1, <2>2, <2>3, <3>1, ButtonsQuiet DEF QuietButtons
  <2>4. CASE LetsGo(m)
    <3>1. PICK label \in {"apply", "applied"} : view'.cards = Labelled(m.index, label)
      BY <2>1, <2>4
    <3>2. Pressed' = Pressed \ {m.index}
      BY <3>1, PressedReleased
    <3>3. /\ ClickedOn' = ClickedOn /\ ClicksDiffer' /\ InWork' = InWork /\ AppliesDiffer'
      BY <1>b, <1>d, <2>1
    <3> HIDE DEF m
    <3>4. ButtonsWait'
      BY <1>0, <2>2, <2>4, <3>2, <3>3 DEF ButtonsWait
    <3> QED
      BY <2>2, <3>3, <3>4 DEF Buttons
  <2> QED
    BY <2>3, <2>4
<1>4. CASE HostReceives
  <2> DEFINE m == toHost[1]
  <2>1. /\ 1 \in 1..Len(toHost) /\ toHost # <<>> /\ toHost' = Tail(toHost)
        /\ UNCHANGED <<toView, view>>
        /\ StartsAsk(m) \/ StartsApply(m) \/ StartsSave(m)
    BY <1>4, HostEffect DEF HostReceives
  <2>2. /\ ClicksDiffer'
        /\ m.type = "apply" => m.index \in ClickedOn /\ ClickedOn' = ClickedOn \ {m.index}
        /\ m.type # "apply" => ClickedOn' = ClickedOn
    BY <1>0, <2>1, ClickTaken
  <2> HIDE DEF m
  <2>3. CASE StartsApply(m)
    <3>1. PICK s : s.index = m.index /\ applies' = applies \union {s}
      <4>1. PICK s : /\ s = [index |-> m.index, at |-> s.at, uri |-> s.uri]
                     /\ applies' = applies \union {s}
        BY <2>3 DEF StartsApply
      <4> QED
        BY <4>1
    <3>2. m.type = "apply"
      BY <2>3 DEF StartsApply
    <3>3. InWork' = InWork \union {m.index}
      BY <3>1 DEF InWork
    <3>4. m.index \notin InWork /\ m.index \notin Released
      BY <1>0, <2>2, <3>2 DEF ButtonsWait
    <3>5. AppliesDiffer'
      BY <1>0, <3>1, <3>4 DEF AppliesDiffer, InWork
    <3>6. ButtonsWait'
      BY <1>0, <1>a, <1>c, <2>1, <2>2, <3>2, <3>3, <3>4 DEF ButtonsWait
    <3> QED
      BY <1>c, <2>1, <2>2, <3>5, <3>6 DEF Buttons
  <2>4. CASE StartsAsk(m) \/ StartsSave(m)
    <3>1. UNCHANGED applies /\ m.type # "apply"
      BY <2>4 DEF StartsAsk, StartsSave
    <3> QED
      BY <1>a, <1>c, <2>1, <2>2, <3>1, ButtonsQuiet DEF QuietButtons
  <2> QED
    BY <2>1, <2>3, <2>4
<1>5. ASSUME NEW a \in asks, AskGoesOn(a)
      PROVE  Buttons'
  <2>1. UNCHANGED <<applies, toHost, view>>
    BY <1>5, AskEffect
  <2>2. UNCHANGED toView \/ \E m \in ViewMessages : ~LetsGo(m) /\ toView' = Append(toView, m)
    <3>1. Reply("thinking", a.of) \in ViewMessages /\ ~LetsGo(Reply("thinking", a.of))
      BY DEF Reply, ViewMessages, Types, AskTypes, AskOK, LetsGo
    <3>2. \A b : Moves(a, b) \/ Concludes(a, b) =>
             toView' \in {toView, Append(toView, Reply("thinking", a.of))}
      BY DEF Moves, Concludes
    <3>3. \A m : Replying(a, m) => m \in ViewMessages /\ ~LetsGo(m) /\ toView' = Append(toView, m)
      BY DEF Replying, Answering, LetsGo
    <3> QED
      BY <1>5, <3>1, <3>2, <3>3, AskEffect
  <2>3. Released' = Released /\ ReleasesDiffer'
    BY <1>0, <2>2, ReleasesStay
  <2> QED
    BY <1>a, <1>b, <2>1, <2>3, ButtonsQuiet DEF QuietButtons
<1>6. CASE Applies
  <2>1. PICK t \in applies :
           /\ (\E s : Proceeds(t, s)) \/ (\E m : LetGo(t, m))
           /\ UNCHANGED <<toHost, view>>
    BY <1>6, ApplyEffect
  <2>2. ClickedOn' = ClickedOn /\ ClicksDiffer' /\ Pressed' = Pressed /\ t.index \in InWork
    BY <1>a, <1>b, <2>1 DEF InWork
  <2>3. ASSUME NEW s, Proceeds(t, s)
        PROVE  Buttons'
    <3>1. s.index = t.index /\ applies' = (applies \ {t}) \union {s} /\ UNCHANGED toView
      <4>1. PICK w, u : s = [index |-> t.index, at |-> w, uri |-> u]
        BY <2>3 DEF Proceeds
      <4> QED
        BY <2>3, <4>1 DEF Proceeds
    <3>2. InWork' = InWork
      <4>1. \A n \in InWork : n \in InWork'
        BY <3>1 DEF InWork
      <4>2. \A n \in InWork' : n \in InWork
        BY <3>1 DEF InWork
      <4> QED
        BY <4>1, <4>2
    <3>3. AppliesDiffer'
      BY <1>0, <3>1 DEF AppliesDiffer
    <3>4. ButtonsWait'
      BY <1>0, <1>c, <2>2, <3>1, <3>2 DEF ButtonsWait
    <3> QED
      BY <1>c, <2>2, <3>1, <3>3, <3>4 DEF Buttons
  <2>4. ASSUME NEW m, LetGo(t, m)
        PROVE  Buttons'
    <3>1. /\ m \in ViewMessages /\ LetsGo(m) /\ m.index = t.index
          /\ applies' = applies \ {t} /\ toView' = Append(toView, m)
      BY <2>4 DEF LetGo
    <3>2. InWork' = InWork \ {t.index} /\ AppliesDiffer'
      <4>1. \A n \in InWork' : n \in InWork /\ n # t.index
        BY <1>0, <3>1 DEF InWork, AppliesDiffer
      <4>2. \A n \in InWork : n # t.index => n \in InWork'
        BY <3>1 DEF InWork
      <4>3. AppliesDiffer'
        BY <1>0, <3>1 DEF AppliesDiffer
      <4> QED
        BY <2>2, <4>1, <4>2, <4>3
    <3>3. t.index \notin Released /\ t.index \notin ClickedOn
      BY <1>0, <2>2 DEF ButtonsWait
    <3>4. ReleasesDiffer' /\ Released' = Released \union {t.index}
      BY <1>0, <3>1, <3>3, ReleasePosted
    <3>5. ButtonsWait'
      BY <1>0, <2>2, <3>2, <3>3, <3>4 DEF ButtonsWait
    <3> QED
      BY <2>2, <3>2, <3>4, <3>5 DEF Buttons
  <2> QED
    BY <2>1, <2>3, <2>4
<1>7. CASE \E s \in Settings : clickSave(s)
  <2>1. PICK s \in Settings : clickSave(s)
    BY <1>7
  <2> DEFINE m == [type |-> "saveSettings", settings |-> s]
  <2>2. /\ m \in HostMessages /\ m.type # "apply" /\ toHost' = Append(toHost, m)
        /\ UNCHANGED <<applies, toView, view>>
    BY <2>1 DEF clickSave, hostVars, HostMessages
  <2>3. ClickedOn' = ClickedOn /\ ClicksDiffer'
    BY <1>0, <2>2, ClicksStay
  <2> QED
    BY <1>a, <1>c, <2>2, <2>3, ButtonsQuiet DEF QuietButtons
<1>8. CASE Saves \/ UNCHANGED vars
  <2>1. UNCHANGED <<applies, toHost, toView, view>>
    BY <1>8, SavesEffect DEF vars, hostVars
  <2> QED
    BY <1>a, <1>b, <1>c, <2>1, ButtonsQuiet DEF QuietButtons
<1> QED
  BY <1>1, <1>2, <1>3, <1>4, <1>5, <1>6, <1>7, <1>8 DEF Next

--------------------------------------------------------------------------------
(* The names of the calls of an answer, and of those behind the first. *)
LEMMA NamesFacts ==
    /\ NamesOf(<<>>) = <<>>
    /\ \A calls \in Seq(Parts) :
          /\ NamesOf(calls) \in Seq(Names)
          /\ calls = <<>> <=> NamesOf(calls) = <<>>
          /\ calls # <<>> =>
                /\ Head(calls).tool \in Names /\ Head(NamesOf(calls)) = Head(calls).tool
                /\ Tail(NamesOf(calls)) = NamesOf(Tail(calls))
<1>1. NamesOf(<<>>) = <<>>
  <2>1. 1..Len(<<>>) = {}
    OBVIOUS
  <2> QED
    BY <2>1 DEF NamesOf
<1>2. ASSUME NEW calls \in Seq(Parts)
      PROVE  /\ NamesOf(calls) \in Seq(Names) /\ Len(NamesOf(calls)) = Len(calls)
             /\ \A i \in 1..Len(calls) : NamesOf(calls)[i] = calls[i].tool /\ calls[i].tool \in Names
  <2> DEFINE n == Len(calls)
             v(i) == calls[i].tool
  <2>1. n \in Nat /\ \A i \in 1..n : v(i) \in Names
    <3>1. \A i \in 1..n : calls[i] \in Parts
      OBVIOUS
    <3> QED
      BY <3>1 DEF Names
  <2> HIDE DEF v, n
  <2>2. [i \in 1..n |-> v(i)] \in Seq(Names)
    BY <2>1, IsASeq
  <2>3. NamesOf(calls) = [i \in 1..n |-> v(i)]
    BY DEF NamesOf, n, v
  <2>4. Len(NamesOf(calls)) = n /\ \A i \in 1..n : NamesOf(calls)[i] = v(i)
    BY <2>1, <2>2, <2>3
  <2> QED
    BY <2>1, <2>2, <2>3, <2>4 DEF n, v
<1>3. ASSUME NEW calls \in Seq(Parts), calls # <<>>
      PROVE  /\ NamesOf(calls) # <<>>
             /\ Head(calls).tool \in Names /\ Head(NamesOf(calls)) = Head(calls).tool
             /\ Tail(NamesOf(calls)) = NamesOf(Tail(calls))
  <2> DEFINE n == Len(calls)
             names == NamesOf(calls)
             rest == NamesOf(Tail(calls))
  <2>1. /\ Tail(calls) \in Seq(Parts) /\ n \in Nat \ {0} /\ Len(Tail(calls)) = n - 1
        /\ \A i \in 1..(n - 1) : Tail(calls)[i] = calls[i + 1]
        /\ Head(calls) = calls[1] /\ Head(calls) \in Parts
    BY <1>3, TailFacts
  <2>2. /\ names \in Seq(Names) /\ Len(names) = n
        /\ \A i \in 1..n : names[i] = calls[i].tool /\ calls[i].tool \in Names
    BY <1>2
  <2>3. /\ rest \in Seq(Names) /\ Len(rest) = n - 1
        /\ \A i \in 1..(n - 1) : rest[i] = Tail(calls)[i].tool
    BY <1>2, <2>1
  <2> HIDE DEF names, rest, n
  <2>4. names # <<>>
    BY <2>1, <2>2
  <2>5. /\ Tail(names) \in Seq(Names) /\ Len(Tail(names)) = n - 1 /\ Head(names) = names[1]
        /\ \A i \in 1..(n - 1) : Tail(names)[i] = names[i + 1]
    BY <2>2, <2>4, TailFacts
  <2>6. \A i \in 1..(n - 1) : i + 1 \in 1..n
    BY <2>1
  <2>7. \A i \in 1..(n - 1) : Tail(names)[i] = rest[i]
    BY <2>1, <2>2, <2>3, <2>5, <2>6
  <2>8. Tail(names) = rest
    BY <2>3, <2>5, <2>7
  <2>9. 1 \in 1..n
    BY <2>1
  <2> QED
    BY <2>1, <2>2, <2>4, <2>5, <2>8, <2>9 DEF names, rest
<1> QED
  BY <1>1, <1>2, <1>3

(* A conversation that goes on, and one that is over and remembered. *)
LEMMA ProgressTalks ==
    ASSUME Types, Conversations, NEW a \in asks, NEW run, Progress(a, run),
           ~run.ended => Goes(run.messages, NamesOf(run.calls))
    PROVE  Conversations'
<1>1. a.of \in Nat /\ host = [activeUri |-> host.activeUri, proposals |-> host.proposals, history |-> host.history]
  BY DEF Types, AskTypes, AskOK, HostTypes
<1>2. CASE ~run.ended
  <2> DEFINE b == At(a, "agent", run, a.first)
  <2>1. b.run = run /\ asks' = (asks \ {a}) \union {b} /\ UNCHANGED host
    BY <1>2, AskFields DEF Progress, Step
  <2> HIDE DEF b
  <2> QED
    BY <1>2, <2>1 DEF Conversations
<1>3. CASE run.ended
  <2> DEFINE b == At(a, "yaml", run, Len(host.proposals) + 1)
             h == host.history
             x == h \o <<Question(a.of), Answer(a.of)>>
             ps == host.proposals \o run.proposals
  <2>1. /\ b.at = "yaml" /\ asks' = (asks \ {a}) \union {b}
        /\ host' = [host EXCEPT !.history = x, !.proposals = ps]
    BY <1>3, AskFields DEF Progress, Step
  <2> HIDE DEF b, x, ps
  <2>2. host'.history = x
    <3>1. PICK u, p, hi : host = [activeUri |-> u, proposals |-> p, history |-> hi]
      BY <1>1
    <3> QED
      BY <2>1, <3>1
  <2>3. Rests(x)
    <3>1. Rests(h) /\ h \in Seq(Messages)
      BY DEF Conversations, Rests
    <3>2. Goes(Append(h, Question(a.of)), <<>>)
      BY <1>1, <3>1, QuestionAsked
    <3>3. Rests(Append(Append(h, Question(a.of)), Answer(a.of)))
      BY <1>1, <3>2, AnswerGiven
    <3>4. x = Append(Append(h, Question(a.of)), Answer(a.of))
      <4> DEFINE q == Question(a.of)
                 w == Answer(a.of)
      <4>1. h \in Seq({h[i] : i \in 1..Len(h)} \union {q, w})
        BY <3>1
      <4> HIDE DEF q, w, h
      <4>2. h \o <<q, w>> = Append(Append(h, q), w)
        BY <4>1
      <4> QED
        BY <4>2 DEF q, w, x
    <3> QED
      BY <3>3, <3>4
  <2> QED
    BY <2>1, <2>2, <2>3 DEF Conversations
<1> QED
  BY <1>2, <1>3

(* What is sent stays in order, through every step. *)
LEMMA ConversationsStep ==
    ASSUME Types, Conversations, [Next]_vars
    PROVE  Conversations'
<1>1. ASSUME NEW a \in asks, KeyRead(a) \/ YamlRead(a) \/ ProviderFails(a)
      PROVE  Conversations'
  <2>1. /\ UNCHANGED host
        /\ \/ asks' = asks \ {a}
           \/ asks' = (asks \ {a}) \union {At(a, "note", a.run, a.first)}
    BY <1>1 DEF KeyRead, YamlRead, ProviderFails, Step, Leave
  <2>2. At(a, "note", a.run, a.first).at = "note"
    BY AskFields
  <2> QED
    BY <2>1, <2>2 DEF Conversations
<1>2. ASSUME NEW a \in asks, NoteRead(a)
      PROVE  Conversations'
  <2> DEFINE run == StartRun(host.history, a.of)
             b == At(a, "agent", run, a.first)
  <2>1. b.run = run /\ asks' = (asks \ {a}) \union {b} /\ UNCHANGED host
    BY <1>2, AskFields DEF NoteRead, Step
  <2>2. run.messages = Append(host.history, Question(a.of)) /\ run.calls = <<>>
    BY DEF StartRun
  <2>3. Goes(Append(host.history, Question(a.of)), <<>>)
    BY QuestionAsked DEF Conversations, Types, AskTypes, AskOK
  <2> HIDE DEF b, run
  <2>4. Goes(run.messages, NamesOf(run.calls))
    BY <2>2, <2>3, NamesFacts
  <2> QED
    BY <2>1, <2>4 DEF Conversations
<1>3. ASSUME NEW a \in asks, NEW parts \in Completions, ProviderAnswers(a, parts)
      PROVE  Conversations'
  <2> DEFINE calls == parseToolCalls(parts)
             run == Completed(a.run, calls)
             names == NamesOf(calls)
             m == Message("assistant", a.run.of, names)
  <2>1. calls \in Seq(Parts) /\ a.run.of \in Nat /\ RunOK(a.run)
    BY CallsAreParts DEF Types, AskTypes, AskOK, RunOK
  <2>2. Goes(a.run.messages, <<>>)
    <3>1. a.at = "agent" /\ ~a.run.ended /\ a.run.calls = <<>>
      BY <1>3 DEF ProviderAnswers, Asking
    <3> QED
      BY <3>1, NamesFacts DEF Conversations
  <2>3. Progress(a, run)
    BY <1>3 DEF ProviderAnswers
  <2> HIDE DEF calls
  <2>4. CASE calls = <<>>
    <3>1. run.ended
      BY <2>1, <2>4 DEF Completed, RunOK
    <3> HIDE DEF run
    <3> QED
      BY <2>3, <3>1, ProgressTalks
  <2>5. CASE calls # <<>>
    <3>1. names \in Seq(Names) /\ names # <<>>
      BY <2>1, <2>5, NamesFacts
    <3>2. m \in Messages /\ m.role = "assistant" /\ m.calls = names
      <4> HIDE DEF names
      <4> QED
        BY <2>1, <3>1 DEF Message, Messages
    <3>3. run = [a.run EXCEPT !.calls = calls, !.messages = Append(@, m)]
      BY <2>5 DEF Completed, NamesOf
    <3>4. run.calls = calls /\ run.messages = Append(a.run.messages, m)
      <4>1. PICK n, ms, cs, ps, st, en : a.run = [of |-> n, messages |-> ms, calls |-> cs, proposals |-> ps,
                                                 steps |-> st, ended |-> en]
        BY <2>1 DEF RunOK
      <4> HIDE DEF m, run
      <4> QED
        BY <3>3, <4>1
    <3> HIDE DEF run, names, m
    <3>5. Goes(Append(a.run.messages, m), m.calls)
      BY <2>2, <3>1, <3>2, ToolsCalled
    <3>6. Goes(run.messages, NamesOf(run.calls))
      BY <3>2, <3>4, <3>5 DEF names
    <3> QED
      BY <2>3, <3>6, ProgressTalks
  <2> QED
    BY <2>4, <2>5
<1>4. ASSUME NEW a \in asks, ToolRuns(a)
      PROVE  Conversations'
  <2> DEFINE calls == a.run.calls
             names == NamesOf(calls)
             run == Handled(a.run)
             m == Message("tool", a.run.of, <<Head(calls).tool>>)
  <2>1. calls \in Seq(Parts) /\ calls # <<>> /\ a.run.of \in Nat
    BY <1>4 DEF Types, AskTypes, AskOK, RunOK, ToolRuns, Handling
  <2>2. Goes(a.run.messages, names) /\ Progress(a, run)
    BY <1>4 DEF Conversations, ToolRuns, Handling
  <2>3. /\ names \in Seq(Names) /\ names # <<>> /\ Head(calls).tool \in Names
        /\ Head(names) = Head(calls).tool /\ Tail(names) = NamesOf(Tail(calls))
    BY <2>1, NamesFacts
  <2>4. m \in Messages /\ m.role = "tool" /\ m.calls = <<Head(names)>>
    BY <2>1, <2>3 DEF Message, Messages
  <2>5. run.messages = a.run.messages \o <<m>> /\ run.calls = Tail(calls)
    BY DEF Handled, Result
  <2>6. a.run.messages \o <<m>> = Append(a.run.messages, m)
    <3>1. a.run.messages \in Seq(Messages)
      BY <2>2 DEF Goes
    <3> HIDE DEF m
    <3> QED
      BY <2>4, <3>1
  <2> HIDE DEF m, run, names, calls
  <2>7. Goes(Append(a.run.messages, m), Tail(names))
    BY <2>2, <2>3, <2>4, ResultGiven
  <2>8. Goes(run.messages, NamesOf(run.calls))
    BY <2>3, <2>5, <2>6, <2>7
  <2> QED
    BY <2>2, <2>8, ProgressTalks
<1>5. CASE HostReceives
  <2>1. UNCHANGED host /\ \A b \in asks' : b \in asks \/ b.at = "key"
    BY <1>5 DEF HostReceives, ask, apply
  <2> QED
    BY <2>1 DEF Conversations
<1>6. CASE Applies
  <2>1. asks' = asks /\ host'.history = host.history
    <3>1. PICK t \in applies : FileRead(t) \/ Written(t) \/ WriteFails(t) \/ PickCancelled(t) \/ \E u \in Uris : Picked(t, u)
      BY <1>6 DEF Applies
    <3>2. UNCHANGED asks /\ (UNCHANGED host \/ host' = [host EXCEPT !.activeUri = t.uri])
      BY <3>1 DEF FileRead, Written, WriteFails, PickCancelled, Picked
    <3>3. PICK u, p, hi : host = [activeUri |-> u, proposals |-> p, history |-> hi]
      BY DEF Types, HostTypes
    <3> QED
      BY <3>2, <3>3
  <2> QED
    BY <2>1 DEF Conversations
<1>7. CASE \/ submit \/ (\E i \in 1..Len(view.cards) : clickApply(i)) \/ (\E s \in Settings : clickSave(s))
          \/ ViewReceives \/ Saves \/ UNCHANGED vars
  <2>1. UNCHANGED <<host, asks>>
    BY <1>7, SavesEffect DEF submit, clickApply, clickSave, ViewReceives, Saves, vars, hostVars,
                             ConfigUpdated, KeyStored
  <2> QED
    BY <2>1 DEF Conversations
<1> QED
  BY <1>1, <1>2, <1>3, <1>4, <1>5, <1>6, <1>7 DEF Next, AskGoesOn

--------------------------------------------------------------------------------
(* Nothing is under way at first. *)
LEMMA InitOK ==
    ASSUME Init
    PROVE  IInv
<1>1. /\ host = [activeUri |-> None, proposals |-> <<>>, history |-> <<>>]
      /\ view = [thinking |-> FALSE, cards |-> <<>>, waiting |-> {}]
      /\ asks = {} /\ applies = {} /\ saves = <<>> /\ toHost = <<>> /\ toView = <<>>
      /\ settings = [local |-> FALSE, key |-> FALSE] /\ disk = OnDisk
      /\ used = [asks |-> 0, failures |-> 0, applies |-> 0, saves |-> 0]
  BY DEF Init, NoHost, NoView
<1>2. \A S : <<>> \in Seq(S) /\ Len(<<>>) = 0 /\ 1..0 = {}
  OBVIOUS
<1>3. Types
  <2>1. HostTypes /\ AskTypes /\ ApplyTypes
    BY <1>1 DEF HostTypes, AskTypes, ApplyTypes
  <2>2. SaveTypes /\ QueueTypes
    BY <1>1 DEF SaveTypes, QueueTypes
  <2>3. ViewTypes
    BY <1>1 DEF ViewTypes
  <2> QED
    BY <1>1, <2>1, <2>2, <2>3, FilesAssumption DEF Types
<1>4. /\ Asked = {} /\ Clicks = {} /\ Replies = {} /\ Dots = {} /\ Releases = {} /\ Deliveries = {}
      /\ Making = {}
  BY <1>1, <1>2 DEF Asked, Clicks, Replies, Dots, Releases, Deliveries, Making
<1>5. Questions
  BY <1>1, <1>4 DEF Questions, WaitedFor, AskedAbout, HandledNow, RepliedTo, AsksDiffer,
                    HandlersDiffer, RepliesDiffer, DotsEnd
<1>6. view.cards = <<>> /\ Len(view.cards) = 0 /\ 1..Len(view.cards) = {}
  BY <1>1, <1>2
<1>7. CardsShow /\ OneCard
  BY <1>4, <1>6 DEF CardsShow, OneCard, Distinct, Indices
<1>8. Buttons
  BY <1>1, <1>4, <1>6 DEF Buttons, ButtonsWait, Pressed, ClickedOn, InWork, Released, ClicksDiffer,
                          AppliesDiffer, ReleasesDiffer
<1> QED
  BY <1>1, <1>3, <1>5, <1>7, <1>8, NoMessages DEF IInv, Conversations

(* No step breaks any part of the invariant. *)
LEMMA IInvStep ==
    ASSUME IInv, [Next]_vars
    PROVE  IInv'
BY TypesStep, QuestionsStep, CardsStep, ButtonsStep, ConversationsStep DEF IInv

(* The strengthened invariant of the panel and its webview. *)
THEOREM IInvHolds == Spec => []IInv
<1>1. Init => IInv
  BY InitOK
<1>2. IInv /\ [Next]_vars => IInv'
  BY IInvStep
<1> QED
  BY <1>1, <1>2, PTL DEF Spec

(* An apply that waits is for a card that is shown, with its button        *)
(* pressed, and that shows the proposal the panel will write.              *)
LEMMA WaitingIsShown ==
    ASSUME IInv, NEW t \in applies
    PROVE  \E i \in 1..Len(view.cards) :
              /\ view.cards[i].button = "applying" /\ view.cards[i].index = t.index
              /\ t.index \in 1..Len(host.proposals) /\ view.cards[i].yaml = host.proposals[t.index]
<1>1. t.index \in Pressed
  BY DEF IInv, Buttons, ButtonsWait, InWork
<1>2. PICK i \in 1..Len(view.cards) : view.cards[i].button = "applying" /\ view.cards[i].index = t.index
  BY <1>1 DEF Pressed
<1>3. Shows(host.proposals, view.cards[i])
  BY DEF IInv, CardsShow
<1> QED
  BY <1>2, <1>3 DEF Shows

(* Every field has its kind, whatever conversations overlap: a handler     *)
(* that waits for an index waits for one that the panel knows.             *)
THEOREM TypeCorrect == Spec => []TypeOK
<1>1. IInv => TypeOK
  <2> SUFFICES ASSUME IInv
               PROVE  TypeOK
    OBVIOUS
  <2>1. Types /\ Questions
    BY DEF IInv
  <2>2. host.activeUri \in Uris \union {None} /\ settings \in [local : BOOLEAN, key : BOOLEAN]
    BY <2>1 DEF Types, HostTypes, SaveTypes
  <2>3. ToSet(host.proposals) \subseteq Manifests
    <3>1. host.proposals \in Seq(Proposals)
      BY <2>1 DEF Types, HostTypes
    <3>2. \A i \in DOMAIN host.proposals : host.proposals[i] \in Proposals
      BY <3>1
    <3> QED
      BY <3>2 DEF ToSet, Proposals
  <2>4. \A a \in asks : a.at \in {"key", "note", "agent", "yaml"} /\ a.of \in view.waiting
    BY <2>1 DEF Types, AskTypes, AskOK, Questions, WaitedFor, HandledNow
  <2>5. \A a, b \in asks : a.of = b.of => a = b
    BY <2>1 DEF Questions, HandlersDiffer
  <2>6. \A t \in applies : t.at \in {"dialog", "read", "write"} /\ t.index \in 1..Len(host.proposals)
    BY <2>1, WaitingIsShown DEF Types, ApplyTypes
  <2>7. view.thinking \in BOOLEAN /\ view.waiting \subseteq 1..used.asks
    BY <2>1 DEF Types, ViewTypes
  <2>8. \A c \in ToSet(view.cards) : c.button \in {"apply", "applying", "applied"}
    <3>1. view.cards \in Seq(Cards)
      BY <2>1 DEF Types, ViewTypes
    <3>2. \A i \in DOMAIN view.cards : view.cards[i] \in Cards
      BY <3>1
    <3> QED
      BY <3>2 DEF ToSet, Cards
  <2> QED
    BY <2>2, <2>3, <2>4, <2>5, <2>6, <2>7, <2>8 DEF TypeOK
<1> QED
  BY <1>1, IInvHolds, PTL

(* With nothing under way nothing seems to be, however many conversations  *)
(* and applies there were and however they ended: no dots, no Applying     *)
(* button, no question without a reply.                                    *)
THEOREM QuietScreenHolds == Spec => []QuietScreen
<1>1. IInv => QuietScreen
  <2> SUFFICES ASSUME IInv, asks = {}, applies = {}, toHost = <<>>, toView = <<>>
               PROVE  /\ ~view.thinking /\ view.waiting = {}
                      /\ \A c \in ToSet(view.cards) : c.button # "applying"
    BY DEF QuietScreen
  <2>1. Len(toHost) = 0 /\ Len(toView) = 0 /\ 1..0 = {}
    OBVIOUS
  <2>2. Asked = {} /\ Replies = {} /\ Clicks = {} /\ Releases = {}
    BY <2>1 DEF Asked, Replies, Clicks, Releases
  <2>3. view.waiting = {}
    BY <2>2 DEF IInv, Questions, WaitedFor, AskedAbout, HandledNow, RepliedTo
  <2>4. ~view.thinking
    BY <2>3 DEF IInv, Questions, DotsEnd
  <2>5. Pressed = {}
    BY <2>2 DEF IInv, Buttons, ButtonsWait, ClickedOn, InWork, Released
  <2>6. \A i \in 1..Len(view.cards) : view.cards[i].button # "applying"
    BY <2>5 DEF Pressed
  <2>7. DOMAIN view.cards = 1..Len(view.cards)
    BY DEF IInv, Types, ViewTypes
  <2> QED
    BY <2>3, <2>4, <2>6, <2>7 DEF ToSet
<1> QED
  BY <1>1, IInvHolds, PTL

(* Whatever any of the providers is sent is as it wants it: the roles      *)
(* alternate and every call is answered by what follows it, though         *)
(* conversations overlap, share one history and end at any time, turns     *)
(* call several tools, and tools fail or do not exist.                     *)
THEOREM RequestsInOrderHolds == Spec => []RequestsInOrder
<1>1. IInv => RequestsInOrder
  <2> SUFFICES ASSUME IInv, NEW a \in asks, a.at = "agent", Asking(a.run)
               PROVE  Acceptable(a.run.messages)
    BY DEF RequestsInOrder
  <2>1. Goes(a.run.messages, <<>>)
    BY NamesFacts DEF IInv, Conversations, Asking
  <2> QED
    BY <2>1, GoesIsAcceptable
<1> QED
  BY <1>1, IInvHolds, PTL

(* A file only ever gets a manifest that compiles and that a card shows    *)
(* whose Apply was clicked and not yet answered: a proposal's index stays  *)
(* valid even after later questions.                                       *)
THEOREM WrittenWasShownHolds == Spec => WrittenWasShown
<1> DEFINE Fits ==
               \A u \in Uris :
                  disk'[u] # disk[u] =>
                     /\ Valid(disk'[u])
                     /\ \E c \in ToSet(view.cards) : c.button = "applying" /\ c.yaml = disk'[u]
<1>1. IInv /\ [Next]_vars => [Fits]_vars
  <2> SUFFICES ASSUME IInv, [Next]_vars, NEW u \in Uris, disk'[u] # disk[u]
               PROVE  /\ Valid(disk'[u])
                      /\ \E c \in ToSet(view.cards) : c.button = "applying" /\ c.yaml = disk'[u]
    OBVIOUS
  <2>1. Types
    BY DEF IInv
  <2>2. Applies
    <3>1. submit \/ ViewReceives \/ Saves => UNCHANGED disk
      BY <2>1, SavesEffect DEF submit, ViewReceives
    <3>2. (\E i \in 1..Len(view.cards) : clickApply(i)) \/ (\E s \in Settings : clickSave(s)) =>
             UNCHANGED disk
      BY DEF clickApply, clickSave
    <3>3. HostReceives \/ (\E a \in asks : AskGoesOn(a)) => UNCHANGED disk
      BY <2>1, AskEffect DEF HostReceives
    <3> QED
      BY <3>1, <3>2, <3>3 DEF Next, vars
  <2>3. PICK t \in applies : disk' = [disk EXCEPT ![t.uri] = host.proposals[t.index]]
    BY <2>1, <2>2, ApplyEffect DEF Proceeds, WritesTo
  <2>4. PICK i \in 1..Len(view.cards) :
           /\ view.cards[i].button = "applying"
           /\ t.index \in 1..Len(host.proposals) /\ view.cards[i].yaml = host.proposals[t.index]
    BY WaitingIsShown
  <2>5. disk'[u] = host.proposals[t.index]
    BY <2>1, <2>3 DEF Types
  <2>6. Valid(host.proposals[t.index])
    <3>1. host.proposals[t.index] \in Proposals
      BY <2>1, <2>4 DEF Types, HostTypes
    <3> QED
      BY <3>1 DEF Proposals
  <2>7. view.cards[i] \in ToSet(view.cards)
    <3>1. DOMAIN view.cards = 1..Len(view.cards)
      BY <2>1 DEF Types, ViewTypes
    <3> QED
      BY <3>1 DEF ToSet
  <2> QED
    BY <2>4, <2>5, <2>6, <2>7
<1>2. Spec => [][Fits]_vars
  BY <1>1, IInvHolds, PTL DEF Spec
<1> QED
  BY <1>2 DEF WrittenWasShown
================================================================================
