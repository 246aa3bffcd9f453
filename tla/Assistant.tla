------------------------------- MODULE Assistant -------------------------------
(***************************************************************************)
(* The chat panel of the IDE: its part in the extension host               *)
(* (apps/ide/src/panels/assistantPanel.ts), its webview                    *)
(* (media/assistant.js), the settings and the manifest files.  Agent says  *)
(* what one conversation does, Designer what the other panel does with the *)
(* proposals that are opened there.                                        *)
(*                                                                         *)
(* Nothing keeps the developer from asking while an answer is under way,   *)
(* so that several conversations run at once; each waits for the key, for  *)
(* the device in context, for the provider and the tools, and for the      *)
(* device again.                                                           *)
(***************************************************************************)
EXTENDS Agent

CONSTANTS
    Uris,           \* the manifest files there can be
    OnDisk,         \* what each of them holds at first, None for no file
    Completions,    \* bound: the parts a provider may answer with, calls and texts
    Settings,       \* what may be saved in the settings sheet
    MaxAsks,        \* bound: questions
    MaxFailures,    \* bound: writes that fail
    MaxApplies,     \* bound: clicks on Apply
    MaxSaves,       \* bound: times the settings are saved
    None

ASSUME FilesAssumption == DOMAIN OnDisk = Uris
ASSUME CompletionsAssumption == \A parts \in Completions : parts \in Seq(ToSet(parts))
ASSUME BoundsAssumption ==
    MaxAsks \in Nat /\ MaxFailures \in Nat /\ MaxApplies \in Nat /\ MaxSaves \in Nat
ASSUME SettingsAssumption == Settings \subseteq [local : BOOLEAN, key : BOOLEAN]

VARIABLES
    host,        \* activeUri, proposals and history of the panel
    asks,        \* its ask handlers that wait
    applies,     \* its apply handlers that wait
    saves,       \* its saveSettings handlers that wait
    settings,    \* a local base URL is configured; there is a key
    toHost, toView,
    view,        \* the transcript and its buttons
    disk,        \* the files
    used         \* the numbers of questions, failures, clicks and saves so far

hostVars == <<host, asks, applies, saves, settings>>
vars == <<hostVars, toHost, toView, view, disk, used>>

NoHost == [activeUri |-> None, proposals |-> <<>>, history |-> <<>>]
NoView == [thinking |-> FALSE, cards |-> <<>>, waiting |-> {}]   \* waiting: history, questions without a reply

Init ==
    /\ host = NoHost /\ view = NoView
    /\ asks = {} /\ applies = {} /\ saves = <<>>
    /\ settings = [local |-> FALSE, key |-> FALSE]
    /\ toHost = <<>> /\ toView = <<>>
    /\ disk = OnDisk
    /\ used = [asks |-> 0, failures |-> 0, applies |-> 0, saves |-> 0]

--------------------------------------------------------------------------------
(* The webview. *)
submit ==
    /\ used.asks < MaxAsks
    /\ used' = [used EXCEPT !.asks = @ + 1]
    /\ view' = [view EXCEPT !.thinking = TRUE, !.waiting = @ \union {used.asks + 1}]
    /\ toHost' = Append(toHost, [type |-> "ask", of |-> used.asks + 1])
    /\ UNCHANGED <<hostVars, toView, disk>>

Clicked(button) == "applying"

clickApply(i) ==
    /\ view.cards[i].button = "apply"
    /\ used.applies < MaxApplies /\ used' = [used EXCEPT !.applies = @ + 1]
    /\ view' = [view EXCEPT !.cards[i].button = Clicked(@)]
    /\ toHost' = Append(toHost, [type |-> "apply", index |-> view.cards[i].index])
    /\ UNCHANGED <<hostVars, toView, disk>>

clickSave(s) ==
    /\ used.saves < MaxSaves
    /\ used' = [used EXCEPT !.saves = @ + 1]
    /\ toHost' = Append(toHost, [type |-> "saveSettings", settings |-> s])
    /\ UNCHANGED <<hostVars, toView, view, disk>>

(* The buttons that carry an index. *)
Labelled(index, label) ==
    [i \in 1..Len(view.cards) |->
        IF view.cards[i].index = index THEN [view.cards[i] EXCEPT !.button = label] ELSE view.cards[i]]

Replied(m, cards) ==
    [thinking |-> FALSE, cards |-> view.cards \o cards, waiting |-> view.waiting \ {m.of}]

ViewReceives ==
    /\ toView # <<>>
    /\ toView' = Tail(toView)
    /\ LET m == Head(toView) IN
       view' = CASE m.type = "thinking" -> [view EXCEPT !.thinking = TRUE]
                 [] m.type = "answer" -> Replied(m, m.cards)
                 [] m.type \in {"error", "needKey"} -> Replied(m, <<>>)
                 [] m.type = "applied" -> [view EXCEPT !.cards = Labelled(m.index, "applied")]
                 [] m.type \in {"applyCancelled", "applyError"} -> [view EXCEPT !.cards = Labelled(m.index, "apply")]
    /\ UNCHANGED <<hostVars, toHost, disk, used>>

--------------------------------------------------------------------------------
(* The message handler of the host. *)
Post(m) == toView' = Append(toView, m)
Reply(type, n) == [type |-> type, of |-> n]

(* The configuration is read at once, then the key is waited for. *)
ask(n) ==
    /\ asks' = asks \union {[of |-> n, at |-> "key", local |-> settings.local, first |-> 0,
                             run |-> StartRun(<<>>, n)]}
    /\ UNCHANGED <<host, applies, saves, toView>>

(* The panel's own file, or the one in the active editor. *)
deviceUri(editor) == IF host.activeUri # None THEN host.activeUri ELSE editor

(* The file of the device in the designer comes first. *)
targetUri(live, editor) == IF live # None THEN live ELSE deviceUri(editor)

apply(index) ==
    \E live \in Uris \union {None}, editor \in Uris \union {None} :
        LET target == targetUri(live, editor) IN
        /\ applies' = applies \union
               {[index |-> index, at |-> IF target = None THEN "dialog" ELSE "read", uri |-> target]}
        /\ UNCHANGED <<host, asks, saves, toView>>

HostReceives ==
    /\ toHost # <<>>
    /\ toHost' = Tail(toHost)
    /\ LET m == Head(toHost) IN
       \/ m.type = "ask" /\ ask(m.of)
       \/ m.type = "apply" /\ apply(m.index)
       \/ /\ m.type = "saveSettings"
          /\ saves' = Append(saves, [at |-> "config", settings |-> m.settings])
          /\ UNCHANGED <<host, asks, applies, toView>>
    /\ UNCHANGED <<settings, view, disk, used>>

--------------------------------------------------------------------------------
(* One ask, from await to await. *)
Step(a, b) == asks' = (asks \ {a}) \union {b}
Leave(a) == asks' = asks \ {a}
At(a, at, run, first) == [of |-> a.of, at |-> at, local |-> a.local, first |-> first, run |-> run]

KeyRead(a) ==
    /\ a.at = "key"
    /\ IF settings.key \/ a.local
       THEN Step(a, At(a, "note", a.run, a.first)) /\ UNCHANGED toView
       ELSE Leave(a) /\ Post(Reply("needKey", a.of))
    /\ UNCHANGED <<host, applies, saves, settings, toHost, view, disk, used>>

(* The device in context is known; the conversation begins. *)
NoteRead(a) ==
    /\ a.at = "note"
    /\ Step(a, At(a, "agent", StartRun(host.history, a.of), a.first))
    /\ Post(Reply("thinking", a.of))
    /\ UNCHANGED <<host, applies, saves, settings, toHost, view, disk, used>>

(* The conversation ended: it is remembered, its proposals are kept, and   *)
(* the device is read again for the diffs.                                 *)
Progress(a, run) ==
    IF ~run.ended THEN Step(a, At(a, "agent", run, a.first)) /\ UNCHANGED host
    ELSE /\ host' = [host EXCEPT !.history = @ \o <<Question(a.of), Answer(a.of)>>,
                                 !.proposals = @ \o run.proposals]
         /\ Step(a, At(a, "yaml", run, Len(host.proposals) + 1))

ProviderAnswers(a, parts) ==
    /\ a.at = "agent" /\ Asking(a.run)
    /\ Progress(a, Completed(a.run, parseToolCalls(parts)))
    /\ UNCHANGED <<applies, saves, settings, toHost, toView, view, disk, used>>

ToolRuns(a) ==
    /\ a.at = "agent" /\ Handling(a.run)
    /\ Progress(a, Handled(a.run))
    /\ UNCHANGED <<applies, saves, settings, toHost, toView, view, disk, used>>

(* Mutant: a provider that fails is not reported. *)
Failed_Silent(a) == toView

Failed(a) == Append(toView, Reply("error", a.of))

ProviderFails(a) ==
    /\ a.at = "agent" /\ Asking(a.run)
    /\ Leave(a) /\ toView' = Failed(a)
    /\ UNCHANGED <<host, applies, saves, settings, toHost, view, disk, used>>

(* Mutant: the indices are taken after the device was read. *)
CardIndex_Late(a, i) == Len(host.proposals) - Len(a.run.proposals) + i

(* Mutant: counted from the wrong end. *)
CardIndex_OffByOne(a, i) == a.first + i

CardIndex(a, i) == a.first + i - 1

YamlRead(a) ==
    /\ a.at = "yaml"
    /\ Leave(a)
    /\ Post([type |-> "answer", of |-> a.of,
             cards |-> [i \in 1..Len(a.run.proposals) |->
                           [index |-> CardIndex(a, i), yaml |-> a.run.proposals[i], button |-> "apply"]]])
    /\ UNCHANGED <<host, applies, saves, settings, toHost, view, disk, used>>

--------------------------------------------------------------------------------
(* One apply: a location, the file to merge into, the write. *)
Picked(t, u) ==
    /\ t.at = "dialog"
    /\ applies' = (applies \ {t}) \union {[t EXCEPT !.at = "read", !.uri = u]}
    /\ UNCHANGED <<host, asks, saves, settings, toHost, toView, view, disk, used>>

(* Mutant: a dialog that is dismissed is not reported. *)
Dismissed_Silent(t) == toView

Dismissed(t) == Append(toView, [type |-> "applyCancelled", index |-> t.index])

PickCancelled(t) ==
    /\ t.at = "dialog"
    /\ applies' = applies \ {t}
    /\ toView' = Dismissed(t)
    /\ UNCHANGED <<host, asks, saves, settings, toHost, view, disk, used>>

(* Only comments are taken from the file: its values are the proposal's. *)
FileRead(t) ==
    /\ t.at = "read"
    /\ applies' = (applies \ {t}) \union {[t EXCEPT !.at = "write"]}
    /\ UNCHANGED <<host, asks, saves, settings, toHost, toView, view, disk, used>>

Written(t) ==
    /\ t.at = "write"
    /\ applies' = applies \ {t}
    /\ disk' = [disk EXCEPT ![t.uri] = host.proposals[t.index]]
    /\ host' = [host EXCEPT !.activeUri = t.uri]
    /\ Post([type |-> "applied", index |-> t.index])
    /\ UNCHANGED <<asks, saves, settings, toHost, view, used>>

WriteFails(t) ==
    /\ t.at = "write" /\ used.failures < MaxFailures
    /\ used' = [used EXCEPT !.failures = @ + 1]
    /\ applies' = applies \ {t}
    /\ Post([type |-> "applyError", index |-> t.index])
    /\ UNCHANGED <<host, asks, saves, settings, toHost, view, disk>>

(* One saveSettings: the configuration, then the key. *)
ConfigUpdated(i) ==
    /\ saves[i].at = "config"
    /\ saves' = [saves EXCEPT ![i].at = "key"]
    /\ settings' = [settings EXCEPT !.local = saves[i].settings.local]
    /\ UNCHANGED <<host, asks, applies, toHost, toView, view, disk, used>>

KeyStored(i) ==
    /\ saves[i].at = "key"
    /\ saves' = RemoveAt(saves, i)
    /\ settings' = [settings EXCEPT !.key = saves[i].settings.key]
    /\ UNCHANGED <<host, asks, applies, toHost, toView, view, disk, used>>

--------------------------------------------------------------------------------
AskGoesOn(a) ==
    \/ KeyRead(a) \/ NoteRead(a) \/ ToolRuns(a) \/ YamlRead(a) \/ ProviderFails(a)
    \/ \E parts \in Completions : ProviderAnswers(a, parts)

Applies ==
    \E t \in applies :
        FileRead(t) \/ Written(t) \/ WriteFails(t) \/ PickCancelled(t) \/ \E u \in Uris : Picked(t, u)

Saves == \E i \in 1..Len(saves) : ConfigUpdated(i) \/ KeyStored(i)

Next ==
    \/ submit \/ (\E i \in 1..Len(view.cards) : clickApply(i)) \/ (\E s \in Settings : clickSave(s))
    \/ ViewReceives \/ HostReceives
    \/ (\E a \in asks : AskGoesOn(a)) \/ Applies \/ Saves

Spec == Init /\ [][Next]_vars

(* Messages arrive, whatever is waited for comes or fails. *)
FairSpec ==
    /\ Spec
    /\ WF_vars(ViewReceives) /\ WF_vars(HostReceives)
    /\ \A n \in 1..MaxAsks : WF_vars(\E a \in asks : a.of = n /\ AskGoesOn(a))

--------------------------------------------------------------------------------
Manifests == UNION {{parts[i].arg : i \in {j \in 1..Len(parts) : parts[j].tool = "propose_device"}} : parts \in Completions}

(* Every field has its kind; a handler that waits for an index waits for   *)
(* one that the panel knows, and a question has at most one handler.       *)
TypeOK ==
    /\ host.activeUri \in Uris \union {None}
    /\ ToSet(host.proposals) \subseteq Manifests
    /\ settings \in [local : BOOLEAN, key : BOOLEAN]
    /\ \A a \in asks : a.at \in {"key", "note", "agent", "yaml"} /\ a.of \in view.waiting
    /\ \A a, b \in asks : a.of = b.of => a = b
    /\ \A t \in applies : t.at \in {"dialog", "read", "write"} /\ t.index \in 1..Len(host.proposals)
    /\ view.thinking \in BOOLEAN /\ view.waiting \subseteq 1..used.asks
    /\ \A c \in ToSet(view.cards) : c.button \in {"apply", "applying", "applied"}

(* "A proposal's index stays valid even after later questions"             *)
(* (assistantPanel.ts 37-38): whatever conversations end in between, a     *)
(* file only ever gets a manifest of a card whose Apply was clicked and    *)
(* not yet answered, and one that compiles.                                *)
WrittenWasShown ==
    [][\A u \in Uris :
          disk'[u] # disk[u] =>
              /\ Valid(disk'[u])
              /\ \E c \in ToSet(view.cards) : c.button = "applying" /\ c.yaml = disk'[u]]_vars

(* "The Messages API expects roles to alternate" (anthropic.ts 3-4), and   *)
(* every call to be answered by what follows it, as do Gemini and the Chat *)
(* Completions format in their own shapes: what any of the providers is    *)
(* sent does, though conversations overlap, share one history and end at   *)
(* any time, a turn calls several tools, and tools fail or do not exist.   *)
RequestsInOrder ==
    \A a \in asks :
        a.at = "agent" /\ Asking(a.run) => Acceptable(a.run.messages)

(* With nothing under way nothing seems to be: no dots, no Applying button *)
(* (assistantPanel.ts 256-257), no question without a reply.               *)
QuietScreen ==
    asks = {} /\ applies = {} /\ toHost = <<>> /\ toView = <<>> =>
        /\ ~view.thinking /\ view.waiting = {}
        /\ \A c \in ToSet(view.cards) : c.button # "applying"

(* Every question gets an answer or an error: a conversation cannot go on  *)
(* for ever, and no failure is swallowed.                                  *)
AsksAnswered == \A n \in 1..MaxAsks : n \in view.waiting ~> n \notin view.waiting
================================================================================
