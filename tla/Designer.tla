-------------------------------- MODULE Designer --------------------------------
(***************************************************************************)
(* The visual designer of the IDE: the panel in the extension host         *)
(* (apps/ide/src/panels/studioPanel.ts), its webview (media/studio.js),    *)
(* the files it reads and writes, and the two ways in: a file, or a        *)
(* manifest proposed by the assistant.  The twin is in TwinSession.        *)
(*                                                                         *)
(* The host and the webview are single threaded and talk over two FIFO     *)
(* queues.  A handler of the host that waits for the file system or for a  *)
(* dialog leaves a task behind; other messages are handled meanwhile.      *)
(*                                                                         *)
(* The developer types whenever no dialog is open, but looks before every  *)
(* click: clicks and commands wait until the last of them is done and the  *)
(* last edit is compiled (Settled).                                        *)
(***************************************************************************)
EXTENDS Manifest

CONSTANTS
    Uris,         \* the manifest files there can be
    OnDisk,       \* what each of them holds at first, None for no file
    Forms,        \* bound: the forms in use
    Texts,        \* what may be typed into a text field
    Numbers,      \* what may be typed into a number field
    ModeLists,    \* what a list of modes is parsed into
    Tiles,        \* tiles of the creation screen: template ids and "__blank__"
    Proposals,    \* manifests the assistant may open in the designer
    Outside,      \* manifests written by others: a text editor, the assistant
    MaxQueue,     \* bound: with so many messages under way no edit is posted
    None

ASSUME FilesAssumption == OnDisk = [u \in Uris |-> OnDisk[u]]
ASSUME QueueAssumption == MaxQueue \in Nat
ASSUME NoneAssumption == None \notin Uris \union Proposals
ASSUME ManifestsAssumption ==
    \A m \in Proposals \union Outside \union ({OnDisk[u] : u \in Uris} \ {None}) : IsManifest(m)
ASSUME FormsAssumption == \A f \in Forms : IsForm(f)
ASSUME TilesAssumption == Tiles \subseteq {"__blank__"} \union DOMAIN DEVICE_TEMPLATES

VARIABLES
    panel,        \* StudioPanel.current: closed, loading its script, or open
    host,         \* the fields of the panel
    tasks,        \* its handlers that wait, oldest first
    toHost, toView,
    view,         \* the state of the webview
    timer,        \* applyTimer is running
    disk,         \* the files
    editor,       \* the YAML file in the active text editor
    stale,        \* history: files written by others since the designer read them
    wanted        \* history: the creation screen was asked for and not answered

hostVars == <<host, tasks, toView>>
fileVars == <<disk, stale>>
vars == <<panel, hostVars, toHost, view, timer, fileVars, editor, wanted>>

--------------------------------------------------------------------------------
NoHost ==
    [activeUri |-> None, override |-> None, currentForm |-> None, pendingWizard |-> FALSE,
     created |-> FALSE]   \* history: the device was created here and has no file yet

NoView ==
    [form |-> emptyForm, hasDevice |-> FALSE, saved |-> FALSE, dirty |-> FALSE,
     lastValid |-> FALSE, wizard |-> FALSE, source |-> None]

NoText == [formToManifest(emptyForm) EXCEPT !.yaml = FALSE]

Init ==
    /\ panel = "closed"
    /\ host = NoHost /\ view = NoView
    /\ tasks = <<>> /\ toHost = <<>> /\ toView = <<>>
    /\ timer = FALSE
    /\ disk = OnDisk
    /\ editor = None
    /\ stale = {}
    /\ wanted = FALSE

Dialog == \E i \in 1..Len(tasks) : tasks[i].kind = "dialog"
Quiet == tasks = <<>> /\ toHost = <<>> /\ toView = <<>>
Settled == Quiet /\ ~timer

--------------------------------------------------------------------------------
(* The messages of the host.  A valid manifest is all that the webview     *)
(* keeps of a compilation.                                                 *)
InitMsg(h, m, source, hasDevice) ==
    [type |-> "init", source |-> source, hasDevice |-> hasDevice,
     saved |-> h.activeUri # None, form |-> manifestToForm(m), valid |-> Valid(m)]
UpdateMsg(saved, form) ==
    [type |-> "update", saved |-> saved, valid |-> Valid(formToManifest(form))]
SavedMsg(u) == [type |-> "saved", source |-> u]
OpenWizard == [type |-> "openWizard"]
OpenWizardIf(wizard) == IF wizard THEN <<OpenWizard>> ELSE <<>>

(* The end of sendInit: the manifest that was found is shown. *)
Show(h, m, source, hasDevice, wizard) ==
    /\ host' = [h EXCEPT !.currentForm = manifestToForm(m), !.created = FALSE]
    /\ toView' = toView \o <<InitMsg(h, m, source, hasDevice)>> \o OpenWizardIf(wizard)

(* currentManifest: a proposal, the file (to be read), what the active     *)
(* editor shows, or nothing.                                               *)
SendInit(h, wizard) ==
    \/ /\ h.override # None
       /\ Show(h, h.override, None, TRUE, wizard)
       /\ UNCHANGED tasks
    \/ /\ h.override = None /\ h.activeUri # None
       /\ tasks' = Append(tasks, [kind |-> "init", uri |-> h.activeUri, wizard |-> wizard])
       /\ host' = h
       /\ UNCHANGED toView
    \/ /\ h.override = None /\ h.activeUri = None /\ editor # None
       /\ Show(h, disk[editor], editor, TRUE, wizard)
       /\ UNCHANGED tasks
    \/ /\ h.override = None /\ h.activeUri = None /\ editor = None
       /\ Show(h, NoText, None, FALSE, wizard)
       /\ UNCHANGED tasks

(* The file was read. *)
InitRead(i) ==
    /\ tasks[i].kind = "init"
    /\ tasks' = RemoveAt(tasks, i)
    /\ Show(host, disk[tasks[i].uri], tasks[i].uri, TRUE, tasks[i].wizard)
    /\ stale' = stale \ {tasks[i].uri}
    /\ UNCHANGED <<panel, toHost, view, timer, disk, editor, wanted>>

--------------------------------------------------------------------------------
(* The commands of extension.ts, and the assistant's "Open in Designer".   *)
Opened(h, u) == [h EXCEPT !.activeUri = u, !.override = None]

EnsurePanel == panel' = IF panel = "closed" THEN "loading" ELSE panel

OpenFile(u) ==
    /\ Settled /\ disk[u] # None
    /\ EnsurePanel
    /\ SendInit(Opened(host, u), FALSE)
    /\ wanted' = FALSE
    /\ UNCHANGED <<toHost, view, timer, fileVars, editor>>

OpenDesigner ==
    /\ Settled
    /\ EnsurePanel
    /\ SendInit(host, FALSE)
    /\ wanted' = FALSE
    /\ UNCHANGED <<toHost, view, timer, fileVars, editor>>

showManifest(m, u) ==
    /\ Settled
    /\ EnsurePanel
    /\ SendInit([host EXCEPT !.override = m, !.activeUri = IF u = None THEN @ ELSE u], FALSE)
    /\ wanted' = FALSE
    /\ UNCHANGED <<toHost, view, timer, fileVars, editor>>

(* Mutant: the existing panel is initialised again after the wizard. *)
NewDeviceMessages_Init == <<OpenWizard, InitMsg(host, OnDisk[CHOOSE u \in Uris : TRUE], None, TRUE)>>

NewDeviceMessages == <<OpenWizard>>

newDevice ==
    /\ Settled
    /\ wanted' = TRUE
    /\ EnsurePanel
    /\ IF panel = "closed"
       THEN SendInit([host EXCEPT !.pendingWizard = TRUE], FALSE)
       ELSE toView' = toView \o NewDeviceMessages /\ UNCHANGED <<host, tasks>>
    /\ UNCHANGED <<toHost, view, timer, fileVars, editor>>

(* The script of the webview starts; what was posted before may be lost.   *)
Load ==
    /\ panel = "loading"
    /\ panel' = "open"
    /\ toView' \in {toView, <<>>}
    /\ toHost' = <<[type |-> "ready"]>>
    /\ view' = NoView
    /\ UNCHANGED <<host, tasks, timer, fileVars, editor, wanted>>

Close ==
    /\ panel = "open" /\ Settled
    /\ panel' = "closed"
    /\ host' = NoHost /\ view' = NoView
    /\ wanted' = FALSE
    /\ UNCHANGED <<tasks, toHost, toView, timer, fileVars, editor>>

--------------------------------------------------------------------------------
(* The inspector: the forms one input event makes of a form. *)
SetField(c, field, value) == [c EXCEPT ![field] = value]

NewCapability(key, kind) ==
    IF kind = "sensor" THEN [key |-> key, kind |-> kind, unit |-> "", min |-> {}, max |-> {}]
    ELSE [key |-> key, kind |-> kind, modes |-> <<>>]

EditedCapability(c) ==
    {SetField(c, "key", t) : t \in Texts}
    \union (IF c.kind = "sensor"
            THEN {SetField(c, "unit", t) : t \in Texts}
                 \union {SetField(c, end, n) : end \in {"min", "max"}, n \in {{}} \union {{k} : k \in Numbers}}
            ELSE {SetField(c, "modes", modes) : modes \in ModeLists})
    \union {NewCapability(c.key, kind) : kind \in {"sensor", "actuator"} \ {c.kind}}

Toggled(f) ==
    {[f EXCEPT !.encryption = ~@],
     [f EXCEPT !.battery = [enabled |-> ~@.enabled, rechargeable |-> ~@.enabled]]}
    \union IF f.battery.enabled THEN {[f EXCEPT !.battery.rechargeable = ~@]} ELSE {}

ToggledProtocol(f, p) ==
    [f EXCEPT !.protocols = IF p \in ToSet(@) THEN Remove(@, p) ELSE Append(@, p)]

Edited(f) ==
    {[f EXCEPT ![field] = t] : field \in {"name", "category", "manufacturer"}, t \in Texts}
    \union Toggled(f)
    \union {ToggledProtocol(f, p) : p \in KNOWN_PROTOCOLS}
    \union {[f EXCEPT !.capabilities = Append(@, NewCapability("", kind))] : kind \in {"sensor", "actuator"}}
    \union {[f EXCEPT !.capabilities = RemoveAt(@, i)] : i \in 1..Len(f.capabilities)}
    \union UNION {{[f EXCEPT !.capabilities[i] = c] : c \in EditedCapability(f.capabilities[i])} :
                     i \in 1..Len(f.capabilities)}

Edit(f) ==
    /\ panel = "open" /\ ~Dialog
    /\ view.hasDevice /\ ~view.wizard
    /\ f \in Edited(view.form)
    /\ view' = [view EXCEPT !.form = f, !.dirty = TRUE]
    /\ timer' = TRUE
    /\ UNCHANGED <<panel, hostVars, toHost, fileVars, editor, wanted>>

TimerFires ==
    /\ timer
    /\ Len(toHost \o toView) < MaxQueue
    /\ timer' = FALSE
    /\ toHost' = Append(toHost, [type |-> "applyForm", form |-> view.form])
    /\ UNCHANGED <<panel, hostVars, view, fileVars, editor, wanted>>

--------------------------------------------------------------------------------
(* Clicks in the webview. *)
(* Mutant: Save is offered for a form with errors. *)
SaveOffered_Always == ~view.saved \/ view.dirty

SaveOffered == view.lastValid /\ (~view.saved \/ view.dirty)
(* Mutant: Generate is offered while there are unsaved edits. *)
GenerateOffered_Dirty == view.lastValid /\ view.saved

GenerateOffered == view.lastValid /\ view.saved /\ ~view.dirty

doAction(act) ==
    /\ panel = "open" /\ Settled /\ ~view.wizard
    /\ IF act = "saveForm" THEN SaveOffered ELSE GenerateOffered
    /\ toHost' = Append(toHost, [type |-> act, form |-> view.form])
    /\ UNCHANGED <<panel, hostVars, view, timer, fileVars, editor, wanted>>

TileForm(tile) == IF tile = "__blank__" THEN emptyForm ELSE DEVICE_TEMPLATES[tile]

createFromForm(tile) ==
    /\ panel = "open" /\ Settled /\ view.wizard
    /\ view' = [view EXCEPT !.form = TileForm(tile), !.hasDevice = TRUE, !.wizard = FALSE]
    /\ toHost' = Append(toHost, [type |-> "createDevice", form |-> TileForm(tile)])
    /\ wanted' = FALSE
    /\ UNCHANGED <<panel, hostVars, timer, fileVars, editor>>

closeWizard ==
    /\ panel = "open" /\ Settled /\ view.wizard /\ view.hasDevice
    /\ view' = [view EXCEPT !.wizard = FALSE]
    /\ wanted' = FALSE
    /\ UNCHANGED <<panel, hostVars, toHost, timer, fileVars, editor>>

(* The message listener of the webview. *)
OnInit(v, m) ==
    [form |-> m.form, hasDevice |-> m.hasDevice, saved |-> m.saved, dirty |-> FALSE,
     lastValid |-> m.valid, wizard |-> ~m.hasDevice, source |-> m.source]

(* Mutant: the file that was saved is not read back. *)
AfterSaved_Nothing == <<>>

AfterSaved == <<[type |-> "refresh"]>>

ViewReceives ==
    /\ panel = "open" /\ toView # <<>>
    /\ toView' = Tail(toView)
    /\ LET m == Head(toView) IN
       \/ m.type = "init" /\ view' = OnInit(view, m) /\ UNCHANGED toHost
       \/ /\ m.type = "update"
          /\ view' = [view EXCEPT !.saved = m.saved, !.lastValid = m.valid]
          /\ UNCHANGED toHost
       \/ /\ m.type = "saved"
          /\ view' = [view EXCEPT !.source = m.source, !.saved = TRUE, !.dirty = FALSE]
          /\ toHost' = toHost \o AfterSaved
       \/ m.type = "openWizard" /\ view' = [view EXCEPT !.wizard = TRUE] /\ UNCHANGED toHost
    /\ UNCHANGED <<panel, host, tasks, timer, fileVars, editor, wanted>>

--------------------------------------------------------------------------------
(* The message handler of the host. *)
saveTarget == IF host.activeUri # None THEN host.activeUri ELSE editor

applyForm(form) ==
    /\ host' = [host EXCEPT !.currentForm = form]
    /\ toView' = Append(toView, UpdateMsg(host.activeUri # None, form))
    /\ UNCHANGED tasks

createDevice(form) ==
    /\ host' = [host EXCEPT !.activeUri = None, !.override = None, !.currentForm = form,
                            !.created = TRUE]
    /\ toView' = Append(toView, UpdateMsg(FALSE, form))
    /\ UNCHANGED tasks

Task(kind, then, form, u) == [kind |-> kind, then |-> then, form |-> form, uri |-> u]

(* Mutant: nobody is asked for the location of a new device. *)
Begin_NoPrompt(then, form) ==
    /\ UNCHANGED <<host, toView>>
    /\ tasks' = Append(tasks, Task(IF then = "saveForm" THEN "write" ELSE "emit", then, form, saveTarget))

(* saveForm writes to the target it finds or is given; a generation or a   *)
(* scaffold of a form with errors is refused, and one of a device that has *)
(* a target goes straight on to its files.                                 *)
Begin(then, form) ==
    /\ UNCHANGED <<host, toView>>
    /\ IF then # "saveForm" /\ ~Valid(formToManifest(form)) THEN UNCHANGED tasks
       ELSE tasks' = Append(tasks,
               IF saveTarget = None THEN Task("dialog", then, form, None)
               ELSE Task(IF then = "saveForm" THEN "write" ELSE "emit", then, form, saveTarget))

HostReceives ==
    /\ panel = "open" /\ toHost # <<>>
    /\ toHost' = Tail(toHost)
    /\ LET m == Head(toHost) IN
       \/ m.type = "ready" /\ SendInit([host EXCEPT !.pendingWizard = FALSE], host.pendingWizard)
       \/ m.type = "refresh" /\ SendInit(host, FALSE)
       \/ m.type = "applyForm" /\ applyForm(m.form)
       \/ m.type = "createDevice" /\ createDevice(m.form)
       \/ m.type \in {"saveForm", "generate", "scaffold"} /\ Begin(m.type, m.form)
    /\ UNCHANGED <<panel, view, timer, fileVars, editor, wanted>>

(* The save dialog is answered or cancelled. *)
Picked(i, u) ==
    /\ tasks[i].kind = "dialog"
    /\ tasks' = [tasks EXCEPT ![i] = Task("write", @.then, @.form, u)]
    /\ host' = [host EXCEPT !.created = FALSE]
    /\ UNCHANGED <<panel, toView, toHost, view, timer, fileVars, editor, wanted>>

PickCancelled(i) ==
    /\ tasks[i].kind = "dialog"
    /\ tasks' = RemoveAt(tasks, i)
    /\ UNCHANGED <<panel, host, toView, toHost, view, timer, fileVars, editor, wanted>>

(* The manifest is written; then the device is this file's. *)
Written(i) ==
    /\ tasks[i].kind = "write"
    /\ LET t == tasks[i] IN
       /\ disk' = [disk EXCEPT ![t.uri] = formToManifest(t.form)]
       /\ stale' = stale \ {t.uri}
       /\ host' = [host EXCEPT !.activeUri = t.uri, !.override = None, !.currentForm = t.form]
       /\ toView' = Append(toView, SavedMsg(t.uri))
       /\ tasks' = IF t.then = "saveForm" THEN RemoveAt(tasks, i)
                   ELSE [tasks EXCEPT ![i].kind = "emit"]
    /\ UNCHANGED <<panel, toHost, view, timer, editor, wanted>>

WriteFails(i) ==
    /\ tasks[i].kind \in {"write", "emit"}
    /\ tasks' = RemoveAt(tasks, i)
    /\ UNCHANGED <<panel, host, toView, toHost, view, timer, fileVars, editor, wanted>>

(* generated/ is written over, of the starter firmware what is missing,    *)
(* from the form of the click; neither is read again.                      *)
Emitted(i) ==
    /\ tasks[i].kind = "emit"
    /\ tasks' = RemoveAt(tasks, i)
    /\ UNCHANGED <<panel, host, toView, toHost, view, timer, fileVars, editor, wanted>>

--------------------------------------------------------------------------------
(* Others write a file while the designer is at rest; the developer turns  *)
(* to another text editor.                                                 *)
OutsideWrite(u, m) ==
    /\ Settled /\ disk[u] # m
    /\ disk' = [disk EXCEPT ![u] = m]
    /\ stale' = stale \union {u}
    /\ UNCHANGED <<panel, hostVars, toHost, view, timer, editor, wanted>>

ActivateEditor(u) ==
    /\ Settled /\ editor # u /\ (u # None => disk[u] # None)
    /\ editor' = u
    /\ UNCHANGED <<panel, hostVars, toHost, view, timer, fileVars, wanted>>

Next ==
    \/ \E u \in Uris : OpenFile(u) \/ \E m \in Outside : OutsideWrite(u, m)
    \/ \E u \in Uris \union {None} : ActivateEditor(u) \/ \E m \in Proposals : showManifest(m, u)
    \/ OpenDesigner \/ newDevice \/ Load \/ Close
    \/ (\E f \in Forms : Edit(f)) \/ TimerFires
    \/ \E act \in {"saveForm", "generate", "scaffold"} : doAction(act)
    \/ (\E tile \in Tiles : createFromForm(tile)) \/ closeWizard
    \/ ViewReceives \/ HostReceives
    \/ \E i \in 1..Len(tasks) :
          \/ InitRead(i) \/ PickCancelled(i) \/ Written(i) \/ WriteFails(i) \/ Emitted(i)
          \/ \E u \in Uris : Picked(i, u)

Spec == Init /\ [][Next]_vars

--------------------------------------------------------------------------------
MessageTypes == {"ready", "refresh", "applyForm", "createDevice", "saveForm", "generate", "scaffold"}

(* Every field has its kind; a panel that is closed has neither state nor  *)
(* messages; a waiting write or emission knows its file.                   *)
TypeOK ==
    /\ panel \in {"closed", "loading", "open"}
    /\ host.activeUri \in Uris \union {None}
    /\ host.override \in Proposals \union {None}
    /\ \A m \in ToSet(toHost) : m.type \in MessageTypes
    /\ \A t \in ToSet(tasks) :
          /\ t.kind \in {"init", "dialog", "write", "emit"}
          /\ t.kind # "dialog" => t.uri \in Uris
          /\ t.kind = "emit" => t.then \in {"generate", "scaffold"}
    /\ panel = "closed" => host = NoHost /\ view = NoView /\ Settled
    /\ {timer, view.hasDevice, view.saved, view.dirty, view.lastValid, view.wizard, wanted} \subseteq BOOLEAN
    /\ editor \in Uris \union {None} /\ stale \subseteq Uris

Editing == panel = "open" /\ Settled /\ ~view.wizard

(* "A live chip shows whether the manifest on disk is current" (studio.js  *)
(* 206-207): once everything posted is handled, a designer that says Saved *)
(* shows what its file says, whatever was typed, saved, created, opened or *)
(* refreshed before and in whatever order the host's reads and writes      *)
(* ended; unless somebody else has written the file since, or the manifest *)
(* shown is a proposal.                                                    *)
ChipTellsDisk ==
    Editing /\ view.saved /\ ~view.dirty /\ host.override = None /\ host.activeUri \notin stale =>
        /\ view.source = host.activeUri
        /\ view.form = manifestToForm(disk[host.activeUri])

(* The creation screen that a command asked for is there once everything   *)
(* posted is handled: no init hides it (studioPanel.ts 165-168).           *)
WizardStays == panel = "open" /\ Settled /\ wanted => view.wizard

(* Save is not offered for a form with errors (renderActions): not after   *)
(* an edit, once everything posted is handled, nor for a manifest that is  *)
(* shown as it came, unless all its protocols were unknown to the designer *)
(* or an edit of what was shown before was compiled after it.              *)
OnlyValidOffered ==
    Editing /\ SaveOffered
    /\ (view.dirty \/ (view.form = host.currentForm /\ view.form.protocols # <<>>)) =>
        Valid(formToManifest(view.form))

(* Artifacts and starter firmware are of the device that its file holds,   *)
(* not of edits that are not saved (renderActions, ensureSaved); unless    *)
(* somebody else has written the file or a proposal is shown.              *)
EmittedIsSaved ==
    \A t \in ToSet(tasks) :
        t.kind = "emit" /\ host.override = None /\ t.uri \notin stale =>
            manifestToForm(formToManifest(t.form)) = manifestToForm(disk[t.uri])

(* "The next save prompts for a location because there is no target file   *)
(* yet" (studioPanel.ts 231-232): a device created here is not on its way  *)
(* to a file that nobody picked.                                           *)
NewDeviceNeedsLocation ==
    host.created => \A t \in ToSet(tasks) : t.kind # "write"
================================================================================
