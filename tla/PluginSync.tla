----------------------------- MODULE PluginSync -----------------------------
(***************************************************************************)
(* plugin sync (plugin.ts, auto-wire.ts): the plugins found in the project *)
(* are written to its manifest, into a section of CLAUDE.md between two    *)
(* markers, and their hooks into .claude/settings.json. The user edits     *)
(* the files and the set of plugins meanwhile, any call may fail, a file   *)
(* may be cut short, and the process may die.                              *)
(***************************************************************************)
EXTENDS Integers, SequencesExt

CONSTANTS
  SkillOf, HookOf,  \* the plugins that declare a skill, and a hook
  MaxSyncEdits,     \* bound: the edits of the user
  MaxPage           \* bound: the pieces of CLAUDE.md a sync still starts with

\* A manifest that cannot be parsed.
TornManifest == {"torn"}
AllPlugins == SkillOf \cup HookOf
ASSUME SyncAssumption ==
  {MaxSyncEdits, MaxPage} \subseteq Nat /\ "torn" \notin AllPlugins

VARIABLES
  present,    \* the plugins in .javi-forge/plugins
  listed,     \* the plugins of the manifest, or torn
  page,       \* CLAUDE.md: pieces of text, markers and sections
  settings,   \* settings.json: its state, the user's keys, the plugin hooks
  syncStep,   \* where the command is
  detected,   \* the plugins it found
  pageRead, settingsRead,  \* what it read
  wireErrors, \* the wirings that threw, which the result leaves out
  told,       \* what the result says is wired
  userEdits,  \* the edits so far
  written,    \* history: the edits that wrote something
  lost        \* history: those of them a sync was free to drop

syncVars == <<present, listed, page, settings, syncStep, detected, pageRead,
              settingsRead, wireErrors, told, userEdits, written, lost>>
userVars == <<present, userEdits, written>>
localVars == <<detected, pageRead, settingsRead, wireErrors, told>>

\* A text is known by the edit that wrote it, a key of the settings too.
Piece(k, edit, of) == [kind |-> k, edit |-> edit, of |-> of]
UserText(n) == Piece("text", n, {})
Marker(k) == Piece(k, 0, {})
Section(ps) == <<Marker("start"), Piece("body", 0, ps), Marker("end")>>
\* settings.json parses, or not; "odd" parses and makes the wiring throw (null,
\* a plugin-hooks that is no list), and an array drops the hooks when written.
SettingsFile(state, keys, hooks) ==
  [state |-> state, keys |-> keys, hooks |-> hooks]
NoSettings == SettingsFile("absent", {}, {})
TornSettings == SettingsFile("broken", {}, {})
NothingTold == [page |-> FALSE, hooks |-> {}]

Texts(s) == {x.edit : x \in {y \in Range(s) : y.kind = "text"}}
FirstOf(k, s) == SelectInSeq(s, LAMBDA x : x.kind = k)
\* Slip: everything after the section goes with it.
SlipCleaned(s) ==
  IF FirstOf("start", s) = 0 \/ FirstOf("end", s) = 0 THEN s
  ELSE SubSeq(s, 1, FirstOf("start", s) - 1)
\* From the first start marker to the first end marker; a file that has one of
\* them only is left as it is.
Cleaned(s) ==
  IF FirstOf("start", s) = 0 \/ FirstOf("end", s) = 0 THEN s
  ELSE SubSeq(s, 1, FirstOf("start", s) - 1)
         \o SubSeq(s, FirstOf("end", s) + 1, Len(s))
\* The text between the two: the user's, but in the program's section.
Inside(s) ==
  {s[i].edit : i \in {j \in DOMAIN s : /\ FirstOf("start", s) # 0
                                      /\ FirstOf("start", s) < j
                                      /\ j < FirstOf("end", s)
                                      /\ s[j].kind = "text"}}

-----------------------------------------------------------------------------
(***************************************************************************)
(* syncPlugins and autoWirePlugins.                                        *)
(***************************************************************************)

\* The corrupt entries of the directory are skipped. The manifest is written
\* when it changes; one that cannot be read or written ends the command before
\* anything is wired, and a write cut short leaves one that cannot be parsed.
Detect ==
  /\ syncStep = "idle" /\ Len(page) <= MaxPage /\ listed # TornManifest
  /\ detected' = present /\ listed' = present
  /\ syncStep' = "detected"
  /\ UNCHANGED <<userVars, page, settings, pageRead, settingsRead,
                 wireErrors, told, lost>>
DetectFails ==
  /\ syncStep = "idle"
  /\ \/ UNCHANGED listed
     \/ listed # present /\ listed' = TornManifest
  /\ UNCHANGED <<userVars, localVars, page, settings, syncStep, lost>>

\* A wiring that throws is noted, and the next one begins.
PageDone == syncStep' = "wired" /\ pageRead' = <<>>
PageFails == PageDone /\ wireErrors' = wireErrors \cup {"page"}
ReadPage ==
  /\ syncStep = "detected"
  /\ \/ pageRead' = page /\ syncStep' = "page" /\ UNCHANGED wireErrors
     \/ PageFails
  /\ UNCHANGED <<userVars, listed, page, settings, detected,
                 settingsRead, told, lost>>

\* The section is taken out and a new one goes to the end.
Wanted == detected \cap SkillOf
Synced(s) == Cleaned(s) \o (IF Wanted # {} THEN Section(Wanted) ELSE <<>>)
NewPage == Synced(pageRead)
\* The file is not opened, cannot be opened, or is emptied to be written.
WirePage ==
  /\ syncStep = "page"
  /\ \/ /\ Wanted = {} /\ Cleaned(pageRead) = pageRead
        /\ PageDone
        /\ UNCHANGED <<page, lost, wireErrors>>
     \/ /\ Wanted # {} \/ Cleaned(pageRead) # pageRead
        /\ \/ PageFails /\ UNCHANGED <<page, lost>>
           \/ /\ page' = <<>> /\ syncStep' = "filling"
              /\ lost' = lost \cup (Texts(page) \ Texts(pageRead))
                              \cup Inside(pageRead)
              /\ UNCHANGED <<pageRead, wireErrors>>
  /\ UNCHANGED <<userVars, listed, settings, detected, settingsRead, told>>
\* The first pieces of the new page reach the file, all of them or not; what
\* the user put into the emptied file is overwritten.
Filled(n) ==
  /\ page' = SubSeq(NewPage, 1, n)
  /\ lost' = lost \cup Texts(page) \cup (Texts(NewPage) \ Texts(page'))
FillPage ==
  /\ syncStep = "filling"
  /\ \/ /\ page' = NewPage /\ lost' = lost \cup (Texts(page) \ Texts(NewPage))
        /\ told' = [told EXCEPT !.page = Wanted # {}]
        /\ PageDone /\ UNCHANGED wireErrors
     \/ /\ \E n \in 0..(Len(NewPage) - 1) : Filled(n)
        /\ PageFails /\ UNCHANGED told
  /\ UNCHANGED <<userVars, listed, settings, detected, settingsRead>>

\* Settings that cannot be read or parsed count as empty; without a hook to
\* wire they are not opened at all.
WiredHooks == detected \cap HookOf
ReadSettings ==
  /\ syncStep = "wired" /\ WiredHooks # {}
  /\ settingsRead' \in
       {NoSettings} \cup (IF settings.state = "broken" THEN {} ELSE {settings})
  /\ syncStep' = "settings"
  /\ UNCHANGED <<userVars, listed, page, settings, detected, pageRead,
                 wireErrors, told, lost>>
\* Slip: the hooks of the plugins that went stay.
SlipNewSettings ==
  IF settingsRead.state = "array" THEN settingsRead
  ELSE [settingsRead EXCEPT !.state = "ok", !.hooks = @ \cup WiredHooks]
NewSettings ==
  IF settingsRead.state = "array" THEN settingsRead
  ELSE [settingsRead EXCEPT !.state = "ok", !.hooks = WiredHooks]
SettingsFail ==
  wireErrors' = wireErrors \cup {"settings"} /\ syncStep' = "finished"
WireSettings ==
  /\ syncStep = "settings"
  /\ \/ /\ settingsRead.state = "odd" /\ SettingsFail
        /\ UNCHANGED <<settings, lost>>
     \/ /\ settingsRead.state # "odd" /\ settingsRead.hooks = WiredHooks
        /\ syncStep' = "finished"
        /\ UNCHANGED <<settings, lost, wireErrors>>
     \/ /\ settingsRead.state # "odd" /\ settingsRead.hooks # WiredHooks
        /\ \/ SettingsFail /\ UNCHANGED <<settings, lost>>
           \/ /\ settings' = TornSettings /\ syncStep' = "saving"
              /\ lost' = lost \cup (settings.keys \ settingsRead.keys)
              /\ UNCHANGED wireErrors
  /\ UNCHANGED <<userVars, listed, page, detected, pageRead,
                 settingsRead, told>>
Unsaved == lost \cup settings.keys \cup settingsRead.keys
SaveSettings ==
  /\ syncStep = "saving"
  /\ \/ /\ settings' = NewSettings
        /\ lost' = lost \cup (settings.keys \ NewSettings.keys)
        /\ told' = [told EXCEPT !.hooks = WiredHooks \ settingsRead.hooks]
        /\ syncStep' = "finished" /\ UNCHANGED wireErrors
     \/ /\ settings' = TornSettings /\ lost' = Unsaved
        /\ SettingsFail /\ UNCHANGED told
  /\ UNCHANGED <<userVars, listed, page, detected, pageRead,
                 settingsRead>>

\* The process is over and its variables with it.
Over == /\ syncStep' = "idle" /\ detected' = {} /\ pageRead' = <<>>
        /\ settingsRead' = NoSettings /\ wireErrors' = {} /\ told' = NothingTold
\* The result has what was wired and not what threw: the command says done.
SyncFinish ==
  /\ syncStep = "finished" \/ (syncStep = "wired" /\ WiredHooks = {})
  /\ Over
  /\ UNCHANGED <<userVars, listed, page, settings, lost>>
\* Killed anywhere, with a file cut short if it was being written.
SyncDies ==
  /\ syncStep # "idle"
  /\ \/ /\ syncStep = "filling"
        /\ \E n \in 0..(Len(NewPage) - 1) : Filled(n)
        /\ UNCHANGED settings
     \/ /\ syncStep = "saving"
        /\ settings' = TornSettings /\ lost' = Unsaved
        /\ UNCHANGED page
     \/ /\ syncStep \notin {"filling", "saving"}
        /\ UNCHANGED <<page, settings, lost>>
  /\ Over
  /\ UNCHANGED <<userVars, listed>>

-----------------------------------------------------------------------------

\* The user adds or removes a plugin, writes anywhere in CLAUDE.md, cuts a
\* marker out of it, writes a key into the settings and leaves them parsable or
\* not, or removes a torn manifest.
EditAnything ==
  /\ userEdits < MaxSyncEdits
  /\ userEdits' = userEdits + 1
  /\ \/ /\ \E p \in AllPlugins :
             present' = IF p \in present THEN present \ {p}
                        ELSE present \cup {p}
        /\ UNCHANGED <<listed, page, settings, written>>
     \/ /\ \E i \in 1..(Len(page) + 1) :
             page' = InsertAt(page, i, UserText(userEdits'))
        /\ written' = written \cup {userEdits'}
        /\ UNCHANGED <<present, listed, settings>>
     \/ /\ \E i \in DOMAIN page :
             /\ page[i].kind \in {"start", "end"}
             /\ page' = RemoveAt(page, i)
        /\ UNCHANGED <<present, listed, settings, written>>
     \/ /\ \E s \in {"ok", "broken"} :
             settings' = SettingsFile(s, settings.keys \cup {userEdits'},
                                      settings.hooks)
        /\ written' = written \cup {userEdits'}
        /\ UNCHANGED <<present, listed, page>>
     \/ /\ listed = TornManifest /\ listed' = {}
        /\ UNCHANGED <<present, page, settings, written>>
  /\ UNCHANGED <<syncStep, localVars, lost>>

SyncNext == Detect \/ DetectFails \/ ReadPage \/ WirePage \/ FillPage
            \/ ReadSettings \/ WireSettings \/ SaveSettings \/ SyncFinish
            \/ SyncDies \/ EditAnything

SyncInit ==
  /\ listed = {} /\ page = <<>> /\ syncStep = "idle" /\ detected = {}
  /\ pageRead = <<>> /\ settingsRead = NoSettings /\ wireErrors = {}
  /\ told = NothingTold /\ userEdits = 0 /\ lost = {}
  /\ written = settings.keys
SyncStart ==
  /\ present \in SUBSET AllPlugins
  /\ settings \in {NoSettings} \cup
       {SettingsFile(s, {0}, {}) : s \in {"ok", "broken", "odd", "array"}}
  /\ SyncInit
SyncSpec == SyncStart /\ [][SyncNext]_syncVars

\* What the user wrote into CLAUDE.md or settings.json is in it whenever no
\* file is being rewritten, whichever call failed and wherever a sync died, but
\* for: text between the first start marker and the first end marker; what was
\* written after a sync read the file and before it rewrote it; what a write
\* that was cut short did not reach; and the keys of settings that could not be
\* read or parsed (auto-wire.ts:175-198, 242-288, 299-313).
TextStays ==
  syncStep \notin {"filling", "saving"} =>
    written \ lost \subseteq Texts(page) \cup settings.keys

\* A sync of plugins with hooks whose settings wiring did not throw leaves
\* exactly their hooks wired, unless settings.json is an array, which drops
\* them when it is written (auto-wire.ts:228-291).
HooksFollowPlugins ==
  (/\ syncStep = "finished" /\ "settings" \notin wireErrors
   /\ settingsRead.state # "array")
    => settings.hooks = WiredHooks

\* What the result of a sync says is wired is in the files, although it does
\* not say what threw (auto-wire.ts:61-92, plugin.ts:541-551): the list of the
\* plugins found and, but for an array, the new hooks.
ToldIsWired ==
  (syncStep \in {"wired", "settings", "finished"}) =>
    /\ told.page => Piece("body", 0, Wanted) \in Range(page)
    /\ settingsRead.state # "array" => told.hooks \subseteq settings.hooks

\* A second sync of the same plugins does not make longer the page a first one
\* has just written: "re-running produces the same result" (auto-wire.ts:19).
SyncDoesNotGrow ==
  [][(syncStep = "filling" /\ syncStep' = "wired" /\ wireErrors' = wireErrors)
       => Len(Synced(page')) <= Len(page')]_syncVars

\* A sync loses nothing of the user's but in the windows named, wires the hooks
\* of the plugins when its wiring does not throw, and tells no wiring that is
\* not there.
SyncKeeps == TextStays /\ HooksFollowPlugins /\ ToldIsWired
=============================================================================
