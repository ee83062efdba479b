---------------------------- MODULE Application ----------------------------
(***************************************************************************)
(* The life of the application (application.cpp): the systems it starts    *)
(* once, those it starts again when it is reset, and the preferences, kept *)
(* in memory and written to a file from time to time.  The player changes  *)
(* them in the popup of the settings (settings_popup.cpp,                  *)
(* language_popup.cpp).  The file of the preferences is iscool's.          *)
(***************************************************************************)
EXTENDS Integers, Sequences

CONSTANTS Settings,        \* some of AllSettings
          Languages,       \* the languages of the list
          SystemLanguage,  \* the one of the device
          Translated,      \* the languages which have a file of translations
          English          \* the fallback

Mixed == {"music", "effects"} \cap Settings
Drawn == {"direction_pad_on_the_left", "direction_pad_kind_is_stick"}
           \cap Settings

\* Each one uses the ones before it, and is stopped before them.
PersistentSystems == <<"log", "display", "social", "haptic_feedback", "audio",
                       "frame_event", "root_scene">>
SessionSystems == <<"widgets", "styles", "main_scene", "inputs">>

VARIABLES
  systems,    \* the systems which are started, in this order
  launching,  \* m_launch_connection
  active,     \* the application is in the foreground
  memory,     \* the local preferences, or Unset
  disk,       \* preferences.json
  enabled,    \* what the mixer and the vibrator do
  stage,      \* of the main task: none, started, loaded, the screens exist
  language,   \* of the translations
  popup,      \* the popup above the others
  toggles,    \* for each setting m_is_on, m_display_dirty, what is drawn
  asked,      \* the language in the capture of m_message_connexion
  scripted    \* there is a script director

applicationVars == <<systems, launching, active, memory, disk, enabled, stage,
                     language, popup, toggles, asked, scripted>>

Unset == [set |-> FALSE]
NoPopup == "none"

Default(setting) == setting \notin Drawn

NewToggle == [on |-> FALSE, dirty |-> TRUE, drawn |-> FALSE]
NewToggles == [s \in Settings |-> NewToggle]

\* What is in the preferences before the first launch.
FirstPreferences == [set |-> TRUE, language |-> SystemLanguage,
                     values |-> [s \in Settings |-> Default(s)]]

ApplicationInit ==
  /\ systems = <<>>
  /\ launching = FALSE
  /\ active = TRUE
  /\ memory = Unset
  /\ disk = FirstPreferences
  /\ enabled = [s \in Settings \ Drawn |-> TRUE]
  /\ stage = "none"
  /\ language = English
  /\ popup = NoPopup
  /\ toggles = NewToggles
  /\ asked = English
  /\ scripted \in BOOLEAN

-----------------------------------------------------------------------------
(* Start and stop.                                                         *)

DidFinishLaunching ==
  /\ systems = <<>>
  /\ systems' = PersistentSystems \o SessionSystems
  /\ enabled' = [s \in Settings \ Drawn |-> TRUE]
  /\ launching' = TRUE
  /\ active' = TRUE
  /\ UNCHANGED <<memory, disk, stage, language, popup, toggles, asked,
                 scripted>>

\* The mixer is only told what is disabled.
AppliedPreferences(p) ==
  [s \in Settings \ Drawn |->
     IF s \in Mixed THEN enabled[s] /\ p.values[s] ELSE p.values[s]]

SetUpLocalPreferences == memory' = disk

\* launch_game starts the main task.
LaunchGame == stage' = "started"

CompleteLaunch ==
  /\ active
  /\ launching
  /\ launching' = FALSE
  /\ SetUpLocalPreferences
  /\ enabled' = AppliedPreferences(disk)
  /\ LaunchGame
  /\ UNCHANGED <<systems, active, disk, language, popup, toggles, asked,
                 scripted>>

TranslationOf(l) == IF l \in Translated THEN l ELSE English

LoadTranslations ==
  /\ active
  /\ stage = "started"
  /\ stage' = "loaded"
  /\ language' = TranslationOf(memory.language)
  /\ UNCHANGED <<systems, launching, active, memory, disk, enabled, popup,
                 toggles, asked, scripted>>

\* The screens are created with their popups.
CreateUI ==
  /\ active
  /\ stage = "loaded"
  /\ stage' = "screens"
  /\ popup' = NoPopup
  /\ toggles' = NewToggles
  /\ UNCHANGED <<systems, launching, active, memory, disk, enabled, language,
                 asked, scripted>>

\* The preferences are torn down without what changed since they were written.
TornDownUnwritten(prefs) == disk

\* tear_down_local_preferences, and what the file is then.
TornDown(prefs) == prefs

StopGame(prefs) ==
  /\ disk' = TornDown(prefs)
  /\ memory' = Unset
  /\ stage' = "none"
  /\ popup' = NoPopup

\* Everything but the persistent systems is destroyed, and the application is
\* launched again.  Nothing resets it before the end of the launch, when there
\* are no preferences to delete.
ResetWith(prefs) ==
  /\ StopGame(prefs)
  /\ systems' = SubSeq(systems, 1, Len(PersistentSystems)) \o SessionSystems
  /\ launching' = TRUE
  /\ UNCHANGED <<active, enabled, language, toggles, asked, scripted>>

Reset == active /\ memory # Unset /\ ResetWith(memory)

\* The window is closed, or the script is done: it ends after the launch.
CleanUp ==
  /\ active
  /\ memory # Unset
  /\ StopGame(memory)
  /\ systems' = <<>>
  /\ UNCHANGED <<launching, active, enabled, language, toggles, asked,
                 scripted>>

ScriptDone == scripted /\ CleanUp

\* The animations, and everything that is scheduled, are stopped meanwhile.
EnterBackground ==
  /\ active
  /\ systems # <<>>
  /\ active' = FALSE
  /\ disk' = (IF memory = Unset THEN disk ELSE memory)
  /\ UNCHANGED <<systems, launching, memory, enabled, stage, language, popup,
                 toggles, asked, scripted>>

EnterForeground ==
  /\ ~active
  /\ systems # <<>>
  /\ active' = TRUE
  /\ UNCHANGED <<systems, launching, memory, disk, enabled, stage, language,
                 popup, toggles, asked, scripted>>

\* The system ends the process.
Killed ==
  /\ systems # <<>>
  /\ systems' = <<>>
  /\ memory' = Unset
  /\ launching' = FALSE
  /\ stage' = "none"
  /\ popup' = NoPopup
  /\ UNCHANGED <<active, disk, enabled, language, toggles, asked, scripted>>

\* Every five minutes.
FlushLater ==
  /\ active
  /\ memory # Unset
  /\ disk' = memory
  /\ UNCHANGED <<systems, launching, active, memory, enabled, stage, language,
                 popup, toggles, asked, scripted>>

-----------------------------------------------------------------------------
(* The popup of the settings.                                              *)

untouched == <<systems, launching, active, disk, stage, language, scripted>>

\* A toggle is only drawn when it is displayed.
UpdateDisplay(toggle, running) ==
  IF running THEN [toggle EXCEPT !.dirty = FALSE, !.drawn = toggle.on]
             ELSE [toggle EXCEPT !.dirty = TRUE]

WithState(toggle, state, running) ==
  UpdateDisplay([toggle EXCEPT !.on = state], running)

\* onEnter
Entered(toggle) ==
  IF toggle.dirty THEN UpdateDisplay(toggle, TRUE) ELSE toggle

ShowSettings ==
  /\ active
  /\ stage = "screens"
  /\ popup = NoPopup
  /\ popup' = "settings"
  /\ toggles' = [s \in Settings |->
                   Entered(WithState(toggles[s], memory.values[s], FALSE))]
  /\ UNCHANGED <<untouched, memory, enabled, asked>>

SetPreference(s) ==
  LET v == ~memory.values[s] IN
    /\ active
    /\ popup = "settings"
    /\ memory' = [memory EXCEPT !.values[s] = v]
    /\ toggles' = [toggles EXCEPT ![s] = WithState(@, v, TRUE)]
    /\ enabled' = [d \in Settings \ Drawn |-> IF d = s THEN v ELSE enabled[d]]
    /\ UNCHANGED <<untouched, popup, asked>>

ShowLanguageSelection ==
  /\ active
  /\ popup = "settings"
  /\ popup' = "languages"
  /\ UNCHANGED <<untouched, memory, enabled, toggles, asked>>

\* The button of the current language is disabled.
Selectable(l) == l # memory.language

ConfirmLanguage(l) ==
  /\ active
  /\ popup = "languages"
  /\ Selectable(l)
  /\ asked' = l
  /\ popup' = "message"
  /\ UNCHANGED <<untouched, memory, enabled, toggles>>

\* The button "ok" of the message.
SwitchToLanguage ==
  /\ active
  /\ popup = "message"
  /\ ResetWith([memory EXCEPT !.language = asked])

\* The buttons "close" and "no" and the key "back".
Hide ==
  /\ active
  /\ popup # NoPopup
  /\ popup' = CASE popup = "message" -> "languages"
                [] popup = "languages" -> "settings"
                [] popup = "settings" -> NoPopup
  /\ UNCHANGED <<untouched, memory, enabled, toggles, asked>>

ApplicationNext ==
  \/ DidFinishLaunching \/ CompleteLaunch \/ LoadTranslations \/ CreateUI
  \/ Reset \/ CleanUp \/ ScriptDone
  \/ EnterBackground \/ EnterForeground \/ Killed \/ FlushLater
  \/ ShowSettings \/ \E s \in Settings : SetPreference(s)
  \/ ShowLanguageSelection \/ SwitchToLanguage \/ Hide
  \/ \E l \in Languages : ConfirmLanguage(l)

ApplicationSpec == ApplicationInit /\ [][ApplicationNext]_applicationVars

-----------------------------------------------------------------------------

\* The mixer and the vibrator live longer than the preferences, which live
\* longer than the popup: nevertheless while the application runs the mixer and
\* the vibrator do what the preferences tell, the toggles show them, and the
\* texts are in the language they name, whatever was set, written, reset or
\* lost in between.  The system may end the process without a warning once it is
\* in the background: nothing the player has set is lost then.
SettingsAreApplied ==
  /\ stage # "none" =>
       \A s \in Settings \ Drawn : enabled[s] = memory.values[s]
  /\ stage \in {"loaded", "screens"} =>
       language = TranslationOf(memory.language)
  /\ popup # NoPopup =>
       \A s \in Settings : toggles[s].drawn = memory.values[s]
  /\ ~active /\ memory # Unset => disk = memory

=============================================================================
