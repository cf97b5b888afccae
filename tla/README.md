# Formal specification of y2skk

y2skk is a Japanese input method in the SKK style.  A daemon keeps one input
engine per input context and is reached over D-Bus by adapters for GTK, Qt, XIM
and Wayland.  This directory specifies the parts of it where the order of events
matters, checks them with TLC and proves the main invariants with TLAPS.

    tlc -config engine_convert.cfg MCEngine.tla     # and the other .cfg files
    tlapm EngineSafety.tla                          # and the other modules of proofs

## 1. Inventory

| Part | State | Operations | What is hard about it | Status |
|---|---|---|---|---|
| SKK engine (`skk-core/src/engine.rs`) | phase, pending romaji, registration stack, completion, conversion trigger, raw flag | one key press (`process_key`) dispatched to nine handlers | eleven phases times nested registrations; several fields that must change together; unchecked indexes and slices; what an empty answer means to an adapter | modelled |
| Kana table (`kana/table.rs`) | rules | `transition`, `okuri_key` | precedence of exact and wildcard rules, retry | modelled; its parser is not |
| Reconnecting client (`skk-ipc/src/proxy/reconnect.rs`) | proxy, handle table, failure state, each under its mutex; monitor thread | `create_handle`, `destroy_handle`, `process_key`, `monitor_loop` | two threads, calls that time out but still run, daemon crashes and restarts | modelled |
| Daemon sessions (`skk-daemon/src/session.rs`, `dbus.rs`) | `sessions`, `next_id`, dictionaries, configuration | `create_session`, `destroy_session`, `process_key`, `reload`, `flush_user_dict` | ids restart with the process; reload while sessions type | sessions, and reload of the user dictionary, modelled |
| Dictionaries (`skk-core/src/dict`) | ordered user entries, dirty flag, file | `lookup`, `learn`, `purge`, `complete`, `save`, `load` | recency order, ignore lists, a save that can fail or be cut short, a file that is ambiguous to read | modelled |
| Numeric conversion (`num/`), Lisp directives (`dict/lisp.rs`) | none | `scan`, `convert`, `expand_with_recursive_lookup`, `synthesize`; reading and writing of forms and literals | templates against runs of digits, ranges of numerals, escaping that must be undone exactly | modelled |
| Dispatch (`skk-ipc/src/dispatch.rs`) | none | applies an action list | which keys reach the application | modelled in `Engine` and `WaylandServer` |
| Wayland adapter (`adapter-wayland/src/server.rs`, `candidate_window.rs`) | pressed keys, running repeat, deferred release, active context, timer threads and their pipe, windows and their buffers | key, modifier, focus, configure and repeat events, turns of the main loop | repeat and auto-hide threads, made-up releases, focus churn, content drawn before a window is configured | partly: not the keymap tables, the text of the preedit, pixels, start-up |
| Configuration (`skk-config/src/lib.rs`) | none | defaults, `expand_tilde`, `validate`, search for the kana table | validated by two processes at different times | modelled |
| Settings (`y2skk-settings/src/lib.rs`, `qt6-settings/settings_window.cpp`) | form, `config.toml`, temporary file | load, edit, Apply: validate, read, write, rename, reload | writes that fail or are cut, a file edited meanwhile, keys that must survive | modelled |
| XIM, GTK, Qt adapters, indicator, build tasks | toolkit objects | callbacks | glue and drawing | not modelled |

How they interact.  An adapter's callback calls `process_key` of its
`ReconnectingClient`, which makes at most three D-Bus calls under the proxy's
mutex.  The daemon handles calls one at a time under a mutex around
`SessionManager`, which hands the key to the session's `SkkEngine`.  All engines
share the user dictionary.  The answer is a list of actions that `dispatch` applies
to the toolkit and from which it follows whether the application gets the key too.
The settings program writes `config.toml` and asks the daemon to reload it.

What makes each part correct:

* engine: it never panics; the two copies of the pending romaji agree; every
  candidate is offered and a chosen one is what was on the screen; a registration
  keeps everything from the application and from the outer registrations; what is
  composed is visible.
* client and sessions: a key is processed by an engine or given to the
  application, and by an engine at most once; ids never outlive the daemon that made
  them once its end was noticed; the UI thread always gets control back; a daemon
  that is back is used again.
* user dictionary: what was learned is found, most recent first, also after a save
  and a restart; what was purged is gone.
* conversion: a numeral says the number it came from; what is offered is what the
  entries mean for the numbers typed, ignored words left out; what was chosen comes
  first the next time; a line of the file is read back as it was written.
* Wayland adapter: a key repeats only while held, and one at a time; every forwarded
  press is followed by one release; a window shows what it takes itself to show, and
  indicators go away.
* settings: `config.toml` is always a whole document; a file that does not parse is
  not written over; what the user did not change stays; "applied" means it, unless
  somebody edits the file before the daemon answers.

`PROJECT.json` lists the components, and as *hazards* the lines where these can go
wrong with the properties that watch them.

## 2. Modules

| Module | Contents |
|---|---|
| `KanaTable` | how a rule of the conversion table is chosen, and `okuri_key` |
| `Engine` | `SkkEngine`: one action per branch of `handle_press`, one operator per block of a handler |
| `EngineProperties` | what the engine must guarantee, and a statement about purging that does not hold |
| `MCEngine` | key sets, a small kana table and dictionary answers for TLC |
| `EngineSafety` | proofs about the engine, handler by handler: types, no panic, the two copies of the romaji; then what a key does to screen, registrations, dictionary and application |
| `SessionManager` | the daemon's sessions and the calls on the bus |
| `ReconnectingClient` | the UI and monitor threads of each client, over `SessionManager` |
| `ReconnectProperties`, `MCReconnect` | their properties and instances |
| `ReconnectSafety` | proofs about clients and sessions |
| `Lists` | lists with members taken out, as `retain` does |
| `ListLemmas` | proofs about lists: induction over them, what taking out, joining and numbering keep |
| `WordStore` | abstract: words per entry, last used first, kept in a file |
| `UserDict` | `struct UserDict` with its file, and how the daemon saves, loads and reloads it |
| `UserDictProperties`, `MCUserDict` | what it must guarantee, the mapping to `WordStore`, instances |
| `UserDictSafety` | proofs about the user dictionary: types, recency, configuration; then about its file: the refinement of `WordStore`, nothing lost |
| `Numerals` | `num/`: numerals, templates and their expansion, as operators |
| `DictText` | `dict/lisp.rs` and the candidate fields of `dict/file.rs`, as operators on texts |
| `Lookup` | from a reading to candidates, what choosing and registering teaches, the lines of the file; over `Numerals` and `DictText` |
| `LookupProperties`, `MCLookup` | readers of the notations to judge them by, properties, instances |
| `LookupSafety` | proofs about lookup: lines read back, candidates as promised, the learned word first |
| `NumeralsSafety` | proofs about numerals: each one says its number, and there is one exactly in its range |
| `CandidateWindow` | one window of the Wayland adapter, as operators |
| `WaylandServer` | the adapter's event loop, its timer threads and the compositor around it |
| `WaylandProperties`, `MCWayland` | its properties and instances |
| `WaylandSafety` | proofs about the adapter: keys and threads, then windows and types |
| `Config` | fields, defaults, paths and `validate`, as operators |
| `Settings` | settings windows, `config.toml`, an editor and the daemon, step by step |
| `SettingsProperties`, `MCSettings` | their properties and instances |
| `SettingsSafety` | proofs about settings windows: types for any number, the rest for one |

Operators whose comment begins with *Mutant* are not used by any specification: each is
a plausible mistake, put in place of the operator after it to see that a property
notices.

### Engine

`eng` is `struct SkkEngine`: `phase` is a record per variant of `SkkPhase`, `stack`
the registration frames, `kana` the table's state, and `display`, `abbrev`,
`completion`, `trigger`, `raw` the fields of those meanings.  Texts are sequences of
glyphs; an ASCII letter, a kana or a converted word is one glyph.  A step is one key
press from `process_key` to the adapter's reaction: a handler returns the new engine
and its output (committed text, preedit, window, pass-through, dictionary call);
`Intercept` redirects that output into the innermost registration, as
`intercept_for_register` does; `Deliver` applies what is left to `ui` (what is shown)
and `sent` (what the application got), by the rules of `dispatch`.

Dictionary answers are arbitrary members of `Lookups`, numeric words of `Synths`,
completions of `Tails`: the dictionary is shared with other sessions and can change
between any two keys, so nothing more is known of it here; what it does answer is
`Lookup`.  `Fits` names the bounds (length of a reading, of an abbreviation, of
registration buffers, nesting).

Left out: wording of the preedit, cursor columns, annotations, Lisp words in
candidates, and the filter of the indicator when its timeout is 0 (the model keeps
the status action, as with the shipped configuration).

### Client and sessions

`made` and `engines` are the daemon's table; `made[id]` remembers for whom a session
was made and `engines[id]` whose keys it has processed.  `inbox[c]` and `reply[c]`
are the client's connection.  A call that timed out (`CallTimesOut`) leaves the
caller with an error, and the call where it was: it may still be processed.
`Crash` is the daemon's exit, `Start` its activation by the bus, `BusGivesUp` an
activation that fails.  For a client, `ui[c]` is the operation its UI thread is in
the middle of, `monitor[c]` the place in `monitor_loop`, `proxy[c]` the holder of
the mutex.  Every call is two steps (send, answer), so the other thread, the daemon
and the bus act in between.  `failure[c]` is `last_failure` with time reduced to
whether the cooldown is running (`recent`) or over (`old`); `newer[c]` says that a
failure was recorded while the monitor slept, which is all that the length of its
sleep decides.  `applied`, `passed` and `noticed` are history for the properties.

A key press stands for the whole `process_key` of the client; the engine's reaction
is not repeated here.  The table of handles is touched by the UI thread and by
`mark_failed`, which only the UI thread calls, so its mutex is not modelled.

### User dictionary

`dict` is `struct UserDict`; its `entries` are the `IndexMap` as a sequence of
headwords, oldest first, each with its candidates per okurigana.  A candidate is a
word or a directive that hides words.  `files[p]` is a file as its entry lines; a
line's headword and okurigana are one text (`raw`), so that `Split` has to take them
apart as `split_midashi_okuri` does, and `broken` says that it ends in something that
does not parse or is not UTF-8.  Every action that touches the dictionary holds the
mutex of the `SessionManager`: `task` is what its holder does next, so that `Learn`
or `Purge` (a key) is followed by the save of `process_key`, and `BeginReload` by the save
and the load of `reload`.  `Saved` is a save that works or has nothing to do;
`SaveFails` writes nothing or any part (`CutLines`); `Crash` may cut a write as well.
`ReadConfig` is the part of `reload_config` before its locks, `EditConfig` the settings
program.  A configuration is the dictionary sources, the path of the user dictionary and
the rest.  A missing file is a file without lines.  `latest` and `purged` are history.

The engine's side of it (which entry a key records) is in `Engine`; here a key learns
or purges any member of `Entry`.  The text of a line is the matter of `DictText`, and a
word here is one value; annotations are left out, as is a configuration that does not
validate (nothing changes then).

`WordStore` promises what a user sees: a learned word comes first and the others keep
their order, a purge takes one word, a save stores exactly the words in use, a load
brings back exactly what the file holds, and a file that cannot be read is left as it
is.  A cut write may lose words but not invent or move any.  The mapping reads a file
without the code's parser (`Stored`), so that the parser is judged by it.

### Lookup

`reading`, `offered` and `buffer` are what the user types, the candidates of the
selecting phase with the template each came from (`CandidateOrigin`), and the text of a
registration; `system` are the other dictionaries in their order of priority, `user` the
user's, `file` the texts of its lines.  `StartConversion` is the block of
`start_conversion` that gathers candidates (`Candidates`): all dictionaries under the
template of the reading, the union of the directives, expansion of each word
(`ExpandWithRecursiveLookup`, in which `#4` looks the run up again), removal of
duplicates, synthesized numerals.  `CommitCandidate` and `FinalizeRegister` learn, which
rewrites the line; `Stop`, `EditFile` and `Start` are a restart with an editor in
between.  Only entries without okurigana are looked at: okurigana changes the key of the
entry and nothing of what happens to its candidates.

A glyph is a digit, a character the file syntax reserves, or a name for any other; a
number is the sequence of its digits, so that 64 bits need no big integers, and
`Number` is None where `parse` fails.  A numeral's glyph is named after its script.
Octal escapes other than those of `/` and `;` are one glyph ("char"), as nothing writes
them.  `DictText` follows `read_string_literal` and `parse_string_list` glyph by glyph
with the state of the reader in a record.

`LookupProperties` reads the notations independently: kanji numerals by groups, Roman
numerals by subtraction, the words of an entry by what each marker may stand for
(`Meanings`).  The cap on `#4` cuts off combinations, not words: with `a` and `aa` known,
`#4#4` has four of them and reads as three words.  `FewEnough`, under which nothing may be
missing, therefore counts `Combinations`.

`Glyph` is whatever texts are made of; `LookupAssumption` asks that it holds what the
user types, what the syntax and the numerals write, and that the dictionaries at the start
are ones that could be read (`Readable`).  The instance takes all strings.  `NamesAssumption`
states facts about the names the model gives to numerals: they differ, and the name
of a circled number is its digits.

### Wayland adapter

`pressed`, `repeat`, `deadline`, `rate`, `seatSpoke`, `active`, `windows` and `timer` are
the fields `pressed_keys`, `repeat_active`, `pending_stop_release`, `repeat_rate`,
`seat_repeat_received`, the context, `candidate_windows` and `status_cancel`.  A thread
(`threads`, `timers`) sleeps, wakes with its cancel flag checked (`write`), and writes a
byte; one cancelled after the check still writes it (`last`).  `ticks` and `hide` are the
bytes in the pipe; a `Turn` of the main loop checks the deadline and empties the pipe,
and each tick it read is a step of its own (`RepeatTick`), before which no event is
handled.  Time is counted in units of `Unit` ms: the delay, the interval of ticks and the
grace before a deferred release are computed from the rates as the code does.

Every handler of an event is one action.  `OnPress` is `on_key` for a press: the engine's
answer is any of `Answers`, or none during an `outage`, and what it does to the windows
follows from the answer (`Dispatched`).  The compositor is external: `held` are the keys
down; `echo` are the releases it makes up after a commit, which the code's comments
describe, and which are made up for keys that are held.  `app` are the keys whose press
the application got and whose release it did not get yet; `stranded` those whose
release was lost in an outage or for want of a keymap; `listing` the engine's last word
on the list.  These three are history.

A window is a record: whether it is the overlay panel or a layer surface, whether it is
configured, the draw that waits for it (`pending`), what it takes its surface to show
(`state`) and what the surface does show, and which of its two buffers exist or cannot be
created.

### Settings

A configuration is a function from its fields to values, with paths as sequences so that
`expand_tilde` has something to do; `validate` looks at `disk`, the files that exist.  A
document is the text of the file: how each section is written (absent, a table, inline)
and which keys are in it; `Partial` is the beginning of one.  `window[w]` is a settings
process: its form, the JSON of the Apply under way (`asked`), the document to write
(`result`) and the name under which the open file is known (`fd`), which matters because
every window uses the same `config.toml.tmp`.  An Apply is its validation and five steps on
a worker thread (read, open, fill, rename, reload), between which the user goes on editing
the form, an editor replaces the file, tables and dictionaries come and go, the daemon
starts or stops, and the window may be killed.

The last step is a call, `calls[w]`: sent by `Rename`, loaded and validated by the daemon
before it takes its lock (`LoadCall`), taken over under the lock and answered (`Reload`, one
step), or refused, lost with the daemon, or timed out (`ReloadFails`).  A call that timed out
is not withdrawn: it moves to a slot of `Late`, and the daemon carries it out
(`LateReload`) or refuses it (`LateFails`) when the window has gone on or been closed.  The
daemon is one started without `--config`, as `dist/systemd` and `dist/dbus` do, so it loads
the file the window writes.

`touched`, `stale`, `read` and `overtaken` are history: what the user changed, whether the
file has changed under the form, what the Apply under way has read of it, and whether it
has changed since that Apply renamed.  `ThroughForm` is what the widgets do to a
configuration: spin boxes replace numbers that are no `int` by their default and clamp the
others, and empty lines, rows and paths go.  Texts have no blanks around them, which the
form would trim.

## 3. Runs

Passing runs:

* `engine_convert`: every phase outside registration, seventeen keys plus three
  with Ctrl and one with Shift.  Readings up to two glyphs, one candidate inline and
  pages of two: four candidates give an inline one, a full page and a page that ends
  early, which is where paging goes wrong.  `ConvertExplored` stops at the entry of
  a registration, and keeps raw mode to the candidate phase, the only one whose
  window it must rebuild.
* `engine_register`: registrations two deep with all editing keys; one registration
  holds up to two glyphs, two nested ones up to one between them: enough for a cursor
  at each end and between, and for an inner registration over an outer one with text.
  Lookups answer nothing (a registration opens) or one candidate.  There is no key
  for raw mode, with which `CompositionVisible` fails (known divergences).
* `reconnect`: one client, two handles, two keys, one restart and one late call.  Two
  handles distinguish "this session" from "every session", two keys a failure and
  what follows it, one restart old ids from new ones.  `FairSpec`.
* `user_dict`: a reading with two words and with okurigana, an abbreviation, and a
  directive that hides both words at first.  Three changes allow learning, replacing
  and purging a word, in each order; one edit and two concurrent `ReloadConfig`
  calls, one of which may apply the older configuration; one fault, a failed or cut
  write or a crash.  Four configurations: another source, another path, another rest.
  The calls are symmetric.  The entries leave out two kinds that the file does not
  keep, and with which `CleanMeansSaved` fails: an abbreviation that begins with `;`, a
  comment when read, and an all-ASCII headword with okurigana (a numeric template), read
  back as an abbreviation.  Both are among the hazards.
* `lookup`: `Situations` names the starts.  Every text of at most four glyphs is
  registered as a word (`concat`, blank, digit, `#`, slash, parentheses, quotation mark,
  backslash, semicolon), and lines with a form, half a form or an annotation are edited
  by three glyphs, so every way to end an escape or a form occurs.  Numbers: every run
  of up to four of the digits 0, 1, 4, 9, and long ones around a group of four, around
  3999, 49, 99 and 2^64.  Two dictionaries with every marker, `#4`, and directives that
  hide a word; at most two expansions, so the cap is reached; words chosen and
  registered, the dictionary saved and read back.
* `wayland`: four starts.  Without a window, two keys and two threads, so that a second
  key presses on a running repeat and old ticks meet a new thread; one key while calls
  fail.  With the overlay, one key, modifiers and both rates; with an overlay whose
  list buffer cannot be created; with two layer windows, of which one is withdrawn while
  the other waits for its configure.  Two ticks fit in the pipe; the repeat delay is
  two units of time, so that a release falls before and after the first tick.  Threads
  get to write ticks in the first start only, so `RepeatStops` is judged there.
* `settings`: one window, an editor that writes or breaks the file twice, tables that
  come and go.  Two edits allow one between reading and renaming and one before the
  daemon reads, or a changed form and a file broken under it.  One late call: the call of
  an earlier Apply, given up, runs before, between and after the steps of the next.
  `BrokenKept` looks at what the Apply itself has read, since it reads the file again
  whatever the form was made of; `AppliedInForce` leaves out one case, a file edited
  between the rename and the daemon's answer (known divergences).  `FairSpec`.

Engine runs use the view `EngineAndScreen`: `sent` and `call` describe the last step
only, no guard reads them, and every property that does is about a step.  `CHECK_DEADLOCK
FALSE` is set where nothing is left to happen once the bounds are reached, and in
`lookup` where a line that does not parse ends the run.

Runs that show a statement of the repository not to hold (each a finding):

| Run | Statement | What happens |
|---|---|---|
| `purge_okuri` | the prompt purges "the focused candidate from the user dict" | with okurigana or digits it names another entry than the learned one |
| `session_aliasing` | "input state is isolated per application" | after an unnoticed restart an old id names another application's session |
| `recency_lost` | the file keeps the order "so that recency is correctly restored on next load" | lines with okurigana come first, so a headword that has some is placed before all others, however recently it was used |
| `key_lost` | "D-Bus errors fall back to passthrough" | the Wayland adapter returns on an error before it forwards the key |
| `settings_inline` | untouched fields "are preserved" | a section written as an inline table is replaced by an empty one, and loses its other keys |

### Known divergences

Met while modelling, smaller than the findings, and without a run of their own:

* The conversion trigger is said to be cleared "when registration mode is entered"; a
  trigger that finds no candidates opens a registration (`engine.rs:1657`) and stays set.
* In the purge prompt "everything else is consumed"; the keys it ignores
  (`engine.rs:2034`) answer with no action and so reach the application.
* The toggle key (`engine.rs:503`) leaves an open candidate window open.
* Leaving raw mode restores "the preedit/candidate view that was hidden"; inside a
  registration with nothing pending (`engine.rs:2365`) the prompt stays hidden.
* Typing is blocked "never again until the daemon recovers"; `in_cooldown`
  (`reconnect.rs:67`) only measures time, so each elapsed cooldown lets a key block again.
* `to_shogi` (`num/convert.rs:176`) leaves the digit 0 in ASCII between a wide digit and
  a kanji one.
* Words synthesized for numbers (`engine.rs:1468`) are offered although a directive of
  the entry hides them.
* An annotation of blanks around an empty `(concat)` form is written without quotes
  (`needs_quoting`, `lisp.rs:157`) and read back empty.
* Two settings windows share `config.toml.tmp`: one may rename what the other has only
  begun to write.
* "Applied" is shown when the daemon has loaded *a* configuration.  If the file is edited
  between the rename and the daemon's load (`lib.rs:94-99`), that is the editor's text; if
  the daemon was started with `--config` for another file, it is that file.
* A `ReloadConfig` that timed out is reported as rejected and may be carried out later, when
  a newer configuration is in force already.

### Fairness

`FairSpec` of the client asks weak fairness of the daemon handling what it received, of
both threads where they do not wait for the other, and of time passing; strong fairness
of taking the proxy's mutex, since the other thread holds it for one call and then
sleeps at least two seconds or waits for a keystroke.  Every call ends, by
an answer, a crash, the bus or (`METHOD_TIMEOUT`) a timeout; the model bounds
timeouts, so that liveness does not rest on a daemon that is always late.  Nothing is
assumed of the user, of crashes, or of the daemon coming back: `Recovers` is
conditional on it staying up, `UIReturns` on nothing.

In the Wayland adapter the main loop turns (`Turn`) and handles the ticks in the pipe,
time passes (`Elapse`), and every repeat thread and timer wakes after its sleep: the
system's scheduler owes them that.  The compositor and the user owe nothing, so `RepeatStops`
speaks only of a key that has been released.

In `Settings`, `Worker` is weakly fair: an Apply runs on a thread of its own, and its
only call has a timeout.  The daemon owes it nothing: `ApplyEnds` holds if it never answers.

## 4. Proofs

### Engine

For every kana table, set of keys, configuration, dictionary answer and bound that
satisfy `TableAssumption` and `EngineAssumption`, `EngineSafety` proves

    THEOREM Invariance    == Spec => []IInv
    THEOREM TypeCorrect   == Spec => []TypeOK
    THEOREM NeverPanics   == Spec => []NoPanic
    THEOREM PendingInSync == Spec => []RomanInSync

`IInv` is `TypeOK /\ NoPanic /\ RomanInSync`.  The conjunction is needed: that
BackSpace, a digit or a conversion keeps the romaji copies equal needs the types of
both, that a move of the focus stays in the list needs the list to be a sequence
longer than the focus, and a typed register frame is typed after an edit only when
the cursor lies in the buffer.  `RomanInSync` has to say that nothing is pending
outside the phases that feed the table: a handler of the kana or midashi phase
would otherwise start from another state than the one it shows.

The argument: first the types of sequence helpers, of the kana table and of the
constructors of phases; then, block by block, that each handler maps a good engine to a
good engine and a typed output; last `InitOK`, `DeliverOK` and `StepOK`, which has one
step per action of `Next`.

Its second part proves the other properties of the two engine runs, for the same
constants:

    THEOREM PagesStartAligned          == Spec => []PageAligned
    THEOREM PagesAreShown              == Spec => []ListingIsShown
    THEOREM VisibleOutsideRegistration == Spec => [](eng.stack = <<>> => CompositionVisible)
    THEOREM VisibleWithoutRawMode      == ASSUME RawKeys = {}
                                          PROVE Spec => []CompositionVisible
    THEOREM Sealing                    == Spec => RegistrationSealed
    THEOREM OuterBuffersWait           == Spec => OuterFramesFrozen
    THEOREM LearnsVisible              == Spec => LearnsWhatWasVisible
    THEOREM AllCandidatesOffered       == ASSUME TriggersStandAlone
                                          PROVE Spec => EveryCandidateOffered
    THEOREM ComposingKeepsKeys         == Spec => ComposingConsumes

What is on the screen depends on what earlier steps drew, so the invariant is `CInv`:
`IInv`, every focus on a page start *also in the selection a purge prompt will return
to* (`PagesAligned`), and that a list or a composition in view is drawn.  A handler can
leave the preedit or the window alone (`"keep"`), and then only the invariant says that
the right thing is shown.  The argument has three layers.  Each handler is described by
what its result draws (`Drew`), what it leaves of the registrations (`Left`) and whether
the key was used (`Used`), together `Handled`; `DeliveredConduct` carries this through
`Intercept`, which turns a commit into an edit of the innermost registration; from
`Conduct`, which every step then satisfies (`StepConduct`), each property follows in a
few lines.

Two theorems have a condition.  `TriggersStandAlone` says that no rule of one letter
yields several kana of which the last is a conversion trigger: with such a rule the key
that commits a candidate would open and convert the next reading at once, and the
candidates after it would not be comparable.  The table of the instance satisfies it
(an assumption of `MCEngine`), and so does the shipped one.  `RawKeys = {}` is the condition under
which the prompt of a registration stays in view (known divergences); outside
registrations `CompositionVisible` holds with raw mode as well.

### Client and sessions

For any number of clients, handles, keys, restarts and late answers, `ReconnectSafety`
proves every invariant of the `reconnect` run:

    THEOREM Types              == Spec => []TypeOK
    THEOREM KeysAreNotLost     == Spec => []NoKeyLost
    THEOREM KeysAreTypedOnce   == Spec => []AppliedOnce
    THEOREM NoticedIdsAreFresh == Spec => []NoticedMeansFresh

None of them is inductive.  The invariant `IInv` has a part
`ClientOK(c)` for each client, which ties together what its UI thread does, the calls
on their way, the answer and the table of handles:

* `ThreadOK`: an idle thread does not hold the mutex; a busy one has a handle that was
  given out, and a key if it types.
* `CallsOK`: of the calls waiting, only the last can have a caller; if that is the UI
  thread, the call is the one it asked for.  The keys on their way differ and none of
  them has been processed: this is what makes a late call harmless.
* `ReplyOK`: `done` means that the key was processed, `invalid` that it was not and is
  in no other call, so that the retry cannot be a second one; an answer with an id, after
  a failure that was noticed, was made for the context that waits.
* `KeysOK` and `FreshOK`: the keys and ids the properties speak of.

A step of one client leaves `ClientOK` of another as it was, because the daemon only adds
to `made` (`Bystander`); only the daemon's end concerns all clients at once, and it
clears `noticed`.

### User dictionary

For any glyphs, words, entries, files, configurations, calls and faults that satisfy
`DictAssumption`, `UserDictSafety` proves

    THEOREM LatestIsFirst    == Spec => []LatestFirst
    THEOREM DictIsConfigured == Spec => []DictFollowsConfig
    THEOREM Typed            == ASSUME KeysAreSplit PROVE Spec => []TypeOK

and, under a condition on the keys alone,

    THEOREM IsStore          == ASSUME KeysReadBack PROVE Spec => ActsAsStore
    THEOREM CleanIsOnDisk    == ASSUME KeysReadBack PROVE Spec => []CleanMeansSaved
    THEOREM OnlyPurgedIsLost == ASSUME KeysReadBack PROVE Spec => NothingOverwritten

which makes every property of the `user_dict` run a theorem.  The first three rest on
`DInv(K)`, where `K` is the set of keys (headword and okurigana) that the entries and the
lines of files may have.  A dictionary is a sequence of headwords
that differ, each with finitely many okurigana (`Distinct`, `Finite`); without the first,
`Index` would find one of two and an update miss the other.  For `LatestFirst` the
invariant says more than the property: the word last learned is the first *candidate* of
its entry, and no directive of that entry names it (`Leads`).  That the word is the first
one offered is not kept by other steps: a directive in front could lose its last word and
disappear, or a word in front be purged.

`DInv(K)` is kept for every `K` that is `Closed`: the text of a line of a key is split
back into one of the keys.  All texts with all okurigana are closed (`AllKeysClosed`),
since a headword of one letter is not taken apart, so the first two theorems have no condition.
`TypeOK` says that the dictionary holds no keys but those of `Entry`, which needs
`KeysAreSplit`: every key is `Unambiguous`, so that `Split` takes its text apart where it
was joined (`SplitsBack`).  The file does not keep an ASCII headword with okurigana apart
from an abbreviation.  `KeysReadBack` says besides that no headword begins with `;`: the
line of such a one is written, and read as a comment.  The engine makes such a key only of
an abbreviation that begins with `;`, or of a kana table with letters outside ASCII.  The
instances satisfy the condition (an assumption of `MCUserDict`).

Lemmas say what the operators do to every entry: `LearnedOK` and `PurgedOK` what
`Lookup` answers after learning and purging, `AddLineOK` what it answers after one more
line of a file, `SerializeTyped` and `CutLinesTyped` what a save can leave, `ParseOK`
what is read back, `LeaderIsOffered` what the engine makes of it.  The functions these
operators are defined by recursion with (`Among`, `Parse`, `WordsOf`, `FlattenSeq`) are
shown to exist by taking the least length at which they would not (`KeptExists`,
`ReadExists`, `WordsOfUnfolds`, `FlatExists`).

What a file says of one text is `Held`: the candidates of its lines with that text, joined.
Two lemmas meet there.  `ReadBack`: what `Parse` finds for a key is what the lines hold for
the key's text, whichever lines stand between them, comments or other keys (`RawOfKey`).
`HeldOfSection`: the two sections `Serialize` writes hold, between them and for every key,
exactly what the dictionary has, in whichever order a headword's okurigana are written.
Hence `Restored` and `WrittenAsHeld`, one for loads and one for saves.  What learning and
purging do to candidates is carried over to their words by `WordsRelearned` (removing a
directive that has become empty changes no word) and `WordsWithout`; a cut write
leaves `Remnant`s of lines, so no word that was not to be written, but one damaged
(`CutWords`).  `StepRefines` then has one step per action.  These lemmas go through a
sequence member by member; `Longer` stands for the induction, for a *set* of sequences,
because the library's takes an operator.

`CleanMeansSaved` and `NothingOverwritten` are no consequences of the refinement, since the
store knows neither `dirty` nor what was purged.  They rest on two more invariants: a dictionary that is
not dirty has the words of its file (`Clean`; a purge that finds nothing leaves it so,
`PurgeKeeps`), and a dictionary *in use under its path* has every word of its file that was
not purged (`Covered`).  The second is why `Loaded` must answer an unreadable file with
`/dev/null`: an empty dictionary under the file's name would not cover it.

### Settings

For any edits of the user, the editor and the disk, `SettingsSafety` proves

    THEOREM Typed            == Spec => []TypeOK
    THEOREM SaveIsAtomic     == OneWindow => (Spec => []NeverPartial)
    THEOREM BrokenFileKept   == OneWindow => (Spec => BrokenKept)
    THEOREM UntouchedStayKept == OneWindow /\ PlainDocuments => (Spec => UntouchedKept)
    THEOREM AppliedIsInForce  == OneWindow /\ PlainDocuments => (Spec => AppliedInForce)

`Typed` is for any number of windows, from `TInv`: a document is never left with a key
whose section is not in it, however many windows write the temporary file.  The next two
rest on `IInv`, which says that what an Apply is about to write or rename is a whole
document (`WritesComplete`) and that one past its check has itself read a file that parses
or none (`SawValid`, about the `read` of this Apply and not about the age of the form).  With
two windows both theorems fail: a window that still fills the temporary file another has
renamed writes to `config.toml`.

The last two are about values, and rest on `VInv`.  Its core is `FollowsFile`: while the
file has not changed under the window, the form differs from what the file says only in
fields the user touched *or has edited since*, the Apply under way only in touched ones,
and the document to write is the file with the Apply's values in it.  That a file written
so reads back as it was asked (`Parsed(result) = asked`) is where `write_config_preserving`
and the reader of `Config` meet: a key is dropped from the document only for a value
that the reader would fill in.  `AppliedIsInForce` needs one more, `CallsInv`: unless the
file has changed since the rename, it still reads as this Apply asked, and what the daemon
has loaded for its call is just that.  A late call has its own slot, so it cannot be answered
in its place; that the late call may take over before or after is why the property speaks
of the step of the answer.  All this needs documents
whose sections are tables and whose values the form can show, and a user who leaves empty
only what is empty by default: `PlainDocuments`.  With inline sections `UntouchedKept`
fails (the finding of `settings_inline`); the run admits one inline section with one key,
with which it still holds.

### Wayland adapter

For any keys, repeat threads, rates, delays and answers of the engine, `WaylandSafety`
proves

    THEOREM OneRepeatAtATime  == Spec => []OneRepeat
    THEOREM ReleasesArrive    == Spec => []AppKeysReleased
    THEOREM Typed             == Spec => []TypeOK
    THEOREM IndicatorsHide    == Spec => []IndicatorWillHide
    THEOREM ListsAreTakenBack == Spec => []NoStaleList
    THEOREM SurfacesAgree     == Spec => []SurfaceShowsState

The first two rest on `IInv`, about keys.  Its first part, `Sound(KeyState)`, is a predicate on the
record of key variables, since the handlers compute such records: `Dropped`, `Stopped`
and `Started` show what giving up and starting a repeat do to a sound record.  Its second
part, `ReleaseWillCome`, is why no key stays down: one that the application is owed the
release of is held, *is taken to be down* and *does not repeat*.  Without the middle
clause the release would be dropped as one of an unknown key; without the last,
`stop_all_repeat` could take the key out of `pressed_keys` and swallow it.
`AppKeysReleased` alone says neither and is not inductive.

The other four rest on `AdapterInv`, which adds `PanelOK`, about windows, and `WorldTyped`.
`PanelOK` speaks of what a window *holds*, shown or pending until its configure: a
held list is one the engine has not taken back, and a held indicator has a timer, or
its byte, to hide it.  What an answer of the engine does to the panel is a fold over a list
of actions of any length; its lemma is proved by well-founded minimality over the
prefixes that have been performed, not by the library's induction, which needs an
operator as a parameter.  Answers are assumed to be sequences of strings.

### Lookup

For any glyphs, dictionaries, readings, registrations, edits of the file and caps that
satisfy `LookupAssumption`, `LookupSafety` proves

    THEOREM DictionaryInvariant == Spec => []DictionaryInv
    THEOREM ReadBack            == Spec => []FilesReadBack
    THEOREM Promised            == Spec => []OfferedAsPromised
    THEOREM LearnedInvariant    == Spec => []LearnedInv
    THEOREM LearnedFirst        == Spec => []LearnedComesFirst

`DictionaryInv` says what dictionaries hold and that what is offered is `Candidates(reading)`.
It is more than a type: every candidate of the user dictionary is `Saved`, one that its
line can say (no empty word, a directive's text is the one its words are rendered to, a
form that is not interpreted is still not interpretable).  Loading yields only such
candidates (`LineRead`), learning and registering keep them (`LearnedSaved`,
`RegisteredSaved`).

*Lines.*  `ReadBack` is then about texts.  The code's three readers are runs of small
machines, and each is met by one lemma on what a piece of text does to its state: the reader
of literals (`Scan`, `BodyRead`, `LiteralRead`), the search for the closing
parenthesis (`Count`, `LiteralCounted`), the cut at slashes (`FieldsOn`, `FieldsJoined`).
A reserved glyph is written as an escape that the first takes back (`WrittenRead`), that
leaves the second inside its literal (`WrittenCounted`) and holds no slash
(`NoSlashWritten`).  An octal escape is why a state of the reader is judged together with what may
follow it (`Reading`): the digits are complete only when the next glyph has come.
`FieldSaved` joins the three for one candidate, `RoundTrip` for a line.

*Candidates.*  The code extends a list of partial expansions marker by marker, each list cut
at the cap.  `ExpandedSpelt` says that every expansion is spelled by a combination of
`LookupProperties`; `ExpandedAll` that below the cap each combination is met, which needs
that no intermediate list is cut either (`ProductNumbers` counts them).  `WordsMean` states
both for `Meanings`.  Where a word on the screen comes from is traced through the
passes over lists (`DistinctIs`, `VisibleIs`, `FlattenOrigin`) by a function `h` from places
on the screen to entries that never goes back (`Traced`) and meets every word (`Exhaustive`);
`CandidatesPromised` reads the conjuncts of the property off it.

*Recency.*  `LearnedComesFirst` is not inductive: the first candidate of an entry may be ignored
by a directive that another conversion would lift.  `LearnedInv` adds `LearnedLeads`, that the word learned last *leads its entry* in the user
dictionary, in memory and in the file; `LeaderFirst` turns
that into what is offered.

*Numerals.*  From `LookupAssumption` and `NamesAssumption`, `NumeralsSafety` proves

    THEOREM NumeralsRead        == Spec => []NumeralsReadBack

for every reading that can be typed, so for runs of digits of any length, with zeros in
front.  Nothing here depends on earlier steps but that a reading is a text
(`DictionaryInv`); the work is about the algorithms.  `kanji_number` writes from the left
and knows only the digit and its place, while a reader adds up a group until its large unit
comes.  `Follows4` says what the reader has heard between two digits: the groups that are
complete (`Left`), and the digits of this one so far (`Partial`), all of them counted in
but the last digit of the number, which has no unit.  `PieceRead` shows that each digit with its
unit keeps this, with four cases where it could go wrong: a one that is not written
before a unit, a zero, a group of zeros, whose unit must be left out, and the last digit.
`KanjiReads` follows from the first digit to the last.  That the units of one script are
told apart from its digits is `TablesLegible`.

In a Roman numeral a letter can turn the one before it into a subtraction, and that one
alone (`WorthStep`).  `EndsWith` says how great the last letter written is at least.
`BlockLetters` says which letters each of the 13 values gives, and with which bounds, and
`BoundsFall` that the bounds fall, so that no value spoils what is written before it
(`BlockRead`, `RepeatRead`); `RomanWorth` goes through the values from the greatest.  It holds
for every natural number: that the numeral stops at 3999 is `RomanRange`, and
`CircledRange` the same for 50, where the comparison of digits in `Exceeds` is shown to
be the comparison of numbers.

A recursive function is met by the least length at which it would go wrong (`RecursionExists`,
and `UpTo` in `ListLemmas`), as for the user dictionary.

### Only model-checked

Liveness (`UIReturns`, `Recovers`, `RepeatStops`, `ApplyEnds`) and `ENABLED` are beyond
the prover.  Every safety property and every action property of a passing run is a theorem,
some under the conditions stated with them.

## 5. Not modelled

* The parsers of the kana table and of TOML, and the conversion of key names and key
  codes: they keep no state, and what they yield is a constant here.
* The async proxy forwards each call and keeps nothing.
* XIM, GTK and Qt adapters: one call of the reconnecting client per callback, and
  drawing.  The indicator is a stub.  Build and install tasks copy files.
* Of a reload: the engines that are rebuilt while sessions type, and what their adapters
  go on showing.  System dictionaries are read-only and appear as answers of a lookup.
* Of the Wayland adapter: keymap tables, the text of the preedit, serials, pixels, the
  heartbeat, and the search for globals at start.  Neither is an adapter that has no file
  descriptors left: it shows an indicator without a timer (`server.rs:534`) or starts no
  repeat (`:245`); nor a repeat thread that ends when the pipe cannot be written (`:275`).
* Of settings: a daemon started with `--config` for another file, and blanks around texts.

## 6. Plan

Done: the engine, clients and sessions, user dictionary, lookup with numerals and the
text of lines, the Wayland adapter, configuration and settings.  To come, in this order:

1. The reload of live engines composed with the phases of `Engine` and with what an
   adapter shows.
2. Sessions that no handle names any more, with a property once the daemon limits them.
3. Two settings windows, once the temporary file has a name of its own.
