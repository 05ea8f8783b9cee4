------------------------------ MODULE PlainApps ------------------------------
(***************************************************************************)
(* The two applications that run without buttons and keep something across *)
(* their drawings: the Reader, which remembers a page in a file, and the   *)
(* Tesserae client, which remembers the tag of the frame it has fetched.   *)
(*                                                                         *)
(* Sources: apps/reader.py, apps/tesserae.py.                              *)
(*                                                                         *)
(* Each is one thread; its signal handlers run between any two of its      *)
(* steps.  The manager starts it, tells it to stop, or kills it.           *)
(***************************************************************************)
EXTENDS Integers, FiniteSets, FiniteSetsExt

CONSTANTS
  Pages,     \* the documents, numbered in the order of their names -> their number of pages
  MaxFrames, \* bound: frames the server renders
  MaxTurns,  \* bound: page signals
  MaxUpsets  \* bound: starts, stops, kills, failures and changes of the surroundings

ASSUME PagesAssumption ==
  DOMAIN Pages \subseteq Nat /\ \A d \in DOMAIN Pages : Pages[d] \in Nat \ {0}
ASSUME PlainBoundsAssumption == MaxFrames \in Nat /\ MaxTurns \in Nat /\ MaxUpsets \in Nat

VARIABLES
  program,    \* the application that runs, or was the last to; "none" for neither
  step,       \* where it is; "over" when no process runs
  wanted,     \* RUNNING
  screen,     \* what the panel shows
  \* the Reader
  shelf,      \* the documents in its directory
  found,      \* the ones it found when it started
  saved,      \* reader-state.json
  place,      \* the document it has open and its page_index
  pageChange, \* PAGE_CHANGE
  change,     \* what it last took from PAGE_CHANGE
  redraw,     \* needs_redraw
  turns,      \* page signals so far
  \* the Tesserae client
  server,     \* the server: its state, its frame, whether it tags, whether it wraps
  etag,       \* the last tag that came with a frame; 0 for None
  bare,       \* ghost: the frame that was read since and had none, or 0
  fetched,    \* the frame just fetched, 0 for none
  first,      \* first_request
  unshown,    \* ghost: a frame whose tag was kept could not be shown
  upsets      \* see MaxUpsets

reader    == <<shelf, found, saved, place, pageChange, change, redraw, turns>>
client    == <<etag, bare, fetched, first, unshown>>
plainVars == <<program, step, wanted, screen, reader, server, client, upsets>>

Upset    == upsets < MaxUpsets /\ upsets' = upsets + 1
Running  == step # "over"
Reads(s)   == program = "reader" /\ step = s
Fetches(s) == program = "tesserae" /\ step = s

-----------------------------------------------------------------------------
(* Where the Reader opens.                                                 *)

\* A document's page on the panel, in the state file or open; also other screens.
Screen(what, of, at) == [what |-> what, of |-> of, at |-> at]
Place(document, page) == Screen("page", document, page)
Asleep  == Screen("asleep", 0, 0)
NoPlace == Place(0, 0)

\* load_state() and main(): the document that was saved, or the first one, at the
\* page that was saved, brought into its range.
Resumed(state, documents) ==
  LET d == IF state.of \in documents THEN state.of ELSE Min(documents)
  IN Place(d, Min({state.at, Pages[d] - 1}))

\* A page past either end wraps to the other.
Wrapped(d, p) == IF p >= Pages[d] THEN 0 ELSE IF p < 0 THEN Pages[d] - 1 ELSE p

Turned(at, by) == Place(at.of, Wrapped(at.of, at.at + by))

\* Mutant: the page is saved before it wraps.
SavedEarly(at, by) == Place(at.of, Max({0, at.at + by}))

\* save_state(), after the page has wrapped.
Saved(at, by) == Turned(at, by)

-----------------------------------------------------------------------------
(* The Reader's main().                                                    *)

\* A panel that fails ends main().
PanelFails == Upset /\ step' = "close" /\ UNCHANGED screen

ReaderFinds ==
  /\ Reads("ready")
  /\ found' = shelf
  /\ IF shelf = {}
       THEN /\ \/ step' = "waits" /\ screen' = Screen("no documents", 0, 0) /\ UNCHANGED upsets
               \/ PanelFails
            /\ UNCHANGED <<place, redraw>>
       ELSE /\ place' = Resumed(saved, shelf) /\ redraw' = TRUE /\ step' = "turn"
            /\ UNCHANGED <<screen, upsets>>
  /\ UNCHANGED <<program, wanted, shelf, saved, pageChange, change, turns, server, client>>

\* while RUNNING: take what the signals have added up.
ReaderTakes ==
  /\ Reads("turn")
  /\ change' = pageChange
  /\ step' = IF ~wanted THEN "close" ELSE IF pageChange # 0 THEN "reset" ELSE IF redraw THEN "draw" ELSE "turn"
  /\ step' # "turn"
  /\ UNCHANGED <<program, wanted, screen, shelf, found, saved, place, pageChange, redraw, turns, server, client, upsets>>

\* PAGE_CHANGE = 0: a signal since it was taken is forgotten.
ReaderResets ==
  /\ Reads("reset")
  /\ pageChange' = 0
  /\ step' = "save"
  /\ UNCHANGED <<program, wanted, screen, shelf, found, saved, place, change, redraw, turns, server, client, upsets>>

\* The page turns, and save_state() replaces the file whole; when it cannot,
\* main() ends.
ReaderSaves ==
  /\ Reads("save")
  /\ place' = Turned(place, change)
  /\ \/ saved' = Saved(place, change) /\ redraw' = TRUE /\ step' = "draw" /\ UNCHANGED upsets
     \/ Upset /\ step' = "close" /\ UNCHANGED <<saved, redraw>>
  /\ UNCHANGED <<program, wanted, screen, shelf, found, pageChange, change, turns, server, client>>

ReaderDraws ==
  /\ Reads("draw")
  /\ \/ screen' = place /\ redraw' = FALSE /\ step' = "turn" /\ UNCHANGED upsets
     \/ PanelFails /\ UNCHANGED redraw
  /\ UNCHANGED <<program, wanted, shelf, found, saved, place, pageChange, change, turns, server, client>>

\* handle_next(), handle_previous(): a signal between any two steps; before the
\* handlers are there, the end of the process.
PageSignal ==
  /\ program = "reader" /\ Running
  /\ turns < MaxTurns /\ turns' = turns + 1
  /\ IF step = "start" THEN step' = "over" /\ UNCHANGED pageChange
     ELSE (\E by \in {1, -1} : pageChange' = pageChange + by) /\ UNCHANGED step
  /\ UNCHANGED <<program, wanted, screen, shelf, found, saved, place, change, redraw, server, client, upsets>>

\* Documents come and go.
ShelfChanges ==
  /\ program = "reader" /\ Upset
  /\ \E d \in DOMAIN Pages : shelf' = IF d \in shelf THEN shelf \ {d} ELSE shelf \cup {d}
  /\ UNCHANGED <<program, step, wanted, screen, found, saved, place, pageChange, change, redraw, turns, server, client>>

-----------------------------------------------------------------------------
(* The Tesserae client's main().                                           *)

Frame(v) == Screen("frame", v, 0)

\* A device that is not registered shows so, and waits.
ClientConfigures ==
  /\ Fetches("ready")
  /\ \/ step' = "beat" /\ UNCHANGED screen
     \/ step' = "waits" /\ screen' = Screen("setup", 0, 0)
  /\ UNCHANGED <<program, wanted, reader, server, client, upsets>>

\* Nor is one whose panel fails when it is to show so: main() ends.
SetupFails ==
  /\ Fetches("ready")
  /\ PanelFails
  /\ UNCHANGED <<program, wanted, reader, server, client>>

\* An answer that is an error, or none, ends the round: the first time the panel says so.
RoundFails == step' = IF first THEN "excuse" ELSE "rest"

\* send_heartbeat()
ClientBeats ==
  /\ Fetches("beat")
  /\ IF ~wanted THEN step' = "close" ELSE IF server.up THEN step' = "ask" ELSE RoundFails
  /\ UNCHANGED <<program, wanted, screen, reader, server, client, upsets>>

\* Mutant: the tag is kept although what it tags could not be read.
TagKept(tag, new, readable) == IF new # 0 THEN new ELSE tag

\* fetch_frame() returns the tag of what it has read, or the tag that was held when
\* there is none, or raises.
TagAfter(tag, new, readable) == IF readable /\ new # 0 THEN new ELSE tag

\* What the server tags frame v with.
TagOf(v) == IF server.tags THEN v ELSE 0

\* fetch_binary_url() for a frame: 304 for the tag we hold, or the frame, which
\* may arrive unreadable.
Arrives(v) ==
  \/ /\ TagOf(v) = etag /\ etag # 0
     /\ fetched' = 0 /\ step' = "paint"
     /\ UNCHANGED <<etag, bare, upsets>>
  \/ /\ TagOf(v) # etag \/ etag = 0
     /\ \E readable \in BOOLEAN :
          /\ etag' = TagAfter(etag, TagOf(v), readable)
          /\ bare' = IF ~readable THEN bare ELSE IF TagOf(v) = 0 THEN v ELSE 0
          /\ IF readable THEN fetched' = v /\ step' = "paint" /\ UNCHANGED upsets
             ELSE Upset /\ RoundFails /\ UNCHANGED fetched

\* The frame endpoint: no frame yet (a 304 or an error), the frame itself, or an
\* envelope with the address of the frame.
ClientAsks ==
  /\ Fetches("ask")
  /\ CASE ~server.up -> RoundFails /\ UNCHANGED <<etag, bare, fetched, upsets>>
       [] server.up /\ server.frame = 0 ->
            /\ fetched' = 0
            /\ step' = "paint" \/ RoundFails
            /\ UNCHANGED <<etag, bare, upsets>>
       [] server.up /\ server.frame # 0 /\ server.wraps ->
            fetched' = server.frame /\ step' = "follow" /\ UNCHANGED <<etag, bare, upsets>>
       [] OTHER -> Arrives(server.frame)
  /\ UNCHANGED <<program, wanted, screen, reader, server, first, unshown>>

\* The frame behind the envelope, which may be gone.
ClientFollows ==
  /\ Fetches("follow")
  /\ \/ server.up /\ Arrives(fetched)
     \/ ~server.up /\ RoundFails /\ UNCHANGED <<etag, bare, fetched, upsets>>
     \/ server.frame # fetched /\ RoundFails /\ UNCHANGED <<etag, bare, fetched, upsets>>
  /\ UNCHANGED <<program, wanted, screen, reader, server, first, unshown>>

\* display.show(), or the page that waits for a frame, the first time.  When the
\* panel fails the tag is kept all the same.
ClientPaints ==
  /\ Fetches("paint")
  /\ IF fetched = 0 /\ ~first THEN step' = "rest" /\ UNCHANGED <<screen, first, unshown, upsets>>
     ELSE \/ /\ screen' = IF fetched = 0 THEN Screen("waiting", 0, 0) ELSE Frame(fetched)
             /\ first' = FALSE /\ step' = "rest"
             /\ unshown' = (unshown /\ fetched = 0)
             /\ UNCHANGED upsets
          \/ /\ Upset /\ RoundFails
             /\ unshown' = (unshown \/ fetched # 0)
             /\ UNCHANGED <<screen, first>>
  /\ UNCHANGED <<program, wanted, reader, server, etag, bare, fetched>>

\* error_page()
ClientExcuses ==
  /\ Fetches("excuse")
  /\ \/ screen' = Screen("error", 0, 0) /\ first' = FALSE /\ step' = "rest" /\ UNCHANGED upsets
     \/ PanelFails /\ UNCHANGED first
  /\ UNCHANGED <<program, wanted, reader, server, etag, bare, fetched, unshown>>

\* interruptible_sleep()
ClientRests ==
  /\ Fetches("rest")
  /\ step' = "beat"
  /\ UNCHANGED <<program, wanted, screen, reader, server, client, upsets>>

\* The server goes and comes, and renders frames; an old frame may come back.  It
\* may begin or cease to tag them, or to wrap them in envelopes.
ServerChanges ==
  /\ program = "tesserae" /\ Upset
  /\ \/ server' = [server EXCEPT !.up = ~@]
     \/ server' = [server EXCEPT !.tags = ~@]
     \/ server' = [server EXCEPT !.wraps = ~@]
     \/ \E v \in 1..MaxFrames : server' = [server EXCEPT !.frame = v]
  /\ UNCHANGED <<program, step, wanted, screen, reader, client>>

-----------------------------------------------------------------------------
(* The process.                                                            *)

Starts ==
  /\ ~Running /\ program # "none" /\ Upset
  /\ step' = "start" /\ wanted' = TRUE
  /\ pageChange' = 0 /\ change' = 0 /\ redraw' = FALSE /\ place' = NoPlace /\ found' = {}
  /\ etag' = 0 /\ bare' = 0 /\ fetched' = 0 /\ first' = TRUE /\ unshown' = FALSE
  /\ UNCHANGED <<program, screen, shelf, saved, turns, server>>

\* signal.signal(), for each signal; the Tesserae client also publishes its address.
Prepares ==
  /\ step = "start"
  /\ step' = "ready"
  /\ UNCHANGED <<program, wanted, screen, reader, server, client, upsets>>

\* SIGTERM: before its handler is there, the end of the process.
StopSignal ==
  /\ Running /\ wanted /\ Upset
  /\ wanted' = FALSE
  /\ step' = IF step = "start" THEN "over" ELSE step
  /\ UNCHANGED <<program, screen, reader, server, client>>

\* while RUNNING, with nothing to read or to fetch.
Leaves ==
  /\ step = "waits" /\ ~wanted
  /\ step' = "close"
  /\ UNCHANGED <<program, wanted, screen, reader, server, client, upsets>>

\* with Display(): the panel is put to sleep on every way out.
Closes ==
  /\ step = "close"
  /\ step' = "over" /\ screen' = Asleep
  /\ UNCHANGED <<program, wanted, reader, server, client, upsets>>

PlainKilled ==
  /\ Running /\ Upset
  /\ step' = "over"
  /\ UNCHANGED <<program, wanted, screen, reader, server, client>>

-----------------------------------------------------------------------------
PlainInit ==
  /\ program \in {"reader", "tesserae"}
  /\ step = "over" /\ wanted = FALSE /\ screen = Asleep
  /\ shelf \in IF program = "reader" THEN SUBSET DOMAIN Pages ELSE {{}}
  /\ found = {} /\ saved = NoPlace /\ place = NoPlace
  /\ pageChange = 0 /\ change = 0 /\ redraw = FALSE /\ turns = 0
  /\ server \in [up : BOOLEAN, frame : {0}, tags : BOOLEAN, wraps : BOOLEAN]
  /\ program = "reader" => server = [up |-> FALSE, frame |-> 0, tags |-> FALSE, wraps |-> FALSE]
  /\ etag = 0 /\ bare = 0 /\ fetched = 0 /\ first = TRUE /\ unshown = FALSE
  /\ upsets = 0

ReaderStep == ReaderFinds \/ ReaderTakes \/ ReaderResets \/ ReaderSaves \/ ReaderDraws

ClientStep ==
  ClientConfigures \/ SetupFails \/ ClientBeats \/ ClientAsks \/ ClientFollows \/ ClientPaints \/ ClientExcuses \/ ClientRests

PlainStep == ReaderStep \/ ClientStep \/ Prepares \/ Leaves \/ Closes

PlainNext ==
  \/ PlainStep \/ PageSignal \/ ShelfChanges \/ ServerChanges
  \/ Starts \/ StopSignal \/ PlainKilled

PlainSpec == PlainInit /\ [][PlainNext]_plainVars

-----------------------------------------------------------------------------
\* The Reader at rest shows the page at which it would open again over the same
\* documents: whatever turns, wraps, kills and restarts have come before, and
\* whichever documents were there when the page was saved.
PlaceIsKept ==
  Reads("turn") /\ ~redraw /\ pageChange = 0 => screen = Resumed(saved, found)

\* The last frame that was read: the one the tag is of, or one after it without.
LastRead == IF bare # 0 THEN bare ELSE etag

\* Between two rounds a Tesserae client that holds a tag shows the frame that tag
\* is of, whatever errors, unreadable frames, restarts of the server and waiting
\* pages came before; or, when a frame came since that had no tag, that frame: the
\* old tag is kept beside it, and a server that tags again and goes back to the
\* frame of the tag leaves the panel behind.  It says nothing after the panel failed
\* to show a frame that had been read, until the next frame is shown: the tag is
\* kept then too, and the server does not send that frame again.
TagIsShown ==
  program = "tesserae" /\ step \in {"rest", "beat", "ask"} /\ etag # 0 /\ ~unshown => screen = Frame(LastRead)
=============================================================================
