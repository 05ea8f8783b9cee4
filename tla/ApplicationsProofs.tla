-------------------------- MODULE ApplicationsProofs -------------------------
(***************************************************************************)
(* The applications and the record of those the Process manager runs:      *)
(* three components that share no name and no state.  The bounds on        *)
(* presses, launches, events and troubles are any.                         *)
(***************************************************************************)
EXTENDS ButtonApps, PlainApps, ProcessRecord, WellFoundedInduction, TLAPS

-----------------------------------------------------------------------------
(* ButtonApps: the applications on the SDK.  PanelInv follows an image from *)
(* the lock to the panel: what the main thread and the button thread have  *)
(* in flight is the page, or a redraw is marked, or an excuse stands.      *)

(* A record of these fields. *)
IsPage(u) ==
  u \in [page : {u.page}, sel : {u.sel}, status : {u.status}, data : {u.data}, qr : {u.qr},
         current : {u.current}]

Shows(a) == a.step \in {"show", "sign"}
MainSteps ==
  {"start", "signals", "setup", "poll", "loop", "update", "render", "compare", "show", "sign",
   "cleanup", "ended"}

ThreadsFit(th) ==
  /\ th.main \in [step : MainSteps, image : {th.main.image}, force : BOOLEAN]
  /\ th.button \in [step : {"idle", "render", "show", "sign"}, image : {th.button.image}, force : {FALSE}]
  /\ th = [main |-> th.main, button |-> th.button]
  /\ th.main.step = "compare" => Unlocked
  /\ Unlocked => th.button.step = "idle"
  /\ th.main.step \in {"loop", "update"} => ~th.main.force
  /\ th.main.step \in {"poll", "loop", "update", "render", "compare", "show", "sign"} => open

(* From the main thread's first drawing to the end of its loop. *)
Drawn(m) ==
  \/ m.step \in {"loop", "update", "compare", "show", "sign"}
  \/ m.step = "render" /\ ~m.force

(* The image that a thread has in flight is the page, or a redraw is marked. *)
Carries(a, v) ==
  /\ (~dirty \/ Unlocked) => a.image = v
  /\ a.step = "sign" /\ ~visible => panel = a.image

(* Without an excuse, one thread at most has an image in flight; with none, *)
(* the panel shows the last image, and that is the page unless a redraw is  *)
(* marked.                                                                  *)
Excused(m, b, v) ==
  ~stale =>
    /\ ~(m.step \in {"compare", "show", "sign"} /\ Shows(b))
    /\ m.step \in {"compare", "show", "sign"} => Carries(m, v)
    /\ Shows(b) => Carries(b, v)
    /\ m.step \notin {"compare", "show", "sign"} /\ ~Shows(b) =>
         /\ ~visible => panel = signature
         /\ ~dirty => v = signature

(* Entertainment's one thread shows its images in turn, whatever is marked. *)
InTurn(m) ==
  Unlocked /\ ~visible =>
    /\ m.step \in {"loop", "update", "render"} => panel = signature
    /\ m.step = "compare" /\ ~m.force => panel = signature
    /\ m.step = "sign" => panel = m.image

PanelInv ==
  /\ app \in Apps /\ IsPage(ui) /\ {dirty, stale, open, visible} \subseteq BOOLEAN
  /\ ThreadsFit(thread)
  /\ daemon \in {"idle", "stopping", "stopped"}
  /\ daemon = "stopped" => Main.step = "ended"
  /\ Drawn(Main) => Excused(Main, thread.button, View(ui)) /\ InTurn(Main)

(* Past the setup, Print Lab's request is there on the armed page only. *)
RequestFits ==
  request /\ app = "print_lab" =>
    ui.page = "isp_prep_armed" \/ Main.step \in {"start", "signals", "setup", "ended"}

-----------------------------------------------------------------------------
(* The pages.                                                              *)

Four == {"torrentz", "print_lab", "mode_selector", "entertainment"}

LEMMA AppIs == ASSUME app \in Apps PROVE app \in Four
BY AppsAssumption DEF Four

LEMMA FirstPageIs == IsPage(FirstPage)
BY DEF FirstPage, IsPage

LEMMA PolledIs ==
  ASSUME NEW u, IsPage(u), NEW v \in Polled(u)
  PROVE  IsPage(v) /\ v.page = u.page
<1>1. PICK c : v = [u EXCEPT !.data = world, !.qr = c]
  BY DEF Polled
<1>2. PICK w : w = world
  OBVIOUS
<1>3. v = [u EXCEPT !.data = w, !.qr = c]
  BY <1>1, <1>2
<1> QED
  BY <1>3 DEF IsPage

LEMMA FootedIs ==
  ASSUME NEW u, IsPage(u), NEW v, IsPage(v), NEW code,
         v.page = u.page, v.sel = u.sel, v.status = u.status, v.data = u.data, v.current = u.current,
         Footed(v, code).qr = Footed(u, code).qr
  PROVE  Footed(v, code) = Footed(u, code)
<1>1. PICK s : s = IF u.page = "menu" THEN u.sel ELSE 1
  OBVIOUS
<1>2. PICK t : t = (u.status /\ u.page # code)
  OBVIOUS
<1>3. PICK q : q = (u.qr /\ u.page = code)
  OBVIOUS
<1>4. PICK r : r = (v.qr /\ v.page = code)
  OBVIOUS
<1>5. Footed(u, code) = [u EXCEPT !.sel = s, !.status = t, !.qr = q]
  BY <1>1, <1>2, <1>3, Zenon DEF Footed
<1>6. Footed(v, code) = [v EXCEPT !.sel = s, !.status = t, !.qr = r]
  BY <1>1, <1>2, <1>4, Zenon DEF Footed
<1>7. PICK f : f = [u EXCEPT !.sel = s, !.status = t, !.qr = q]
  OBVIOUS
<1>8. PICK g : g = [v EXCEPT !.sel = s, !.status = t, !.qr = r]
  OBVIOUS
<1>9. f.qr = q /\ g.qr = r
  BY <1>7, <1>8 DEF IsPage
<1>10. q = r
  BY <1>5, <1>6, <1>7, <1>8, <1>9
<1>11. f = g
  BY <1>7, <1>8, <1>10 DEF IsPage
<1> QED
  BY <1>5, <1>6, <1>7, <1>8, <1>11

(* A code that comes or goes where no page shows it changes no page. *)
LEMMA OnlyTheCode ==
  ASSUME app \in Apps, NEW u, IsPage(u), NEW v \in Polled(u), ~PollMarks(u, v), ~ShownCodeChanged(u, v)
  PROVE  View(v) = View(u)
<1>1. PICK c : v = [u EXCEPT !.data = world, !.qr = c]
  BY DEF Polled
<1>2. PICK w : w = world
  OBVIOUS
<1>3. v = [u EXCEPT !.data = w, !.qr = c]
  BY <1>1, <1>2
<1>4. IsPage(v) /\ v.page = u.page /\ v.sel = u.sel /\ v.status = u.status /\ v.current = u.current
  BY <1>3 DEF IsPage
<1>5. v.data = u.data /\ View(u).qr = View(v).qr
  BY DEF PollMarks, ShownCodeChanged
<1>6. CASE app = "torrentz"
  BY <1>4, <1>5, <1>6, FootedIs DEF View, TorrentzView
<1>7. CASE app = "print_lab"
  <2>1. View(u) = PrintLabView(u) /\ View(v) = PrintLabView(v)
    BY <1>7 DEF View
  <2>2. PICK f : f = Footed(u, "mainsail")
    OBVIOUS
  <2>3. PICK g : g = Footed(v, "mainsail")
    OBVIOUS
  <2>4. PICK d : d = IF u.page = "klipper_status" THEN f.data ELSE 0
    OBVIOUS
  <2>5. PICK e : e = IF v.page = "klipper_status" THEN g.data ELSE 0
    OBVIOUS
  <2>6. View(u) = [f EXCEPT !.data = d] /\ View(v) = [g EXCEPT !.data = e]
    BY <2>1, <2>2, <2>3, <2>4, <2>5, Zenon DEF PrintLabView
  <2>7. IsPage(f) /\ IsPage(g)
    BY <1>4, <2>2, <2>3 DEF Footed, IsPage
  <2>8. f.qr = g.qr
    BY <1>5, <2>6, <2>7 DEF IsPage
  <2>9. f = g
    BY <1>4, <1>5, <2>2, <2>3, <2>8, FootedIs
  <2>10. d = e
    BY <1>4, <2>4, <2>5, <2>9
  <2> QED
    BY <2>6, <2>9, <2>10
<1>8. CASE app = "mode_selector"
  <2>1. View(u) = u /\ View(v) = v
    BY <1>8 DEF View, ModesView
  <2> QED
    BY <1>4, <1>5, <2>1 DEF IsPage
<1>9. CASE app = "entertainment"
  <2>1. View(u) = [u EXCEPT !.data = 0] /\ View(v) = [v EXCEPT !.data = 0]
    BY <1>9 DEF View, EntertainmentView
  <2>2. u.qr = v.qr
    BY <1>4, <1>5, <2>1 DEF IsPage
  <2>3. u = v
    BY <1>4, <1>5, <2>2 DEF IsPage
  <2> QED
    BY <2>3
<1> QED
  BY <1>6, <1>7, <1>8, <1>9, AppIs DEF Four

(* A press gives a page again. *)
LEMMA PressedIs ==
  ASSUME app \in Apps, NEW u, IsPage(u), NEW b
  PROVE  IsPage(Pressed(u, b))
<1>1. IsPage(Moved(u, b))
  <2>1. PICK s : s = IF b = "up" THEN IF u.sel = 1 THEN Len(Items[app]) ELSE u.sel - 1
                     ELSE IF u.sel = Len(Items[app]) THEN 1 ELSE u.sel + 1
    OBVIOUS
  <2>2. PICK t : t = (u.status /\ app = "mode_selector")
    OBVIOUS
  <2>3. Moved(u, b) = [u EXCEPT !.sel = s, !.status = t]
    BY <2>1, <2>2, Zenon DEF Moved
  <2> QED
    BY <2>3 DEF IsPage
<1>2. IsPage(Left(u))
  BY DEF Left, IsPage
<1>3. IsPage(TorrentzHold(u))
  <2>1. PICK p : p = IF Selected(u) = "back" THEN u.page ELSE Selected(u)
    OBVIOUS
  <2>2. TorrentzHold(u) = IF u.page # "menu" THEN [u EXCEPT !.status = TRUE]
                          ELSE [u EXCEPT !.page = p, !.status = FALSE]
    BY <2>1, Zenon DEF TorrentzHold
  <2>3. IsPage([u EXCEPT !.status = TRUE]) /\ IsPage([u EXCEPT !.page = p, !.status = FALSE])
    BY DEF IsPage
  <2> QED
    BY <2>2, <2>3
<1>4. IsPage(PrintLabHold(u))
  <2>1. PICK p : p = CASE Selected(u) = "back" -> u.page
                       [] Selected(u) = "isp_prep" -> "isp_prep_confirm"
                       [] OTHER -> Selected(u)
    OBVIOUS
  <2>2. /\ u.page = "menu" => PrintLabHold(u) = [u EXCEPT !.status = FALSE, !.page = p]
        /\ u.page \in {"mainsail", "isp_pins"} => PrintLabHold(u) = [u EXCEPT !.page = "menu"]
        /\ u.page = "isp_prep_confirm" => PrintLabHold(u) = [u EXCEPT !.page = "isp_prep_armed", !.status = TRUE]
        /\ u.page \notin {"menu", "mainsail", "isp_pins", "isp_prep_confirm"} =>
             PrintLabHold(u) = [u EXCEPT !.status = TRUE]
    BY <2>1 DEF PrintLabHold
  <2>3. /\ IsPage([u EXCEPT !.status = FALSE, !.page = p]) /\ IsPage([u EXCEPT !.page = "menu"])
        /\ IsPage([u EXCEPT !.page = "isp_prep_armed", !.status = TRUE]) /\ IsPage([u EXCEPT !.status = TRUE])
    BY DEF IsPage
  <2> QED
    BY <2>2, <2>3
<1>5. IsPage(ModesHold(u)) /\ IsPage(EntertainmentHold(u))
  BY DEF ModesHold, EntertainmentHold, IsPage
<1> QED
  BY <1>1, <1>2, <1>3, <1>4, <1>5, AppIs DEF Pressed, Hold, Four

-----------------------------------------------------------------------------
(* The threads.                                                            *)

LEMMA ViewThen == ASSUME app' = app PROVE View(ui)' = View(ui')
BY DEF View, TorrentzView, PrintLabView, ModesView, EntertainmentView, Footed

LEMMA IdleIs ==
  /\ Idle \in [step : {"idle"}, image : {Idle.image}, force : {FALSE}]
  /\ Idle.step = "idle" /\ Idle.force = FALSE
BY DEF Idle

LEMMA ThreadIs ==
  ASSUME NEW th, ThreadsFit(th), NEW t \in {"main", "button"}, NEW n, NEW th2, th2 = [th EXCEPT ![t] = n]
  PROVE  /\ th2 = [main |-> th2.main, button |-> th2.button]
         /\ th2.main = IF t = "main" THEN n ELSE th.main
         /\ th2.button = IF t = "button" THEN n ELSE th.button
<1>1. th = [main |-> th.main, button |-> th.button]
  BY DEF ThreadsFit
<1>2. PICK m : m = th.main
  OBVIOUS
<1>3. PICK b : b = th.button
  OBVIOUS
<1>4. th2 = [[main |-> m, button |-> b] EXCEPT ![t] = n]
  BY <1>1, <1>2, <1>3
<1>5. th2 = [main |-> IF t = "main" THEN n ELSE m, button |-> IF t = "button" THEN n ELSE b]
  BY <1>4
<1> QED
  BY <1>2, <1>3, <1>5

(* A thread that goes on to another step. *)
LEMMA StepIs ==
  ASSUME ThreadsFit(thread), NEW t \in {"main", "button"}, NEW s, At(t, s)
  PROVE  /\ thread' = [main |-> thread'.main, button |-> thread'.button]
         /\ t = "main" => /\ thread'.button = thread.button
                          /\ thread'.main = [step |-> s, image |-> Main.image, force |-> Main.force]
         /\ t = "button" => /\ thread'.main = thread.main
                            /\ thread'.button = [step |-> s, image |-> thread.button.image, force |-> FALSE]
<1>1. PICK th : th = thread
  OBVIOUS
<1>2. PICK a : a = th[t]
  OBVIOUS
<1>3. PICK n : n = [a EXCEPT !.step = s]
  OBVIOUS
<1>4. thread' = [th EXCEPT ![t] = n]
  BY <1>1, <1>2, <1>3 DEF At
<1>5. a = IF t = "main" THEN th.main ELSE th.button
  BY <1>2
<1>6. /\ t = "main" => n = [step |-> s, image |-> th.main.image, force |-> th.main.force]
      /\ t = "button" => n = [step |-> s, image |-> th.button.image, force |-> FALSE]
  BY <1>1, <1>3, <1>5 DEF ThreadsFit
<1>7. PICK th2 : th2 = thread'
  OBVIOUS
<1>8. ThreadsFit(th) /\ th2 = [th EXCEPT ![t] = n]
  BY <1>1, <1>4, <1>7
<1>9. /\ th2 = [main |-> th2.main, button |-> th2.button]
      /\ th2.main = IF t = "main" THEN n ELSE th.main
      /\ th2.button = IF t = "button" THEN n ELSE th.button
  <2>1. th = [main |-> th.main, button |-> th.button]
    BY <1>8 DEF ThreadsFit
  <2>2. PICK m : m = th.main
    OBVIOUS
  <2>3. PICK b : b = th.button
    OBVIOUS
  <2>4. th2 = [[main |-> m, button |-> b] EXCEPT ![t] = n]
    BY <1>8, <2>1, <2>2, <2>3
  <2>5. th2 = [main |-> IF t = "main" THEN n ELSE m, button |-> IF t = "button" THEN n ELSE b]
    BY <2>4
  <2> QED
    BY <2>2, <2>3, <2>5
<1>10. /\ t = "main" => /\ th2.button = th.button
                        /\ th2.main = [step |-> s, image |-> th.main.image, force |-> th.main.force]
       /\ t = "button" => /\ th2.main = th.main
                          /\ th2.button = [step |-> s, image |-> th.button.image, force |-> FALSE]
  BY <1>6, <1>9
<1> QED
  BY <1>1, <1>7, <1>9, <1>10 DEF Main

LEMMA ThreadsAre ==
  ASSUME NEW m, NEW b, thread' = [main |-> m, button |-> b],
         m \in [step : MainSteps, image : {m.image}, force : BOOLEAN],
         b \in [step : {"idle", "render", "show", "sign"}, image : {b.image}, force : {FALSE}],
         m.step = "compare" => Unlocked', Unlocked' => b.step = "idle",
         m.step \in {"loop", "update"} => ~m.force,
         m.step \in {"poll", "loop", "update", "render", "compare", "show", "sign"} => open'
  PROVE  ThreadsFit(thread)' /\ thread'.main = m /\ thread'.button = b
<1>1. thread'.main = m /\ thread'.button = b
  OBVIOUS
<1> QED
  BY <1>1 DEF ThreadsFit

LEMMA ThreadsWere ==
  ASSUME ThreadsFit(thread), NEW m, m = thread.main, NEW b, b = thread.button
  PROVE  /\ m \in [step : MainSteps, image : {m.image}, force : BOOLEAN]
         /\ b \in [step : {"idle", "render", "show", "sign"}, image : {b.image}, force : {FALSE}]
         /\ m = [step |-> m.step, image |-> m.image, force |-> m.force]
         /\ m.step = "compare" => Unlocked
         /\ Unlocked => b.step = "idle"
         /\ m.step \in {"loop", "update"} => ~m.force
         /\ m.step \in {"poll", "loop", "update", "render", "compare", "show", "sign"} => open
BY DEF ThreadsFit

(* What the daemon does to the launcher and the panel. *)
LEMMA DaemonMoves ==
  ASSUME PanelInv, UNCHANGED <<app, thread, open, ui, dirty, signature, stale>>,
         \/ panel' = panel /\ visible' = visible
         \/ visible' = TRUE
         \/ visible' \in BOOLEAN /\ Main.step = "ended",
         daemon' \in {"idle", "stopping", "stopped"}, daemon' = "stopped" => Main.step = "ended"
  PROVE  PanelInv'
<1>1. View(ui)' = View(ui)
  BY ViewThen
<1>2. visible' \in BOOLEAN
  BY DEF PanelInv
<1>3. /\ app' \in Apps /\ IsPage(ui') /\ {dirty', stale', open', visible'} \subseteq BOOLEAN
  BY <1>2 DEF PanelInv
<1>4. ThreadsFit(thread)'
  BY DEF PanelInv, ThreadsFit, Unlocked
<1>5. ASSUME Drawn(Main)'
      PROVE  Excused(Main, thread.button, View(ui))' /\ InTurn(Main)'
  <2>1. Drawn(Main) /\ Excused(Main, thread.button, View(ui)) /\ InTurn(Main)
    BY <1>5 DEF PanelInv, Drawn, Main
  <2>2. Main.step # "ended"
    BY <2>1 DEF Drawn
  <2>3. (panel' = panel /\ visible' = visible) \/ visible' = TRUE
    BY <2>2
  <2> QED
    BY <1>1, <2>1, <2>3 DEF Excused, InTurn, Carries, Shows, Main, Unlocked
<1> QED
  BY <1>3, <1>4, <1>5 DEF PanelInv, Main, IsPage

(* What does not matter before the first drawing and after the loop. *)
LEMMA NotDrawn ==
  ASSUME app' \in Apps, IsPage(ui'), {dirty', stale', open', visible'} \subseteq BOOLEAN,
         ThreadsFit(thread)', ~Drawn(thread'.main),
         daemon' \in {"idle", "stopping", "stopped"}, daemon' = "stopped" => thread'.main.step = "ended"
  PROVE  PanelInv'
BY DEF PanelInv, Main, IsPage, Drawn

(* The main thread's steps outside its loop. *)
LEMMA MainMoves ==
  ASSUME PanelInv, NEW s \in {"signals", "setup", "poll", "cleanup"}, At("main", s),
         Main.step \in {"start", "signals", "setup", "poll", "loop", "update", "show"},
         UNCHANGED <<app, ui, dirty, signature, stale, panel, visible, daemon>>,
         open' = open \/ open' = TRUE, s = "poll" => open'
  PROVE  PanelInv'
<1>1. ThreadsFit(thread) /\ app \in Apps /\ IsPage(ui) /\ {dirty, stale, open, visible} \subseteq BOOLEAN
      /\ daemon \in {"idle", "stopping"}
  BY DEF PanelInv
<1>2. /\ thread' = [main |-> thread'.main, button |-> thread'.button]
      /\ thread'.button = thread.button
      /\ thread'.main = [step |-> s, image |-> Main.image, force |-> Main.force]
  BY <1>1, StepIs
<1>3. ThreadsFit(thread)'
  <2>1. PICK m : m = Main
    OBVIOUS
  <2>2. PICK b : b = thread.button
    OBVIOUS
  <2>3. /\ m \in [step : MainSteps, image : {m.image}, force : BOOLEAN]
        /\ b \in [step : {"idle", "render", "show", "sign"}, image : {b.image}, force : {FALSE}]
        /\ Unlocked => b.step = "idle"
    BY <1>1, <2>1, <2>2, ThreadsWere DEF Main
  <2>4. PICK n : n = [step |-> s, image |-> m.image, force |-> m.force]
    OBVIOUS
  <2>5. /\ n \in [step : MainSteps, image : {n.image}, force : BOOLEAN]
        /\ n.step = s
    BY <2>3, <2>4 DEF MainSteps
  <2>6. thread' = [main |-> n, button |-> b]
    BY <1>2, <2>1, <2>2, <2>4
  <2>7. Unlocked' <=> Unlocked
    BY DEF Unlocked
  <2> QED
    BY <2>3, <2>5, <2>6, <2>7, ThreadsAre
<1>4. ~Drawn(thread'.main)
  BY <1>2 DEF Drawn
<1> QED
  BY <1>1, <1>3, <1>4, NotDrawn, Zenon

LEMMA EndedKeeps ==
  ASSUME PanelInv, Ended, UNCHANGED <<app, ui, dirty, signature, stale, panel, visible, daemon>>
  PROVE  PanelInv'
<1>1. thread' = [main |-> [Idle EXCEPT !.step = "ended"], button |-> Idle] /\ open' = FALSE
  BY DEF Ended
<1>2. /\ thread'.main = [step |-> "ended", image |-> Idle.image, force |-> FALSE]
      /\ thread'.button = Idle
  BY <1>1, IdleIs
<1>3. ThreadsFit(thread)'
  BY <1>1, <1>2, IdleIs DEF ThreadsFit, MainSteps
<1>4. ~Drawn(thread'.main)
  BY <1>2 DEF Drawn
<1>5. /\ app' \in Apps /\ IsPage(ui') /\ {dirty', stale', open', visible'} \subseteq BOOLEAN
      /\ daemon' \in {"idle", "stopping", "stopped"}
  BY <1>1 DEF PanelInv
<1> QED
  BY <1>2, <1>3, <1>4, <1>5, NotDrawn

LEMMA LaunchKeeps ==
  ASSUME PanelInv, NEW a \in Apps, Launch(a)
  PROVE  PanelInv'
<1>1. thread' = [main |-> [Idle EXCEPT !.step = "start"], button |-> Idle] /\ open' = FALSE
  BY DEF Launch, NewProcess
<1>2. /\ thread'.main = [step |-> "start", image |-> Idle.image, force |-> FALSE]
      /\ thread'.button = Idle
  BY <1>1, IdleIs
<1>3. ThreadsFit(thread)'
  BY <1>1, <1>2, IdleIs DEF ThreadsFit, MainSteps
<1>4. ~Drawn(thread'.main)
  BY <1>2 DEF Drawn
<1>5. /\ app' \in Apps /\ IsPage(ui') /\ {dirty', stale', open', visible'} \subseteq BOOLEAN
      /\ daemon' = "idle"
  BY <1>1, FirstPageIs DEF Launch, NewProcess, Free
<1> QED
  BY <1>2, <1>3, <1>4, <1>5, NotDrawn

LEMMA SetUpPollsKeeps ==
  ASSUME PanelInv, SetUpPolls
  PROVE  PanelInv'
<1>1. /\ ThreadsFit(thread) /\ app \in Apps /\ IsPage(ui) /\ {dirty, stale, open, visible} \subseteq BOOLEAN
      /\ daemon \in {"idle", "stopping"} /\ Main.step = "poll"
  BY DEF PanelInv, SetUpPolls
<1>2. PICK n : n = [thread.main EXCEPT !.step = "render", !.force = TRUE]
  OBVIOUS
<1>3. thread' = [thread EXCEPT !.main = n]
  BY <1>1, <1>2 DEF SetUpPolls, ThreadsFit
<1>4. n = [step |-> "render", image |-> Main.image, force |-> TRUE]
  BY <1>1, <1>2 DEF ThreadsFit, Main
<1>5. /\ thread' = [main |-> thread'.main, button |-> thread'.button]
      /\ thread'.main = n /\ thread'.button = thread.button
  BY <1>1, <1>3, ThreadIs
<1>6. /\ open' = open /\ app' = app /\ open
  BY <1>1 DEF SetUpPolls, ThreadsFit, Main
<1>7. ThreadsFit(thread)'
  <2>1. PICK b : b = thread.button
    OBVIOUS
  <2>2. PICK i : i = Main.image
    OBVIOUS
  <2>3. /\ b \in [step : {"idle", "render", "show", "sign"}, image : {b.image}, force : {FALSE}]
        /\ Unlocked => b.step = "idle"
    BY <1>1, <2>1 DEF ThreadsFit
  <2>4. n \in [step : MainSteps, image : {n.image}, force : BOOLEAN] /\ n.step = "render"
    BY <1>4, <2>2 DEF MainSteps
  <2>5. thread' = [main |-> n, button |-> b]
    BY <1>5, <2>1
  <2>6. (Unlocked' <=> Unlocked) /\ open'
    BY <1>6 DEF Unlocked
  <2> QED
    BY <2>3, <2>4, <2>5, <2>6, ThreadsAre
<1>8. ~Drawn(thread'.main)
  BY <1>4, <1>5 DEF Drawn
<1>9. IsPage(ui')
  BY <1>1, PolledIs DEF SetUpPolls
<1>10. dirty' \in BOOLEAN
  BY <1>1, Zenon DEF SetUpPolls, PollMarks
<1>11. {dirty', stale', open', visible'} \subseteq BOOLEAN /\ daemon' = daemon
  BY <1>1, <1>10 DEF SetUpPolls, manager
<1> QED
  BY <1>1, <1>6, <1>7, <1>8, <1>9, <1>11, NotDrawn

LEMMA SetIs ==
  ASSUME ThreadsFit(thread), NEW t \in {"main", "button"}, NEW n, thread' = [thread EXCEPT ![t] = n]
  PROVE  /\ t = "main" => thread' = [main |-> n, button |-> thread.button]
         /\ t = "button" => thread' = [main |-> thread.main, button |-> n]
<1>1. PICK m : m = thread.main
  OBVIOUS
<1>2. PICK b : b = thread.button
  OBVIOUS
<1>3. thread' = [[main |-> m, button |-> b] EXCEPT ![t] = n]
  BY <1>1, <1>2 DEF ThreadsFit
<1>4. thread' = [main |-> IF t = "main" THEN n ELSE m, button |-> IF t = "button" THEN n ELSE b]
  BY <1>3
<1> QED
  BY <1>1, <1>2, <1>4

-----------------------------------------------------------------------------
(* Drawing.                                                                *)

LEMMA TakeMainKeeps ==
  ASSUME PanelInv, Take("main")
  PROVE  PanelInv'
<1>1. PICK m : m = thread.main
  OBVIOUS
<1>2. PICK b : b = thread.button
  OBVIOUS
<1>3. PICK v : v = View(ui)
  OBVIOUS
<1>4. /\ ThreadsFit(thread) /\ app \in Apps /\ IsPage(ui) /\ {dirty, stale, open, visible} \subseteq BOOLEAN
      /\ daemon \in {"idle", "stopping"}
  BY DEF PanelInv, Take, Main
<1>5. /\ m \in [step : MainSteps, image : {m.image}, force : BOOLEAN]
      /\ b \in [step : {"idle", "render", "show", "sign"}, image : {b.image}, force : {FALSE}]
      /\ m.step = "render" /\ ~Unlocked /\ open
  BY <1>1, <1>2, <1>4, ThreadsWere DEF Take
<1>6. /\ UNCHANGED <<app, open, ui, signature, panel, visible, daemon>>
      /\ dirty' = FALSE
  BY DEF Take, manager
<1>7. PICK shows \in BOOLEAN : shows = (m.force \/ (dirty /\ ~Same(v, signature)))
  BY <1>4, <1>5
<1>8. PICK n : n = IF shows THEN [step |-> "show", image |-> v, force |-> FALSE]
                   ELSE [Idle EXCEPT !.step = "loop"]
  OBVIOUS
<1>9. /\ thread' = [thread EXCEPT !["main"] = n]
      /\ stale' = IF InFlight("button") THEN stale \/ dirty \/ m.force ELSE stale /\ ~shows
  <2>1. After("main") = "loop" /\ Other("main") = "button"
    BY DEF After, Other
  <2>2. PICK take \in BOOLEAN : take = (shows /\ open)
    BY <1>5
  <2>3. take = shows
    BY <1>5, <1>7, <2>2
  <2>4. /\ thread' = [thread EXCEPT !["main"] =
             IF shows /\ open THEN [step |-> "show", image |-> v, force |-> FALSE]
             ELSE [Idle EXCEPT !.step = "loop"]]
        /\ stale' = IF InFlight("button") THEN stale \/ dirty \/ m.force ELSE stale /\ ~(shows /\ open)
    BY <1>1, <1>3, <1>7, <2>1, Zenon DEF Take
  <2> QED
    BY <1>5, <1>8, <2>4
<1>10. thread' = [main |-> n, button |-> b]
  BY <1>2, <1>4, <1>9, SetIs
<1>11. /\ n \in [step : MainSteps, image : {n.image}, force : BOOLEAN] /\ n.force = FALSE
       /\ shows => n.step = "show" /\ n.image = v
       /\ ~shows => n.step = "loop"
  BY <1>8, IdleIs DEF MainSteps
<1>12. Unlocked' <=> Unlocked
  BY <1>6 DEF Unlocked
<1>13. ThreadsFit(thread)' /\ thread'.main = n /\ thread'.button = b
  BY <1>5, <1>6, <1>10, <1>11, <1>12, ThreadsAre
<1>14. InFlight("button") <=> Shows(b)
  BY <1>2, <1>5 DEF InFlight, Shows
<1>15. stale' \in BOOLEAN
  BY <1>4, <1>5, <1>9
<1>16. Excused(n, b, v)'
  <2> SUFFICES ASSUME ~stale'
               PROVE  /\ ~(n.step \in {"compare", "show", "sign"} /\ Shows(b))
                      /\ n.step \in {"compare", "show", "sign"} => Carries(n, v)'
                      /\ Shows(b) => Carries(b, v)'
                      /\ n.step \notin {"compare", "show", "sign"} /\ ~Shows(b) =>
                           /\ ~visible' => panel' = signature'
                           /\ ~dirty' => v = signature'
    BY DEF Excused, Shows
  <2>1. CASE shows
    <3>1. ~Shows(b)
      BY <1>4, <1>7, <1>9, <1>14, <2>1
    <3> QED
      BY <1>11, <2>1, <3>1 DEF Carries
  <2>2. CASE ~shows
    <3>1. Excused(m, b, v) /\ ~m.force /\ ~stale /\ (Shows(b) => ~dirty)
      <4>1. ~m.force
        BY <1>7, <2>2
      <4>2. Drawn(m)
        BY <1>5, <4>1 DEF Drawn
      <4> QED
        BY <1>1, <1>2, <1>3, <1>9, <1>14, <2>2, <4>1, <4>2 DEF PanelInv, Main
    <3>2. ~dirty \/ v = signature
      BY <1>7, <2>2 DEF Same
    <3> QED
      BY <1>5, <1>6, <1>11, <1>12, <2>2, <3>1, <3>2 DEF Excused, Carries
  <2> QED
    BY <2>1, <2>2
<1>17. InTurn(n)'
  BY <1>5, <1>12 DEF InTurn
<1>18. View(ui)' = v
  BY <1>3, <1>6, ViewThen
<1> QED
  BY <1>4, <1>6, <1>13, <1>15, <1>16, <1>17, <1>18 DEF PanelInv, Main, IsPage

LEMMA TakeButtonKeeps ==
  ASSUME PanelInv, Take("button")
  PROVE  PanelInv'
<1>1. PICK m : m = thread.main
  OBVIOUS
<1>2. PICK b : b = thread.button
  OBVIOUS
<1>3. PICK v : v = View(ui)
  OBVIOUS
<1>4. /\ ThreadsFit(thread) /\ app \in Apps /\ IsPage(ui) /\ {dirty, stale, open, visible} \subseteq BOOLEAN
      /\ daemon \in {"idle", "stopping", "stopped"} /\ daemon = "stopped" => m.step = "ended"
  BY <1>1 DEF PanelInv, Main
<1>5. /\ m \in [step : MainSteps, image : {m.image}, force : BOOLEAN]
      /\ b \in [step : {"idle", "render", "show", "sign"}, image : {b.image}, force : {FALSE}]
      /\ m.step = "compare" => Unlocked
      /\ m.step \in {"loop", "update"} => ~m.force
      /\ m.step \in {"poll", "loop", "update", "render", "compare", "show", "sign"} => open
      /\ b.step = "render" /\ ~Unlocked /\ b.force = FALSE
  <2>1. b.step = "render" /\ ~Unlocked
    BY <1>2 DEF Take
  <2>2. b.force = FALSE
    BY <1>2, <1>4 DEF ThreadsFit
  <2> QED
    BY <1>1, <1>2, <1>4, <2>1, <2>2, ThreadsWere
<1>6. /\ UNCHANGED <<app, open, ui, signature, panel, visible, daemon>>
      /\ dirty' = FALSE
  BY DEF Take, manager
<1>7. PICK shows \in BOOLEAN : shows = (b.force \/ (dirty /\ ~Same(v, signature)))
  BY <1>4, <1>5
<1>8. PICK n : n = IF shows /\ open THEN [step |-> "show", image |-> v, force |-> FALSE]
                   ELSE [Idle EXCEPT !.step = "idle"]
  OBVIOUS
<1>9. /\ thread' = [thread EXCEPT !["button"] = n]
      /\ stale' = IF InFlight("main") THEN stale \/ dirty \/ b.force ELSE stale /\ ~(shows /\ open)
  <2>1. After("button") = "idle" /\ Other("button") = "main"
    BY DEF After, Other
  <2>2. /\ thread' = [thread EXCEPT !["button"] =
             IF shows /\ open THEN [step |-> "show", image |-> v, force |-> FALSE]
             ELSE [Idle EXCEPT !.step = "idle"]]
        /\ stale' = IF InFlight("main") THEN stale \/ dirty \/ b.force ELSE stale /\ ~(shows /\ open)
    BY <1>2, <1>3, <1>7, <2>1, Zenon DEF Take
  <2> QED
    BY <1>8, <2>2
<1>10. thread' = [main |-> m, button |-> n]
  BY <1>1, <1>4, <1>9, SetIs
<1>11. /\ n \in [step : {"idle", "render", "show", "sign"}, image : {n.image}, force : {FALSE}]
       /\ shows /\ open => n.step = "show" /\ n.image = v
       /\ ~(shows /\ open) => n.step = "idle"
  BY <1>8, IdleIs
<1>12. Unlocked' <=> Unlocked
  BY <1>6 DEF Unlocked
<1>13. ThreadsFit(thread)' /\ thread'.main = m /\ thread'.button = n
  BY <1>5, <1>6, <1>10, <1>11, <1>12, ThreadsAre
<1>14. InFlight("main") <=> m.step \in {"compare", "show", "sign"}
  BY <1>1 DEF InFlight
<1>15. stale' \in BOOLEAN
  BY <1>4, <1>5, <1>9
<1>16. ASSUME Drawn(m)
       PROVE  Excused(m, n, v)'
  <2> SUFFICES ASSUME ~stale'
               PROVE  /\ ~(m.step \in {"compare", "show", "sign"} /\ Shows(n))
                      /\ m.step \in {"compare", "show", "sign"} => Carries(m, v)'
                      /\ Shows(n) => Carries(n, v)'
                      /\ m.step \notin {"compare", "show", "sign"} /\ ~Shows(n) =>
                           /\ ~visible' => panel' = signature'
                           /\ ~dirty' => v = signature'
    BY DEF Excused, Shows
  <2>1. open /\ Excused(m, b, v) /\ ~Shows(b)
    BY <1>1, <1>2, <1>3, <1>5, <1>16 DEF Drawn, PanelInv, Main, Shows
  <2>2. CASE shows
    <3>1. m.step \notin {"compare", "show", "sign"}
      BY <1>4, <1>5, <1>7, <1>9, <1>14, <2>2
    <3> QED
      BY <1>11, <2>1, <2>2, <3>1 DEF Carries, Shows
  <2>3. CASE ~shows
    <3>1. ~stale /\ (m.step \in {"compare", "show", "sign"} => ~dirty)
      BY <1>9, <1>14, <2>3
    <3>2. ~dirty \/ v = signature
      BY <1>7, <2>3 DEF Same
    <3> QED
      BY <1>5, <1>6, <1>11, <1>12, <2>1, <2>3, <3>1, <3>2 DEF Excused, Carries, Shows
  <2> QED
    BY <2>2, <2>3
<1>17. InTurn(m)'
  BY <1>5, <1>12 DEF InTurn
<1>18. View(ui)' = v
  BY <1>3, <1>6, ViewThen
<1> QED
  BY <1>1, <1>4, <1>6, <1>13, <1>15, <1>16, <1>17, <1>18 DEF PanelInv, Main, IsPage, Drawn

(* What a step of one thread has at hand: the threads and the page. *)
LEMMA AtHand ==
  ASSUME PanelInv, NEW m, m = thread.main, NEW b, b = thread.button
  PROVE  /\ ThreadsFit(thread) /\ app \in Apps /\ IsPage(ui)
         /\ dirty \in BOOLEAN /\ stale \in BOOLEAN /\ open \in BOOLEAN /\ visible \in BOOLEAN
         /\ daemon \in {"idle", "stopping", "stopped"} /\ (daemon = "stopped" => m.step = "ended")
         /\ m \in [step : MainSteps, image : {m.image}, force : BOOLEAN]
         /\ b \in [step : {"idle", "render", "show", "sign"}, image : {b.image}, force : {FALSE}]
         /\ m = [step |-> m.step, image |-> m.image, force |-> m.force]
         /\ m.step = "compare" => Unlocked
         /\ Unlocked => b.step = "idle"
         /\ m.step \in {"loop", "update"} => ~m.force
         /\ m.step \in {"poll", "loop", "update", "render", "compare", "show", "sign"} => open
         /\ Drawn(m) => Excused(m, b, View(ui)) /\ InTurn(m)
<1>1. ThreadsFit(thread)
  BY DEF PanelInv
<1>2. /\ app \in Apps /\ IsPage(ui)
      /\ dirty \in BOOLEAN /\ stale \in BOOLEAN /\ open \in BOOLEAN /\ visible \in BOOLEAN
      /\ daemon \in {"idle", "stopping", "stopped"} /\ (daemon = "stopped" => m.step = "ended")
      /\ Drawn(m) => Excused(m, b, View(ui)) /\ InTurn(m)
  BY DEF PanelInv, Main
<1> QED
  BY <1>1, <1>2, ThreadsWere

LEMMA PanelGoes ==
  ASSUME NEW n, NEW c, NEW v, app' \in Apps, IsPage(ui'), dirty' \in BOOLEAN, stale' \in BOOLEAN,
         open' \in BOOLEAN, visible' \in BOOLEAN, ThreadsFit(thread)', thread'.main = n, thread'.button = c,
         daemon' \in {"idle", "stopping", "stopped"}, daemon' = "stopped" => n.step = "ended",
         View(ui)' = v, Drawn(n) => Excused(n, c, v)' /\ InTurn(n)'
  PROVE  PanelInv'
BY DEF PanelInv, Main, IsPage, Drawn

LEMMA DrawKeeps ==
  ASSUME PanelInv, Draw
  PROVE  PanelInv'
<1>1. PICK m : m = thread.main
  OBVIOUS
<1>2. PICK b : b = thread.button
  OBVIOUS
<1>3. PICK v : v = View(ui)
  OBVIOUS
<1>4. /\ UNCHANGED <<app, open, ui, dirty, signature, panel, visible, daemon>>
      /\ stale' = FALSE /\ m.step = "render" /\ Unlocked
  BY <1>1 DEF Draw, manager, Main
<1>5. b.step = "idle" /\ open /\ daemon # "stopped"
  BY <1>1, <1>2, <1>4, AtHand
<1>6. PICK n : n = [m EXCEPT !.step = "compare", !.image = v]
  OBVIOUS
<1>7. thread' = [main |-> n, button |-> b]
  <2>1. thread' = [thread EXCEPT !["main"] = n]
    BY <1>1, <1>2, <1>3, <1>6, AtHand DEF Draw, ThreadsFit
  <2> QED
    BY <1>1, <1>2, <2>1, AtHand, SetIs
<1>8. /\ n = [step |-> "compare", image |-> v, force |-> m.force]
      /\ n \in [step : MainSteps, image : {n.image}, force : BOOLEAN]
  <2>1. m \in [step : MainSteps, image : {m.image}, force : BOOLEAN]
    BY <1>1, <1>2, AtHand
  <2>2. m.force \in BOOLEAN /\ "compare" \in MainSteps
    BY <2>1 DEF MainSteps
  <2>3. n = [step |-> "compare", image |-> v, force |-> m.force]
    BY <1>6, <2>1
  <2> QED
    BY <2>2, <2>3
<1>9. n.step = "compare" /\ n.image = v /\ n.force = m.force
  BY <1>8
<1>10. Unlocked'
  BY <1>4 DEF Unlocked
<1>11. b \in [step : {"idle", "render", "show", "sign"}, image : {b.image}, force : {FALSE}]
  BY <1>1, <1>2, AtHand
<1>12. ThreadsFit(thread)' /\ thread'.main = n /\ thread'.button = b
  BY <1>4, <1>5, <1>7, <1>8, <1>9, <1>10, <1>11, ThreadsAre
<1>13. Excused(n, b, v)'
  BY <1>5, <1>9 DEF Excused, Carries, Shows
<1>14. InTurn(n)'
  <2>1. ~m.force => InTurn(m)
    BY <1>1, <1>2, <1>4, AtHand DEF Drawn
  <2> QED
    BY <1>4, <1>9, <2>1 DEF InTurn
<1>15. View(ui)' = v
  BY <1>3, <1>4, ViewThen
<1>16. /\ app' \in Apps /\ IsPage(ui') /\ dirty' \in BOOLEAN /\ stale' \in BOOLEAN /\ open' \in BOOLEAN
       /\ visible' \in BOOLEAN /\ daemon' \in {"idle", "stopping", "stopped"} /\ daemon' # "stopped"
  BY <1>1, <1>2, <1>4, <1>5, AtHand
<1> QED
  BY <1>12, <1>13, <1>14, <1>15, <1>16, PanelGoes

(* A thread that goes on to another step, with the same image. *)
LEMMA MainGoes ==
  ASSUME PanelInv, NEW m, m = thread.main, NEW b, b = thread.button, NEW s \in MainSteps, At("main", s),
         app' = app, s = "compare" => Unlocked, s \in {"loop", "update"} => ~m.force,
         s \in {"poll", "loop", "update", "render", "compare", "show", "sign"} => open'
  PROVE  \E n : /\ ThreadsFit(thread)' /\ thread'.main = n /\ thread'.button = b
                /\ n.step = s /\ n.image = m.image /\ n.force = m.force
<1>1. /\ thread' = [main |-> thread'.main, button |-> thread'.button]
      /\ thread'.button = b /\ thread'.main = [step |-> s, image |-> m.image, force |-> m.force]
  BY AtHand, StepIs DEF Main
<1>2. PICK n : n = [step |-> s, image |-> m.image, force |-> m.force]
  OBVIOUS
<1>3. n \in [step : MainSteps, image : {n.image}, force : BOOLEAN] /\ n.step = s /\ n.force = m.force
      /\ n.image = m.image
  BY <1>2, AtHand
<1>4. thread' = [main |-> n, button |-> b]
  BY <1>1, <1>2
<1>5. Unlocked' <=> Unlocked
  BY DEF Unlocked
<1>6. /\ b \in [step : {"idle", "render", "show", "sign"}, image : {b.image}, force : {FALSE}]
      /\ Unlocked => b.step = "idle"
  BY AtHand
<1>7. /\ n.step = "compare" => Unlocked'
      /\ Unlocked' => b.step = "idle"
      /\ n.step \in {"loop", "update"} => ~n.force
      /\ n.step \in {"poll", "loop", "update", "render", "compare", "show", "sign"} => open'
  BY <1>3, <1>5, <1>6
<1>8. ThreadsFit(thread)' /\ thread'.main = n /\ thread'.button = b
  BY <1>3, <1>4, <1>6, <1>7, ThreadsAre
<1> QED
  BY <1>3, <1>8

LEMMA ButtonGoes ==
  ASSUME PanelInv, NEW m, m = thread.main, NEW b, b = thread.button,
         NEW s \in {"idle", "render", "show", "sign"}, At("button", s),
         app' = app, Unlocked => s = "idle", open' = open
  PROVE  \E c : /\ ThreadsFit(thread)' /\ thread'.main = m /\ thread'.button = c
                /\ c.step = s /\ c.image = b.image
<1>1. /\ thread' = [main |-> thread'.main, button |-> thread'.button]
      /\ thread'.main = m /\ thread'.button = [step |-> s, image |-> b.image, force |-> FALSE]
  BY AtHand, StepIs
<1>2. PICK c : c = [step |-> s, image |-> b.image, force |-> FALSE]
  OBVIOUS
<1>3. c \in [step : {"idle", "render", "show", "sign"}, image : {c.image}, force : {FALSE}]
      /\ c.step = s /\ c.image = b.image
  BY <1>2
<1>4. thread' = [main |-> m, button |-> c]
  BY <1>1, <1>2
<1>5. Unlocked' <=> Unlocked
  BY DEF Unlocked
<1>6. /\ m \in [step : MainSteps, image : {m.image}, force : BOOLEAN]
      /\ m.step = "compare" => Unlocked
      /\ m.step \in {"loop", "update"} => ~m.force
      /\ m.step \in {"poll", "loop", "update", "render", "compare", "show", "sign"} => open
  BY AtHand
<1>7. ThreadsFit(thread)' /\ thread'.main = m /\ thread'.button = c
  BY <1>3, <1>4, <1>5, <1>6, ThreadsAre
<1> QED
  BY <1>3, <1>7

LEMMA CompareKeeps ==
  ASSUME PanelInv, Compare
  PROVE  PanelInv'
<1>1. PICK m : m = thread.main
  OBVIOUS
<1>2. PICK b : b = thread.button
  OBVIOUS
<1>3. PICK v : v = View(ui)
  OBVIOUS
<1>4. PICK same \in BOOLEAN : same <=> ~m.force /\ m.image = signature
  OBVIOUS
<1>5. PICK s : s = IF same THEN "loop" ELSE "show"
  OBVIOUS
<1>6. /\ UNCHANGED <<app, open, ui, stale, signature, panel, visible, daemon>>
      /\ m.step = "compare" /\ At("main", s) /\ (dirty' <=> dirty /\ ~same) /\ dirty' \in BOOLEAN
  BY <1>1, <1>4, <1>5, Zenon DEF Compare, manager, Main, Same, At
<1>7. Unlocked /\ b.step = "idle" /\ open /\ daemon # "stopped" /\ Excused(m, b, v) /\ InTurn(m)
  BY <1>1, <1>2, <1>3, <1>6, AtHand DEF Drawn
<1>8. PICK n : /\ ThreadsFit(thread)' /\ thread'.main = n /\ thread'.button = b
               /\ n.step = s /\ n.image = m.image /\ n.force = m.force
  <2>1. s \in MainSteps /\ (s \in {"loop", "update"} => ~m.force) /\ s # "compare" /\ open'
    BY <1>4, <1>5, <1>6, <1>7 DEF MainSteps
  <2> QED
    BY <1>1, <1>2, <1>6, <2>1, MainGoes
<1>9. Excused(n, b, v)'
  BY <1>4, <1>5, <1>6, <1>7, <1>8 DEF Excused, Carries, Shows, InTurn, Unlocked
<1>10. InTurn(n)'
  BY <1>4, <1>5, <1>6, <1>7, <1>8 DEF InTurn, Unlocked
<1>11. View(ui)' = v
  BY <1>3, <1>6, ViewThen
<1>12. /\ app' \in Apps /\ IsPage(ui') /\ stale' \in BOOLEAN /\ open' \in BOOLEAN
       /\ visible' \in BOOLEAN /\ daemon' \in {"idle", "stopping", "stopped"} /\ daemon' # "stopped"
  BY <1>1, <1>2, <1>6, <1>7, AtHand
<1> QED
  BY <1>6, <1>8, <1>9, <1>10, <1>11, <1>12, PanelGoes

LEMMA ShowKeeps ==
  ASSUME PanelInv, NEW t \in {"main", "button"}, Show(t)
  PROVE  PanelInv'
<1>1. PICK m : m = thread.main
  OBVIOUS
<1>2. PICK b : b = thread.button
  OBVIOUS
<1>3. PICK v : v = View(ui)
  OBVIOUS
<1>4. /\ UNCHANGED <<app, open, ui, dirty, stale, signature, visible, daemon>> /\ At(t, "sign")
  BY DEF Show, manager
<1>5. View(ui)' = v
  BY <1>3, <1>4, ViewThen
<1>6. /\ app' \in Apps /\ IsPage(ui') /\ dirty' \in BOOLEAN /\ stale' \in BOOLEAN /\ open' \in BOOLEAN
      /\ visible' \in BOOLEAN /\ daemon' \in {"idle", "stopping", "stopped"}
      /\ (daemon' = "stopped" => m.step = "ended")
  BY <1>1, <1>2, <1>4, AtHand
<1>7. CASE t = "main"
  <2>1. m.step = "show" /\ panel' = m.image
    BY <1>1, <1>7 DEF Show
  <2>2. open /\ Excused(m, b, v)
    BY <1>1, <1>2, <1>3, <2>1, AtHand DEF Drawn
  <2>3. PICK n : /\ ThreadsFit(thread)' /\ thread'.main = n /\ thread'.button = b
                 /\ n.step = "sign" /\ n.image = m.image /\ n.force = m.force
    <3>1. "sign" \in MainSteps
      BY DEF MainSteps
    <3> QED
      BY <1>1, <1>2, <1>4, <1>7, <2>2, <3>1, MainGoes
  <2>4. Excused(n, b, v)' /\ InTurn(n)'
    BY <1>4, <2>1, <2>2, <2>3 DEF Excused, Carries, Shows, InTurn, Unlocked
  <2> QED
    BY <1>5, <1>6, <2>1, <2>3, <2>4, PanelGoes
<1>8. CASE t = "button"
  <2>1. b.step = "show" /\ panel' = b.image /\ ~Unlocked
    BY <1>1, <1>2, <1>8, AtHand DEF Show
  <2>2. PICK c : /\ ThreadsFit(thread)' /\ thread'.main = m /\ thread'.button = c
                 /\ c.step = "sign" /\ c.image = b.image
    BY <1>1, <1>2, <1>4, <1>8, <2>1, ButtonGoes
  <2>3. Drawn(m) => Excused(m, b, v)
    BY <1>1, <1>2, <1>3, AtHand
  <2>4. Drawn(m) => Excused(m, c, v)' /\ InTurn(m)'
    BY <1>4, <2>1, <2>2, <2>3 DEF Excused, Carries, Shows, InTurn, Unlocked
  <2> QED
    BY <1>5, <1>6, <2>2, <2>4, PanelGoes
<1> QED
  BY <1>7, <1>8

LEMMA SignKeeps ==
  ASSUME PanelInv, NEW t \in {"main", "button"}, Sign(t)
  PROVE  PanelInv'
<1>1. PICK m : m = thread.main
  OBVIOUS
<1>2. PICK b : b = thread.button
  OBVIOUS
<1>3. PICK v : v = View(ui)
  OBVIOUS
<1>4. PICK n : n = [Idle EXCEPT !.step = After(t)]
  OBVIOUS
<1>5. /\ UNCHANGED <<app, open, ui, stale, panel, visible, daemon>>
      /\ (dirty' <=> dirty /\ ~Unlocked) /\ dirty' \in BOOLEAN
      /\ thread' = [thread EXCEPT ![t] = n]
  <2>1. dirty' = (dirty /\ ~Unlocked)
    BY DEF Sign
  <2> QED
    BY <1>4, <2>1, Zenon DEF Sign, manager
<1>6. ThreadsFit(thread)
  BY DEF PanelInv
<1>7. View(ui)' = v
  BY <1>3, <1>5, ViewThen
<1>8. /\ app' \in Apps /\ IsPage(ui') /\ stale' \in BOOLEAN /\ open' \in BOOLEAN
      /\ visible' \in BOOLEAN /\ daemon' \in {"idle", "stopping", "stopped"}
      /\ (daemon' = "stopped" => m.step = "ended")
  BY <1>1, <1>2, <1>5, AtHand
<1>9. Unlocked' <=> Unlocked
  BY <1>5 DEF Unlocked
<1>10. CASE t = "main"
  <2>1. m.step = "sign" /\ signature' = m.image
    BY <1>1, <1>10 DEF Sign
  <2>2. open /\ Excused(m, b, v) /\ InTurn(m)
    BY <1>1, <1>2, <1>3, <2>1, AtHand DEF Drawn
  <2>3. thread' = [main |-> n, button |-> b]
    BY <1>2, <1>5, <1>6, <1>10, SetIs
  <2>4. n \in [step : MainSteps, image : {n.image}, force : BOOLEAN] /\ n.step = "loop" /\ n.force = FALSE
    BY <1>4, <1>10, IdleIs DEF After, MainSteps
  <2>5. /\ b \in [step : {"idle", "render", "show", "sign"}, image : {b.image}, force : {FALSE}]
        /\ Unlocked => b.step = "idle"
    BY <1>1, <1>2, AtHand
  <2>6. ThreadsFit(thread)' /\ thread'.main = n /\ thread'.button = b
    <3>1. /\ n.step = "compare" => Unlocked'
          /\ Unlocked' => b.step = "idle"
          /\ n.step \in {"loop", "update"} => ~n.force
          /\ n.step \in {"poll", "loop", "update", "render", "compare", "show", "sign"} => open'
      BY <1>5, <1>9, <2>2, <2>4, <2>5
    <3> QED
      BY <2>3, <2>4, <2>5, <3>1, ThreadsAre
  <2>7. Excused(n, b, v)'
    BY <1>5, <1>9, <2>1, <2>2, <2>4, <2>5 DEF Excused, Carries, Shows
  <2>8. InTurn(n)'
    BY <1>5, <1>9, <2>1, <2>2, <2>4 DEF InTurn
  <2> QED
    BY <1>5, <1>7, <1>8, <2>1, <2>6, <2>7, <2>8, PanelGoes
<1>11. CASE t = "button"
  <2>1. b.step = "sign" /\ signature' = b.image
    BY <1>2, <1>11 DEF Sign
  <2>2. ~Unlocked /\ (Drawn(m) => Excused(m, b, v))
    BY <1>1, <1>2, <1>3, <2>1, AtHand
  <2>3. thread' = [main |-> m, button |-> n]
    BY <1>1, <1>5, <1>6, <1>11, SetIs
  <2>4. n \in [step : {"idle", "render", "show", "sign"}, image : {n.image}, force : {FALSE}] /\ n.step = "idle"
    BY <1>4, <1>11, IdleIs DEF After
  <2>5. m \in [step : MainSteps, image : {m.image}, force : BOOLEAN]
    BY <1>1, <1>2, AtHand
  <2>6. ThreadsFit(thread)' /\ thread'.main = m /\ thread'.button = n
    <3>1. /\ m.step = "compare" => Unlocked'
          /\ Unlocked' => n.step = "idle"
          /\ m.step \in {"loop", "update"} => ~m.force
          /\ m.step \in {"poll", "loop", "update", "render", "compare", "show", "sign"} => open'
      BY <1>1, <1>2, <1>5, <1>9, <2>4, AtHand
    <3> QED
      BY <2>3, <2>4, <2>5, <3>1, ThreadsAre
  <2>7. Drawn(m) => Excused(m, n, v)' /\ InTurn(m)'
    BY <1>5, <1>9, <2>1, <2>2, <2>4 DEF Excused, Carries, Shows, InTurn
  <2> QED
    BY <1>5, <1>7, <1>8, <2>6, <2>7, PanelGoes
<1> QED
  BY <1>10, <1>11

LEMMA ShowFailsKeeps ==
  ASSUME PanelInv, ShowFails
  PROVE  PanelInv'
<1>1. PICK m : m = thread.main
  OBVIOUS
<1>2. PICK b : b = thread.button
  OBVIOUS
<1>3. PICK v : v = View(ui)
  OBVIOUS
<1>4. /\ UNCHANGED <<app, open, ui, dirty, signature, panel, visible, daemon>>
      /\ stale' = TRUE /\ At("button", "idle") /\ b.step = "show"
  BY <1>2 DEF ShowFails, manager
<1>5. ~Unlocked
  BY <1>1, <1>2, <1>4, AtHand
<1>6. PICK c : /\ ThreadsFit(thread)' /\ thread'.main = m /\ thread'.button = c
               /\ c.step = "idle" /\ c.image = b.image
  BY <1>1, <1>2, <1>4, ButtonGoes
<1>7. View(ui)' = v
  BY <1>3, <1>4, ViewThen
<1>8. Excused(m, c, v)' /\ InTurn(m)'
  BY <1>4, <1>5 DEF Excused, InTurn, Unlocked
<1>9. /\ app' \in Apps /\ IsPage(ui') /\ dirty' \in BOOLEAN /\ stale' \in BOOLEAN /\ open' \in BOOLEAN
      /\ visible' \in BOOLEAN /\ daemon' \in {"idle", "stopping", "stopped"}
      /\ (daemon' = "stopped" => m.step = "ended")
  BY <1>1, <1>2, <1>4, AtHand
<1> QED
  BY <1>6, <1>7, <1>8, <1>9, PanelGoes

-----------------------------------------------------------------------------
(* The loop of the main thread.                                            *)

LEMMA LoopsKeeps ==
  ASSUME PanelInv, Loops
  PROVE  PanelInv'
<1>1. PICK m : m = thread.main
  OBVIOUS
<1>2. PICK b : b = thread.button
  OBVIOUS
<1>3. PICK v : v = View(ui)
  OBVIOUS
<1>4. /\ UNCHANGED <<app, open, ui, dirty, stale, signature, panel, visible, daemon>>
      /\ m.step = "loop" /\ At("main", IF running THEN "update" ELSE "cleanup")
  BY <1>1 DEF Loops, manager, Main
<1>5. CASE running
  <2>1. /\ open /\ Excused(m, b, v) /\ InTurn(m) /\ ~m.force /\ "update" \in MainSteps /\ open'
        /\ At("main", "update")
    BY <1>1, <1>2, <1>3, <1>4, <1>5, AtHand DEF Drawn, MainSteps
  <2>2. PICK n : /\ ThreadsFit(thread)' /\ thread'.main = n /\ thread'.button = b
                 /\ n.step = "update" /\ n.image = m.image /\ n.force = m.force
    BY <1>1, <1>2, <1>4, <2>1, MainGoes
  <2>3. Excused(n, b, v)' /\ InTurn(n)'
    BY <1>4, <2>1, <2>2 DEF Excused, Carries, InTurn, Unlocked, Shows
  <2>4. View(ui)' = v
    BY <1>3, <1>4, ViewThen
  <2>5. /\ app' \in Apps /\ IsPage(ui') /\ dirty' \in BOOLEAN /\ stale' \in BOOLEAN /\ open' \in BOOLEAN
        /\ visible' \in BOOLEAN /\ daemon' \in {"idle", "stopping", "stopped"} /\ daemon' # "stopped"
    BY <1>1, <1>2, <1>4, AtHand
  <2> QED
    BY <2>2, <2>3, <2>4, <2>5, PanelGoes
<1>6. CASE ~running
  BY <1>1, <1>4, <1>6, MainMoves DEF Main
<1> QED
  BY <1>5, <1>6

(* After an update that marks nothing and excuses nothing, the page is as it was. *)
LEMMA UpdateIs ==
  ASSUME PanelInv, Update
  PROVE  /\ IsPage(ui') /\ dirty' \in BOOLEAN /\ stale' \in BOOLEAN
         /\ ~dirty' /\ ~stale' => ~dirty /\ View(ui') = View(ui)
         /\ (stale \/ dirty => stale' \/ dirty') /\ (stale => stale') /\ (dirty => dirty')
<1>1. app \in Apps /\ IsPage(ui) /\ dirty \in BOOLEAN /\ stale \in BOOLEAN
  BY DEF PanelInv
<1>2. PICK spent \in {ui, [ui EXCEPT !.status = FALSE]} :
        /\ ui' \in Polled(spent) \cup IF HasCode THEN {spent} ELSE {}
        /\ dirty' = (dirty \/ spent # ui \/ PollMarks(spent, ui'))
        /\ stale' = (stale \/ ShownCodeChanged(spent, ui'))
  BY DEF Update
<1>3. IsPage(spent)
  BY <1>1 DEF IsPage
<1>4. ui' \in Polled(spent) \/ ui' = spent
  BY <1>2
<1>5. IsPage(ui')
  BY <1>3, <1>4, PolledIs
<1>6. PICK p : p = ui'
  OBVIOUS
<1>7. PICK q \in BOOLEAN : q = (spent # ui)
  OBVIOUS
<1>8. PICK r \in BOOLEAN : r = PollMarks(spent, p)
  BY DEF PollMarks
<1>9. PICK c \in BOOLEAN : c = ShownCodeChanged(spent, p)
  BY Zenon DEF ShownCodeChanged
<1>10. dirty' = (dirty \/ q \/ r) /\ stale' = (stale \/ c)
  BY <1>2, <1>6, <1>7, <1>8, <1>9, Zenon
<1>11. ASSUME ~dirty', ~stale'
       PROVE  ~dirty /\ View(p) = View(ui)
  <2>1. ~dirty /\ ~q /\ ~r /\ ~c
    BY <1>1, <1>10, <1>11
  <2>2. spent = ui /\ ~PollMarks(spent, p) /\ ~ShownCodeChanged(spent, p)
    BY <1>7, <1>8, <1>9, <2>1
  <2>3. p \in Polled(spent) \/ p = spent
    BY <1>4, <1>6
  <2>4. View(p) = View(spent)
    BY <1>1, <1>3, <2>2, <2>3, OnlyTheCode
  <2> QED
    BY <2>1, <2>2, <2>4
<1>12. dirty' \in BOOLEAN /\ stale' \in BOOLEAN /\ (stale => stale') /\ (dirty => dirty')
  BY <1>1, <1>10
<1> QED
  BY <1>5, <1>6, <1>11, <1>12

LEMMA UpdateKeeps ==
  ASSUME PanelInv, Update
  PROVE  PanelInv'
<1>1. PICK m : m = thread.main
  OBVIOUS
<1>2. PICK b : b = thread.button
  OBVIOUS
<1>3. PICK v : v = View(ui)
  OBVIOUS
<1>4. PICK w : w = View(ui')
  OBVIOUS
<1>5. PICK s : s = IF Unlocked /\ ~dirty' THEN "loop" ELSE "render"
  OBVIOUS
<1>6. /\ UNCHANGED <<app, open, signature, panel, visible, daemon>>
      /\ m.step = "update" /\ At("main", s)
  BY <1>1, <1>5 DEF Update, manager, Main
<1>7. /\ IsPage(ui') /\ dirty' \in BOOLEAN /\ stale' \in BOOLEAN
      /\ ~dirty' /\ ~stale' => ~dirty /\ w = v
      /\ (stale => stale') /\ (dirty => dirty')
  BY <1>3, <1>4, UpdateIs
<1>8. /\ open /\ Excused(m, b, v) /\ InTurn(m) /\ ~m.force /\ daemon # "stopped"
  BY <1>1, <1>2, <1>3, <1>6, AtHand DEF Drawn
<1>9. PICK n : /\ ThreadsFit(thread)' /\ thread'.main = n /\ thread'.button = b
               /\ n.step = s /\ n.image = m.image /\ n.force = m.force
  <2>1. s \in MainSteps /\ (s \in {"loop", "update"} => ~m.force) /\ s # "compare" /\ open'
    BY <1>5, <1>6, <1>8 DEF MainSteps
  <2> QED
    BY <1>1, <1>2, <1>6, <2>1, MainGoes
<1>10. View(ui)' = w
  BY <1>4, <1>6, ViewThen
<1>11. s \in {"loop", "render"} /\ (Unlocked' <=> Unlocked)
  BY <1>5, <1>6 DEF Unlocked
<1>12. Unlocked => b.step = "idle"
  BY <1>1, <1>2, AtHand
<1>13. Excused(n, b, w)'
  BY <1>6, <1>7, <1>8, <1>9, <1>11, <1>12 DEF Excused, Carries, Shows
<1>14. InTurn(n)'
  BY <1>6, <1>8, <1>9, <1>11 DEF InTurn
<1>15. /\ app' \in Apps /\ open' \in BOOLEAN
       /\ visible' \in BOOLEAN /\ daemon' \in {"idle", "stopping", "stopped"} /\ daemon' # "stopped"
  BY <1>1, <1>2, <1>6, <1>8, AtHand
<1> QED
  BY <1>7, <1>9, <1>10, <1>13, <1>14, <1>15, PanelGoes

-----------------------------------------------------------------------------
(* A press.                                                                *)

LEMMA HandleKeeps ==
  ASSUME PanelInv, Handle
  PROVE  PanelInv'
<1>1. PICK m : m = thread.main
  OBVIOUS
<1>2. PICK b : b = thread.button
  OBVIOUS
<1>3. PICK v : v = View(ui)
  OBVIOUS
<1>4. PICK w : w = View(ui')
  OBVIOUS
<1>5. PICK k : k = Head(queue)
  OBVIOUS
<1>6. /\ UNCHANGED <<app, open, signature, panel, visible, daemon>> /\ b.step = "idle"
  BY <1>2 DEF Handle, manager
<1>7. CASE ~Ready
  <2>1. UNCHANGED <<thread, ui, dirty, stale>>
    BY <1>7 DEF Handle
  <2> QED
    BY <1>6, <2>1, AtHand, DaemonMoves DEF Main
<1>8. CASE Ready
  <2>1. PICK s : s = IF Unlocked THEN "idle" ELSE "render"
    OBVIOUS
  <2>2. /\ ui' \in IF PressPolls(ui, k) THEN {Pressed(u, k) : u \in Polled(ui)} ELSE {Pressed(ui, k)}
        /\ dirty' = (dirty \/ ~(app = "mode_selector" /\ GoesBack(ui, k)))
        /\ stale' = (stale \/ (Unlocked /\ InFlight("main")))
        /\ At("button", s)
    BY <1>5, <1>8, <2>1, Zenon DEF Handle
  <2>3. app \in Apps /\ IsPage(ui) /\ dirty \in BOOLEAN /\ stale \in BOOLEAN
    BY DEF PanelInv
  <2>4. IsPage(ui')
    <3>1. CASE PressPolls(ui, k)
      <4>1. PICK u \in Polled(ui) : ui' = Pressed(u, k)
        BY <2>2, <3>1
      <4>2. IsPage(u)
        BY <2>3, PolledIs
      <4> QED
        BY <2>3, <4>1, <4>2, PressedIs
    <3>2. CASE ~PressPolls(ui, k)
      <4>1. ui' = Pressed(ui, k)
        BY <2>2, <3>2
      <4> QED
        BY <2>3, <4>1, PressedIs
    <3> QED
      BY <3>1, <3>2
  <2>5. PICK g \in BOOLEAN : g = (app = "mode_selector" /\ GoesBack(ui, k))
    BY Zenon
  <2>6. PICK f \in BOOLEAN : f <=> m.step \in {"compare", "show", "sign"}
    OBVIOUS
  <2>7. f <=> InFlight("main")
    BY <1>1, <2>6 DEF InFlight
  <2>8. (dirty' <=> dirty \/ ~g) /\ dirty' \in BOOLEAN
    BY <2>2, <2>3, <2>5
  <2>9. (stale' <=> stale \/ (Unlocked /\ f)) /\ stale' \in BOOLEAN
    BY <2>2, <2>3, <2>7 DEF Unlocked
  <2>10. g => w = v /\ ~Unlocked
    <3> SUFFICES ASSUME g PROVE w = v /\ ~Unlocked
      OBVIOUS
    <3>1. app = "mode_selector" /\ GoesBack(ui, k)
      BY <2>5
    <3>2. k = "hold" /\ Selected(ui) = "back" /\ ~PressPolls(ui, k)
      BY <3>1 DEF GoesBack, PressPolls
    <3>3. ui' = Pressed(ui, k)
      BY <2>2, <3>2
    <3>4. Pressed(ui, k) = ui
      BY <3>1, <3>2 DEF Pressed, Hold, ModesHold
    <3> QED
      BY <1>3, <1>4, <3>1, <3>3, <3>4 DEF Unlocked
  <2>11. PICK c : /\ ThreadsFit(thread)' /\ thread'.main = m /\ thread'.button = c
                  /\ c.step = s /\ c.image = b.image
    <3>1. s \in {"idle", "render", "show", "sign"} /\ (Unlocked => s = "idle")
      BY <2>1
    <3> QED
      BY <1>1, <1>2, <1>6, <2>2, <3>1, ButtonGoes
  <2>12. View(ui)' = w
    BY <1>4, <1>6, ViewThen
  <2>13. Drawn(m) => Excused(m, b, v) /\ InTurn(m)
    BY <1>1, <1>2, <1>3, AtHand
  <2>14. (Unlocked' <=> Unlocked) /\ s \in {"idle", "render"}
    BY <1>6, <2>1 DEF Unlocked
  <2>15. Drawn(m) => Excused(m, c, w)'
    BY <1>6, <2>6, <2>8, <2>9, <2>10, <2>11, <2>13, <2>14 DEF Excused, Carries, Shows
  <2>16. Drawn(m) => InTurn(m)'
    BY <1>6, <2>13, <2>14 DEF InTurn
  <2>17. /\ app' \in Apps /\ open' \in BOOLEAN
         /\ visible' \in BOOLEAN /\ daemon' \in {"idle", "stopping", "stopped"}
         /\ (daemon' = "stopped" => m.step = "ended")
    BY <1>1, <1>2, <1>6, AtHand
  <2> QED
    BY <2>4, <2>8, <2>9, <2>11, <2>12, <2>15, <2>16, <2>17, PanelGoes
<1> QED
  BY <1>7, <1>8

-----------------------------------------------------------------------------
(* The panel.                                                              *)

LEMMA DaemonKeeps ==
  ASSUME PanelInv,
         \/ \E b \in Buttons : Press(b)
         \/ VeryLongHold \/ StopReturns \/ EntersPrep \/ ReturnsToMenu \/ Recovers
         \/ CallbackLooks \/ CallbackShows \/ WorldChanges
  PROVE  PanelInv'
<1>1. /\ daemon \in {"idle", "stopping", "stopped"} /\ visible \in BOOLEAN
      /\ daemon = "stopped" => Main.step = "ended"
  BY DEF PanelInv
<1>2. UNCHANGED <<app, thread, open, ui, dirty, signature, stale>>
  BY DEF Press, VeryLongHold, StopReturns, EntersPrep, ReturnsToMenu, Recovers, CallbackLooks,
         CallbackShows, WorldChanges, process
<1>3. \/ panel' = panel /\ visible' = visible
      \/ visible' = TRUE
      \/ visible' \in BOOLEAN /\ Main.step = "ended"
  BY <1>1 DEF Press, VeryLongHold, StopReturns, EntersPrep, ReturnsToMenu, Recovers, CallbackLooks,
         CallbackShows, WorldChanges, ShowsMenu, manager
<1>4. daemon' \in {"idle", "stopping", "stopped"} /\ (daemon' = "stopped" => Main.step = "ended")
  BY <1>1 DEF Press, VeryLongHold, StopReturns, EntersPrep, ReturnsToMenu, Recovers, CallbackLooks,
         CallbackShows, WorldChanges, Alive, manager
<1> QED
  BY <1>2, <1>3, <1>4, DaemonMoves

LEMMA OutsideTheLoop ==
  ASSUME PanelInv, Installs \/ Runs \/ SetsUp \/ Fails \/ CleansUp \/ SignalArrives \/ Killed
  PROVE  PanelInv'
<1>1. CASE Installs
  <2>1. /\ Main.step = "start" /\ At("main", "signals")
        /\ UNCHANGED <<app, open, ui, dirty, signature, stale, panel, visible, daemon>>
    BY <1>1 DEF Installs, manager
  <2> QED
    BY <2>1, MainMoves
<1>2. CASE Runs
  <2>1. /\ Main.step = "signals" /\ At("main", "setup")
        /\ UNCHANGED <<app, open, ui, dirty, signature, stale, panel, visible, daemon>>
    BY <1>2 DEF Runs, manager
  <2> QED
    BY <2>1, MainMoves
<1>3. CASE SetsUp
  <2>1. /\ Main.step = "setup" /\ At("main", "poll") /\ open' = TRUE
        /\ UNCHANGED <<app, ui, dirty, signature, stale, panel, visible, daemon>>
    BY <1>3 DEF SetsUp, manager
  <2> QED
    BY <2>1, MainMoves
<1>4. CASE Fails
  <2>1. /\ Main.step \in {"poll", "update", "show"} /\ At("main", "cleanup")
        /\ UNCHANGED <<app, open, ui, dirty, signature, stale, panel, visible, daemon>>
    BY <1>4 DEF Fails, manager
  <2> QED
    BY <2>1, MainMoves
<1>5. CASE CleansUp
  BY <1>5, EndedKeeps DEF CleansUp
<1>6. CASE SignalArrives
  <2>1. UNCHANGED <<app, ui, dirty, signature, stale, panel, visible, daemon>>
    BY <1>6 DEF SignalArrives
  <2>2. CASE Main.step = "start"
    BY <1>6, <2>1, <2>2, EndedKeeps DEF SignalArrives
  <2>3. CASE Main.step # "start"
    <3>1. UNCHANGED <<thread, open>>
      BY <1>6, <2>3 DEF SignalArrives
    <3>2. daemon \in {"idle", "stopping", "stopped"} /\ (daemon = "stopped" => Main.step = "ended")
      BY DEF PanelInv
    <3> QED
      BY <2>1, <3>1, <3>2, DaemonMoves
  <2> QED
    BY <2>2, <2>3
<1>7. CASE Killed
  BY <1>7, EndedKeeps DEF Killed
<1> QED
  BY <1>1, <1>2, <1>3, <1>4, <1>5, <1>6, <1>7

LEMMA PanelStarts == ASSUME Init PROVE PanelInv
<1>1. thread = [main |-> [Idle EXCEPT !.step = "ended"], button |-> Idle] /\ open = FALSE
  BY DEF Init
<1>2. /\ thread.main = [step |-> "ended", image |-> Idle.image, force |-> FALSE]
      /\ thread.button = Idle
  BY <1>1, IdleIs
<1>3. ThreadsFit(thread)
  BY <1>1, <1>2, IdleIs DEF ThreadsFit, MainSteps
<1>4. ~Drawn(Main) /\ Main.step = "ended"
  BY <1>2 DEF Drawn, Main
<1>5. /\ app \in Apps /\ IsPage(ui) /\ {dirty, stale, open, visible} \subseteq BOOLEAN
      /\ daemon = "idle"
  BY FirstPageIs DEF Init
<1> QED
  BY <1>3, <1>4, <1>5 DEF PanelInv

LEMMA PanelStep == ASSUME PanelInv, [Next]_vars PROVE PanelInv'
<1>1. ASSUME NEW t \in {"main", "button"}, Take(t) PROVE PanelInv'
  BY <1>1, TakeMainKeeps, TakeButtonKeeps
<1>2. ASSUME NEW t \in {"main", "button"}, Show(t) \/ Sign(t) PROVE PanelInv'
  BY <1>2, ShowKeeps, SignKeeps
<1>3. ASSUME NEW a \in Apps, Launch(a) PROVE PanelInv'
  BY <1>3, LaunchKeeps
<1>4. CASE UNCHANGED vars
  <2>1. UNCHANGED <<app, thread, open, ui, dirty, signature, stale, panel, visible, daemon>>
    BY <1>4 DEF vars, process, manager
  <2>2. daemon \in {"idle", "stopping", "stopped"} /\ (daemon = "stopped" => Main.step = "ended")
    BY DEF PanelInv
  <2> QED
    BY <2>1, <2>2, DaemonMoves
<1>5. CASE Draw \/ Compare \/ ShowFails \/ SetUpPolls \/ Loops \/ Update \/ Handle
  BY <1>5, DrawKeeps, CompareKeeps, ShowFailsKeeps, SetUpPollsKeeps, LoopsKeeps, UpdateKeeps, HandleKeeps
<1>6. CASE Installs \/ Runs \/ SetsUp \/ Fails \/ CleansUp \/ SignalArrives \/ Killed
  BY <1>6, OutsideTheLoop
<1>7. CASE \/ \E b \in Buttons : Press(b)
           \/ VeryLongHold \/ StopReturns \/ EntersPrep \/ ReturnsToMenu \/ Recovers
           \/ CallbackLooks \/ CallbackShows \/ WorldChanges
  BY <1>7, DaemonKeeps
<1> QED
  BY <1>1, <1>2, <1>3, <1>4, <1>5, <1>6, <1>7, Zenon DEF Next

(* The invariant of the threads, the marks and the panel.                  *)
THEOREM PanelInvariant == Spec => []PanelInv
<1>1. Init => PanelInv
  BY PanelStarts
<1>2. PanelInv /\ [Next]_vars => PanelInv'
  BY PanelStep
<1> QED
  BY <1>1, <1>2, PTL DEF Spec

(* When no redraw is marked and no thread is drawing, the panel shows the  *)
(* page the application is on (_render_if_needed() and its lock, in all    *)
(* four applications), unless one of the four excuses stands.              *)
THEOREM PanelCurrent == Spec => []PanelIsCurrent
<1>1. PanelInv => PanelIsCurrent
  <2> SUFFICES ASSUME PanelInv, Quiet, ~visible, ~stale PROVE panel = View(ui)
    BY DEF PanelIsCurrent
  <2>1. PICK m : m = thread.main
    OBVIOUS
  <2>2. PICK b : b = thread.button
    OBVIOUS
  <2>3. m.step \in {"loop", "update"} /\ ~dirty /\ b.step \notin {"render", "show", "sign"}
    BY <2>1, <2>2 DEF Quiet, Up, Main
  <2>4. Excused(m, b, View(ui))
    BY <2>1, <2>2, <2>3, AtHand DEF Drawn
  <2> QED
    BY <2>3, <2>4 DEF Excused, Shows
<1> QED
  BY <1>1, PanelInvariant, PTL

-----------------------------------------------------------------------------
(* Hardware preparation.                                                   *)

(* What the page of the armed request becomes: on a press it is left, or held. *)
LEMMA ArmedPage ==
  ASSUME app = "print_lab", NEW u, IsPage(u), NEW k, NEW p, IsPage(p), p.page = u.page
  PROVE  /\ u.page = "isp_prep_armed" /\ k = "hold" => Pressed(p, k).page = "isp_prep_armed"
         /\ Arms(u, k) => Pressed(p, k).page = "isp_prep_armed"
<1>1. k = "hold" => Pressed(p, k) = PrintLabHold(p)
  BY DEF Pressed, Hold
<1>2. p.page = "isp_prep_armed" => PrintLabHold(p) = [p EXCEPT !.status = TRUE]
  BY DEF PrintLabHold
<1>3. p.page = "isp_prep_confirm" => PrintLabHold(p) = [p EXCEPT !.page = "isp_prep_armed", !.status = TRUE]
  BY DEF PrintLabHold
<1>4. /\ [p EXCEPT !.status = TRUE].page = p.page
      /\ [p EXCEPT !.page = "isp_prep_armed", !.status = TRUE].page = "isp_prep_armed"
  BY DEF IsPage
<1> QED
  BY <1>1, <1>2, <1>3, <1>4 DEF Arms

LEMMA HandleFits ==
  ASSUME PanelInv, RequestFits, Handle, request', app' = "print_lab"
  PROVE  ui'.page = "isp_prep_armed" \/ thread'.main.step \in {"start", "signals", "setup", "ended"}
<1>1. PICK m : m = thread.main
  OBVIOUS
<1>2. PICK b : b = thread.button
  OBVIOUS
<1>3. PICK k : k = Head(queue)
  OBVIOUS
<1>4. app = "print_lab" /\ ~Unlocked /\ Ready
  BY DEF Handle, Unlocked, Ready
<1>5. /\ ui' \in IF PressPolls(ui, k) THEN {Pressed(u, k) : u \in Polled(ui)} ELSE {Pressed(ui, k)}
      /\ request' = ((request /\ ~Disarms(ui, k)) \/ Arms(ui, k))
      /\ At("button", "render")
  BY <1>3, <1>4, Zenon DEF Handle
<1>6. app \in Apps /\ IsPage(ui)
  BY DEF PanelInv
<1>7. PICK p : IsPage(p) /\ p.page = ui.page /\ ui' = Pressed(p, k)
  BY <1>5, <1>6, PolledIs
<1>8. thread'.main = m
  BY <1>1, <1>2, <1>5, AtHand, StepIs
<1>9. (request /\ ~Disarms(ui, k)) \/ Arms(ui, k)
  BY <1>5
<1>10. CASE Arms(ui, k)
  BY <1>4, <1>6, <1>7, <1>10, ArmedPage
<1>11. CASE request /\ ~Disarms(ui, k)
  <2>1. ui.page = "isp_prep_armed" \/ m.step \in {"start", "signals", "setup", "ended"}
    BY <1>1, <1>4, <1>11 DEF RequestFits, Main
  <2>2. ui.page = "isp_prep_armed" => k = "hold"
    BY <1>11 DEF Disarms
  <2> QED
    BY <1>4, <1>6, <1>7, <1>8, <2>1, <2>2, ArmedPage
<1> QED
  BY <1>9, <1>10, <1>11

(* The other steps leave the request, or take it away; they leave the page, *)
(* or the message and the snapshot on it change.                           *)
LEMMA RequestStep ==
  ASSUME PanelInv, RequestFits, [Next]_vars
  PROVE  RequestFits'
<1> SUFFICES ASSUME request', app' = "print_lab"
             PROVE  ui'.page = "isp_prep_armed" \/ thread'.main.step \in {"start", "signals", "setup", "ended"}
  BY DEF RequestFits, Main
<1>1. PICK m : m = thread.main
  OBVIOUS
<1>2. PICK b : b = thread.button
  OBVIOUS
<1>3. PICK early : early = {"start", "signals", "setup", "ended"}
  OBVIOUS
<1>4. request /\ app = "print_lab" => ui.page = "isp_prep_armed" \/ m.step \in early
  BY <1>1, <1>3 DEF RequestFits, Main
<1>5. IsPage(ui) /\ ThreadsFit(thread)
  BY DEF PanelInv
<1>6. CASE \E a \in Apps : Launch(a)
  <2>1. thread'.main = [Idle EXCEPT !.step = "start"]
    BY <1>6 DEF Launch, NewProcess
  <2> QED
    BY <2>1 DEF Idle
<1>7. CASE CleansUp \/ Killed \/ (SignalArrives /\ Main.step = "start")
  <2>1. Ended
    BY <1>7, Zenon DEF CleansUp, Killed, SignalArrives
  <2>2. thread'.main = [Idle EXCEPT !.step = "ended"]
    BY <2>1 DEF Ended
  <2> QED
    BY <2>2 DEF Idle
<1>8. CASE Handle
  BY <1>8, HandleFits
<1>9. CASE SetsUp
  BY <1>9 DEF SetsUp, SetUpLeaves
<1>10. CASE Installs \/ Runs
  <2>1. At("main", "signals") \/ At("main", "setup")
    BY <1>10 DEF Installs, Runs
  <2>2. PICK s \in {"signals", "setup"} : At("main", s)
    BY <2>1
  <2>3. thread'.main = [step |-> s, image |-> Main.image, force |-> Main.force]
    BY <1>5, <2>2, StepIs
  <2> QED
    BY <2>2, <2>3
<1>11. CASE SetUpPolls
  <2>1. m.step = "poll" /\ UNCHANGED <<app, request>> /\ (ui' = ui \/ ui' \in Polled(ui))
    BY <1>1, <1>11 DEF SetUpPolls, Main
  <2>2. ui'.page = ui.page
    BY <1>5, <2>1, PolledIs
  <2> QED
    BY <1>3, <1>4, <2>1, <2>2
<1>12. CASE Update
  <2>1. m.step = "update" /\ UNCHANGED <<app, request>>
    BY <1>1, <1>12 DEF Update, Main
  <2>2. PICK spent \in {ui, [ui EXCEPT !.status = FALSE]} : ui' \in Polled(spent) \/ ui' = spent
    BY <1>12 DEF Update
  <2>3. IsPage(spent) /\ spent.page = ui.page
    BY <1>5 DEF IsPage
  <2>4. ui'.page = ui.page
    BY <2>2, <2>3, PolledIs
  <2> QED
    BY <1>3, <1>4, <2>1, <2>4
<1>13. CASE \E t \in {"main", "button"} : Take(t) \/ Show(t) \/ Sign(t)
  <2>1. PICK t \in {"main", "button"} : Take(t) \/ Show(t) \/ Sign(t)
    BY <1>13
  <2>2. UNCHANGED <<app, ui, request>>
    BY <2>1 DEF Take, Show, Sign
  <2>3. PICK n : thread' = [thread EXCEPT ![t] = n]
    BY <2>1 DEF Take, Show, Sign, At
  <2>4. t = "button" => thread'.main = m
    BY <1>1, <1>5, <2>3, SetIs
  <2>5. t = "main" => m.step \in {"render", "show", "sign"}
    BY <1>1, <2>1 DEF Take, Show, Sign
  <2>6. m.step \in early => thread'.main = m
    BY <1>3, <2>4, <2>5
  <2> QED
    BY <1>3, <1>4, <2>2, <2>6
<1>14. CASE Draw \/ Compare \/ Loops \/ Fails
  <2>1. UNCHANGED <<app, ui, request>> /\ m.step \notin early
    BY <1>1, <1>3, <1>14 DEF Draw, Compare, Loops, Fails, Main
  <2> QED
    BY <1>4, <2>1
<1>15. CASE ShowFails
  <2>1. UNCHANGED <<app, ui, request>> /\ thread' = [thread EXCEPT !["button"].step = "idle"]
    BY <1>15 DEF ShowFails, At
  <2>2. thread'.main = m
    BY <1>1, <1>5, <2>1 DEF ThreadsFit
  <2> QED
    BY <1>3, <1>4, <2>1, <2>2
<1>16. CASE \/ \E k \in Buttons : Press(k)
            \/ VeryLongHold \/ StopReturns \/ EntersPrep \/ ReturnsToMenu \/ Recovers
            \/ CallbackLooks \/ CallbackShows \/ WorldChanges
            \/ (SignalArrives /\ Main.step # "start") \/ UNCHANGED vars
  <2>1. UNCHANGED <<app, ui, thread>> /\ request
    BY <1>16 DEF Press, VeryLongHold, StopReturns, EntersPrep, ReturnsToMenu, Recovers, CallbackLooks,
         CallbackShows, WorldChanges, SignalArrives, vars, process
  <2> QED
    BY <1>1, <1>3, <1>4, <2>1
<1> QED
  BY <1>6, <1>7, <1>8, <1>9, <1>10, <1>11, <1>12, <1>13, <1>14, <1>15, <1>16, Zenon DEF Next

THEOREM RequestInvariant == Spec => [](PanelInv /\ RequestFits)
<1>1. Init => PanelInv /\ RequestFits
  BY PanelStarts DEF Init, RequestFits
<1>2. PanelInv /\ RequestFits /\ [Next]_vars => (PanelInv /\ RequestFits)'
  BY PanelStep, RequestStep
<1> QED
  BY <1>1, <1>2, PTL DEF Spec

(* A very long hold enters hardware preparation from the armed page only,  *)
(* or where the process has yet to clear what a killed one left            *)
(* (_consume_isp_prep_request(), PrintLabApp.setup()).                      *)
THEOREM PreparationArmed == Spec => PrepWasArmed
<1>1. PanelInv /\ RequestFits /\ [Next]_vars =>
        [daemon' = "stopping" /\ entering' /\ ~entering =>
           \/ ui.page = "isp_prep_armed"
           \/ Main.step \in {"start", "signals", "setup"}]_vars
  <2> SUFFICES ASSUME RequestFits, Next, daemon' = "stopping", entering', ~entering
               PROVE  ui.page = "isp_prep_armed" \/ Main.step \in {"start", "signals", "setup"}
    OBVIOUS
  <2>1. VeryLongHold
    BY Zenon DEF Next, Take, Draw, Compare, Show, Sign, ShowFails, Installs, Runs, SetsUp, SetUpPolls,
       Loops, Update, Fails, CleansUp, SignalArrives, Killed, Handle, WorldChanges, Press, StopReturns,
       EntersPrep, ReturnsToMenu, Recovers, CallbackLooks, CallbackShows, Launch, manager
  <2>2. request /\ app = "print_lab" /\ Main.step # "ended"
    BY <2>1 DEF VeryLongHold, Consumes, Alive
  <2> QED
    BY <2>2 DEF RequestFits
<1> QED
  BY <1>1, RequestInvariant, PTL DEF PrepWasArmed, Spec

-----------------------------------------------------------------------------
(* PlainApps: the Reader and the Tesserae client.                          *)

(* A document that is there, and one of its pages. *)
PlaceOf(documents) ==
  {p \in [what : {"page"}, of : documents, at : Nat] : p.at < Pages[p.of]}

Servers == [up : BOOLEAN, frame : Nat, tags : BOOLEAN, wraps : BOOLEAN]

PlainType ==
  /\ program \in {"reader", "tesserae"}
  /\ shelf \subseteq DOMAIN Pages /\ found \subseteq DOMAIN Pages
  /\ saved \in [what : {"page"}, of : Nat, at : Nat]
  /\ pageChange \in Int /\ change \in Int
  /\ server \in Servers
  /\ redraw \in BOOLEAN /\ first \in BOOLEAN /\ unshown \in BOOLEAN

(* From the opening of a document to the end of a drawing, the Reader is at *)
(* the page at which it would open again.                                   *)
AtSavedPlace ==
  program = "reader" /\ step \in {"turn", "reset", "save", "draw"} =>
    place \in PlaceOf(found) /\ place = Resumed(saved, found)

ShowsPlace == Reads("turn") /\ ~redraw => screen = place

(* A frame that is on its way to the panel is the last that was read. *)
OnItsWay ==
  program = "tesserae" =>
    /\ step \in {"start", "ready"} => etag = 0
    /\ step = "follow" => fetched # 0
    /\ step = "paint" /\ fetched # 0 => LastRead = fetched
    /\ step = "excuse" => first

(* Whenever none is on its way and a tag is held, the panel shows the last *)
(* that was read, and so has shown something.                              *)
TagOnPanel ==
  /\ program = "tesserae" /\ etag # 0 /\ ~unshown
  /\ \/ step \in {"rest", "beat", "ask", "follow", "excuse"}
     \/ step = "paint" /\ fetched = 0
  => screen = Frame(LastRead) /\ ~first

PlainInv == PlainType /\ AtSavedPlace /\ ShowsPlace /\ OnItsWay /\ TagOnPanel

LEMMA LeastIs ==
  ASSUME NEW S \in SUBSET Nat, S # {}
  PROVE  Min(S) \in S /\ \A y \in S : Min(S) <= y
<1>1. PICK x \in S : \A y \in S : <<y, x>> \notin OpToRel(<, Nat)
  BY NatLessThanWellFounded, WFMin
<1>2. \A y \in S : x <= y
  <2> SUFFICES ASSUME NEW y \in S PROVE x <= y
    OBVIOUS
  <2>1. ~(y < x)
    BY <1>1 DEF OpToRel
  <2> QED
    BY <2>1
<1> QED
  BY <1>2 DEF Min

(* main() opens a document that is there, at one of its pages. *)
LEMMA ResumedIs ==
  ASSUME NEW state \in [what : {"page"}, of : Nat, at : Nat],
         NEW documents \in SUBSET (DOMAIN Pages), documents # {}
  PROVE  Resumed(state, documents) \in PlaceOf(documents)
<1>1. documents \in SUBSET Nat
  BY PagesAssumption
<1>2. PICK d : d = IF state.of \in documents THEN state.of ELSE Min(documents)
  OBVIOUS
<1>3. d \in documents
  BY <1>1, <1>2, LeastIs
<1>4. PICK last \in Nat : last = Pages[d] - 1
  BY <1>3, PagesAssumption
<1>5. PICK p : p = Min({state.at, last})
  OBVIOUS
<1>6. p \in Nat /\ p <= last
  BY <1>5, LeastIs
<1>7. Resumed(state, documents) = [what |-> "page", of |-> d, at |-> p]
  BY <1>2, <1>4, <1>5 DEF Resumed, Place, Screen
<1> QED
  BY <1>3, <1>4, <1>6, <1>7, PagesAssumption DEF PlaceOf

(* A place at which main() opens is where it opens again. *)
LEMMA ResumedAgain ==
  ASSUME NEW documents \in SUBSET (DOMAIN Pages), NEW p \in PlaceOf(documents)
  PROVE  Resumed(p, documents) = p
<1>1. p.of \in documents /\ p.of \in DOMAIN Pages /\ p.at \in Nat /\ p.at <= Pages[p.of] - 1
  BY PagesAssumption DEF PlaceOf
<1>2. PICK last \in Nat : last = Pages[p.of] - 1
  BY <1>1, PagesAssumption
<1>3. Min({p.at, last}) = p.at
  <2>1. Min({p.at, last}) \in {p.at, last} /\ Min({p.at, last}) <= p.at
    BY <1>1, LeastIs
  <2> QED
    BY <1>1, <1>2, <2>1
<1>4. Resumed(p, documents) = [what |-> "page", of |-> p.of, at |-> p.at]
  BY <1>1, <1>2, <1>3 DEF Resumed, Place, Screen
<1> QED
  BY <1>4 DEF PlaceOf

(* A page that wraps is a page of its document. *)
LEMMA TurnedIs ==
  ASSUME NEW documents \in SUBSET (DOMAIN Pages), NEW p \in PlaceOf(documents), NEW by \in Int
  PROVE  Turned(p, by) \in PlaceOf(documents)
<1>1. p.of \in documents /\ p.of \in DOMAIN Pages /\ p.at \in Nat
  BY DEF PlaceOf
<1>2. PICK n \in Nat \ {0} : n = Pages[p.of]
  BY <1>1, PagesAssumption
<1>3. PICK q \in Int : q = p.at + by
  BY <1>1
<1>4. PICK r : r = Wrapped(p.of, p.at + by)
  OBVIOUS
<1>5. r \in Nat /\ r < n
  BY <1>2, <1>3, <1>4 DEF Wrapped
<1>6. Turned(p, by) = [what |-> "page", of |-> p.of, at |-> r]
  BY <1>4 DEF Turned, Place, Screen
<1> QED
  BY <1>1, <1>2, <1>5, <1>6 DEF PlaceOf

LEMMA PlacesAre ==
  ASSUME NEW documents \in SUBSET (DOMAIN Pages), NEW p \in PlaceOf(documents)
  PROVE  p \in [what : {"page"}, of : Nat, at : Nat]
BY PagesAssumption DEF PlaceOf

LEMMA PlainInitHolds == PlainInit => PlainInv
<1> SUFFICES ASSUME PlainInit PROVE PlainInv
  OBVIOUS
<1>1. /\ step = "over" /\ etag = 0 /\ found = {} /\ saved = NoPlace /\ pageChange = 0 /\ change = 0
      /\ redraw = FALSE /\ first = TRUE /\ unshown = FALSE
      /\ program \in {"reader", "tesserae"}
  BY DEF PlainInit
<1>2. shelf \in IF program = "reader" THEN SUBSET DOMAIN Pages ELSE {{}}
  BY DEF PlainInit
<1>3. shelf \subseteq DOMAIN Pages
  BY <1>2
<1>4. NoPlace \in [what : {"page"}, of : Nat, at : Nat]
  BY DEF NoPlace, Place, Screen
<1>5. PlainType
  <2>1. saved \in [what : {"page"}, of : Nat, at : Nat]
    BY <1>1, <1>4
  <2>2. server \in Servers
    BY DEF PlainInit, Servers
  <2>3. found \subseteq DOMAIN Pages /\ redraw \in BOOLEAN /\ first \in BOOLEAN /\ unshown \in BOOLEAN
    BY <1>1
  <2>4. pageChange \in Int /\ change \in Int
    BY <1>1
  <2> QED
    BY <1>1, <1>3, <2>1, <2>2, <2>3, <2>4 DEF PlainType
<1>6. AtSavedPlace /\ ShowsPlace /\ OnItsWay /\ TagOnPanel
  BY <1>1 DEF AtSavedPlace, ShowsPlace, OnItsWay, TagOnPanel, Reads
<1> QED
  BY <1>5, <1>6 DEF PlainInv

-----------------------------------------------------------------------------
(* The Reader's steps say nothing of the client, and the other way round.  *)

ClientPart == OnItsWay /\ TagOnPanel
ReaderPart == AtSavedPlace /\ ShowsPlace

LEMMA ReaderSkips ==
  ASSUME program = "reader", program' = program
  PROVE  ClientPart'
BY DEF ClientPart, OnItsWay, TagOnPanel

LEMMA ClientSkips ==
  ASSUME program = "tesserae", program' = program
  PROVE  ReaderPart'
BY DEF ReaderPart, AtSavedPlace, ShowsPlace, Reads

LEMMA FindsKeeps ==
  ASSUME PlainInv, ReaderFinds
  PROVE  PlainInv'
<1>1. PlainType' /\ program = "reader" /\ program' = program
  BY DEF ReaderFinds, PlainInv, PlainType, Reads, client
<1>2. ReaderPart'
  <2>1. CASE shelf = {}
    BY <2>1 DEF ReaderFinds, PanelFails, ReaderPart, AtSavedPlace, ShowsPlace, Reads
  <2>2. CASE shelf # {}
    <3>1. Resumed(saved, shelf) \in PlaceOf(shelf)
      BY <2>2, ResumedIs DEF PlainInv, PlainType
    <3>2. found' = shelf /\ saved' = saved /\ place' = Resumed(saved, shelf) /\ redraw' = TRUE
      BY <2>2 DEF ReaderFinds
    <3>3. place' \in PlaceOf(found') /\ place' = Resumed(saved', found')
      BY <3>1, <3>2
    <3> QED
      BY <3>2, <3>3 DEF ReaderPart, AtSavedPlace, ShowsPlace, Reads
  <2> QED
    BY <2>1, <2>2
<1> QED
  BY <1>1, <1>2, ReaderSkips DEF PlainInv, ReaderPart, ClientPart

LEMMA TakesKeeps ==
  ASSUME PlainInv, ReaderTakes
  PROVE  PlainInv'
<1>1. PlainType' /\ program = "reader" /\ program' = program
  BY DEF ReaderTakes, PlainInv, PlainType, Reads, client
<1>2. /\ UNCHANGED <<place, saved, found, screen, redraw>>
      /\ step = "turn" /\ step' # "turn"
  BY DEF ReaderTakes, Reads
<1>3. place' \in PlaceOf(found') /\ place' = Resumed(saved', found')
  BY <1>1, <1>2 DEF PlainInv, AtSavedPlace
<1>4. ReaderPart'
  BY <1>2, <1>3 DEF ReaderPart, AtSavedPlace, ShowsPlace, Reads
<1> QED
  BY <1>1, <1>4, ReaderSkips DEF PlainInv, ReaderPart, ClientPart

LEMMA ResetsKeeps ==
  ASSUME PlainInv, ReaderResets
  PROVE  PlainInv'
<1>1. PlainType' /\ program = "reader" /\ program' = program
  BY DEF ReaderResets, PlainInv, PlainType, Reads, client
<1>2. UNCHANGED <<place, saved, found>> /\ step = "reset" /\ step' = "save"
  BY DEF ReaderResets, Reads
<1>3. place' \in PlaceOf(found') /\ place' = Resumed(saved', found')
  BY <1>1, <1>2 DEF PlainInv, AtSavedPlace
<1>4. ReaderPart'
  BY <1>2, <1>3 DEF ReaderPart, AtSavedPlace, ShowsPlace, Reads
<1> QED
  BY <1>1, <1>4, ReaderSkips DEF PlainInv, ReaderPart, ClientPart

(* What is saved is the place after the page has wrapped. *)
LEMMA SavesKeeps ==
  ASSUME PlainInv, ReaderSaves
  PROVE  PlainInv'
<1>1. /\ program = "reader" /\ program' = program
      /\ step = "save" /\ UNCHANGED <<found, shelf, pageChange, change, server, first, unshown>>
      /\ place' = Turned(place, change)
  BY DEF ReaderSaves, Reads, client
<1>2. place \in PlaceOf(found) /\ found \in SUBSET (DOMAIN Pages) /\ change \in Int
  BY <1>1 DEF PlainInv, PlainType, AtSavedPlace
<1>3. place' \in PlaceOf(found)
  BY <1>1, <1>2, TurnedIs
<1>4. CASE saved' = Saved(place, change) /\ redraw' = TRUE /\ step' = "draw"
  <2>1. saved' = place'
    BY <1>1, <1>4 DEF Saved
  <2>2. Resumed(saved', found') = place'
    BY <1>1, <1>2, <1>3, <2>1, ResumedAgain
  <2>3. saved' \in [what : {"page"}, of : Nat, at : Nat]
    BY <1>2, <1>3, <2>1, PlacesAre
  <2>4. PlainType'
    BY <1>1, <1>4, <2>3 DEF PlainInv, PlainType
  <2>5. ReaderPart'
    BY <1>1, <1>3, <1>4, <2>2 DEF ReaderPart, AtSavedPlace, ShowsPlace, Reads
  <2> QED
    BY <1>1, <2>4, <2>5, ReaderSkips DEF PlainInv, ReaderPart, ClientPart
<1>5. CASE step' = "close" /\ UNCHANGED <<saved, redraw>>
  <2>1. PlainType' /\ ReaderPart'
    BY <1>1, <1>5 DEF PlainInv, PlainType, ReaderPart, AtSavedPlace, ShowsPlace, Reads
  <2> QED
    BY <1>1, <2>1, ReaderSkips DEF PlainInv, ReaderPart, ClientPart
<1> QED
  BY <1>4, <1>5 DEF ReaderSaves

LEMMA DrawsKeeps ==
  ASSUME PlainInv, ReaderDraws
  PROVE  PlainInv'
<1>1. PlainType' /\ program = "reader" /\ program' = program
  BY DEF ReaderDraws, PlainInv, PlainType, Reads, client
<1>2. /\ UNCHANGED <<place, saved, found>> /\ step = "draw"
      /\ (step' = "turn" /\ screen' = place) \/ step' = "close"
  BY DEF ReaderDraws, PanelFails, Reads
<1>3. place' \in PlaceOf(found') /\ place' = Resumed(saved', found')
  BY <1>1, <1>2 DEF PlainInv, AtSavedPlace
<1>4. ReaderPart'
  BY <1>2, <1>3 DEF ReaderPart, AtSavedPlace, ShowsPlace, Reads
<1> QED
  BY <1>1, <1>4, ReaderSkips DEF PlainInv, ReaderPart, ClientPart

-----------------------------------------------------------------------------
(* The client's steps.                                                     *)

(* A client between two rounds, or on its way with nothing fetched. *)
Settled == etag # 0 /\ ~unshown => screen = Frame(LastRead) /\ ~first

LEMMA SettledIs ==
  ASSUME PlainInv, program = "tesserae",
         step \in {"rest", "beat", "ask", "follow", "excuse"} \/ (step = "paint" /\ fetched = 0)
  PROVE  Settled
BY DEF PlainInv, TagOnPanel, Settled

LEMMA UnbegunIs ==
  ASSUME PlainInv, program = "tesserae", step \in {"start", "ready"}
  PROVE  Settled /\ etag = 0
BY DEF PlainInv, OnItsWay, Settled

(* The round goes on, or ends, and the panel and the tag stay. *)
LEMMA SettledKeeps ==
  ASSUME PlainInv, program = "tesserae", Settled',
         UNCHANGED <<program, server, shelf, found, saved, pageChange, change, redraw>>,
         first' \in BOOLEAN, unshown' \in BOOLEAN,
         step' \notin {"start", "ready"},
         step' = "follow" => fetched' # 0,
         step' = "paint" => fetched' = 0,
         step' = "excuse" => first'
  PROVE  PlainInv'
<1>1. PlainType' /\ ReaderPart'
  BY ClientSkips DEF PlainInv, PlainType
<1>2. ClientPart'
  BY DEF Settled, ClientPart, OnItsWay, TagOnPanel
<1> QED
  BY <1>1, <1>2 DEF PlainInv, ReaderPart, ClientPart

(* Where no page is open and no round is going on. *)
LEMMA AsideKeeps ==
  ASSUME PlainInv, PlainType', UNCHANGED program, step' \in {"waits", "close", "over"}
  PROVE  PlainInv'
<1>1. AtSavedPlace' /\ ShowsPlace'
  BY DEF AtSavedPlace, ShowsPlace, Reads
<1>2. OnItsWay' /\ TagOnPanel'
  BY DEF OnItsWay, TagOnPanel
<1> QED
  BY <1>1, <1>2 DEF PlainInv

LEMMA SetupKeeps ==
  ASSUME PlainInv, SetupFails
  PROVE  PlainInv'
<1>1. PlainType' /\ UNCHANGED program /\ step' = "close"
  BY DEF SetupFails, PanelFails, PlainInv, PlainType, reader, client
<1> QED
  BY <1>1, AsideKeeps

LEMMA ConfiguresKeeps ==
  ASSUME PlainInv, ClientConfigures
  PROVE  PlainInv'
<1>1. /\ program = "tesserae" /\ step = "ready" /\ step' \in {"beat", "waits"}
      /\ UNCHANGED <<program, reader, server, etag, bare, fetched, first, unshown>>
  BY DEF ClientConfigures, Fetches, client
<1>2. etag = 0 /\ first \in BOOLEAN /\ unshown \in BOOLEAN
  BY <1>1, UnbegunIs DEF PlainInv, PlainType
<1>3. Settled'
  BY <1>1, <1>2 DEF Settled
<1> QED
  BY <1>1, <1>2, <1>3, SettledKeeps DEF reader

LEMMA FailsIs ==
  ASSUME RoundFails
  PROVE  step' \in {"excuse", "rest"} /\ (step' = "excuse" => first)
BY DEF RoundFails

LEMMA BeatsKeeps ==
  ASSUME PlainInv, ClientBeats
  PROVE  PlainInv'
<1>1. /\ program = "tesserae" /\ step = "beat"
      /\ UNCHANGED <<program, reader, server, screen, etag, bare, fetched, first, unshown>>
  BY DEF ClientBeats, Fetches, client
<1>2. step' \in {"close", "ask", "excuse", "rest"} /\ (step' = "excuse" => first)
  BY FailsIs DEF ClientBeats
<1>3. Settled /\ first \in BOOLEAN /\ unshown \in BOOLEAN
  BY <1>1, SettledIs DEF PlainInv, PlainType
<1>4. Settled'
  BY <1>1, <1>3 DEF Settled, LastRead, Frame, Screen
<1> QED
  BY <1>1, <1>2, <1>3, <1>4, SettledKeeps DEF reader

(* What fetch_binary_url() answers for a frame. *)
LEMMA ArrivesKeeps ==
  ASSUME PlainInv, program = "tesserae", step \in {"ask", "follow"},
         NEW v, v # 0, Arrives(v),
         UNCHANGED <<program, wanted, screen, reader, server, first, unshown>>
  PROVE  PlainInv'
<1>1. Settled /\ PlainType
  BY SettledIs DEF PlainInv
<1>2. first \in BOOLEAN /\ unshown \in BOOLEAN
  BY <1>1 DEF PlainType
<1>3. CASE TagOf(v) = etag /\ etag # 0 /\ fetched' = 0 /\ step' = "paint" /\ UNCHANGED <<etag, bare>>
  <2>1. Settled'
    BY <1>1, <1>3 DEF Settled, LastRead, Frame, Screen
  <2> QED
    BY <1>2, <1>3, <2>1, SettledKeeps DEF reader
<1>4. ASSUME NEW readable \in BOOLEAN,
             etag' = TagAfter(etag, TagOf(v), readable),
             bare' = IF ~readable THEN bare ELSE IF TagOf(v) = 0 THEN v ELSE 0,
             IF readable THEN fetched' = v /\ step' = "paint" /\ UNCHANGED upsets
             ELSE Upset /\ RoundFails /\ UNCHANGED fetched
      PROVE  PlainInv'
  <2>1. CASE readable
    <3>1. fetched' = v /\ step' = "paint"
      BY <1>4, <2>1
    <3>2. LastRead' = v
      BY <1>4, <2>1 DEF TagAfter, TagOf, LastRead
    <3>3. PlainType' /\ ReaderPart'
      BY <1>1, ClientSkips DEF PlainType, reader
    <3>4. ClientPart'
      BY <3>1, <3>2 DEF ClientPart, OnItsWay, TagOnPanel
    <3> QED
      BY <3>3, <3>4 DEF PlainInv, ReaderPart, ClientPart
  <2>2. CASE ~readable
    <3>1. UNCHANGED <<etag, bare>> /\ step' \in {"excuse", "rest"} /\ (step' = "excuse" => first)
      BY <1>4, <2>2, FailsIs DEF TagAfter
    <3>2. Settled'
      BY <1>1, <3>1 DEF Settled, LastRead, Frame, Screen
    <3> QED
      BY <1>2, <3>1, <3>2, SettledKeeps DEF reader
  <2> QED
    BY <2>1, <2>2
<1> QED
  BY <1>3, <1>4 DEF Arrives

LEMMA AsksKeeps ==
  ASSUME PlainInv, ClientAsks
  PROVE  PlainInv'
<1>1. /\ program = "tesserae" /\ step = "ask"
      /\ UNCHANGED <<program, wanted, screen, reader, server, first, unshown>>
  BY DEF ClientAsks, Fetches
<1>2. Settled /\ first \in BOOLEAN /\ unshown \in BOOLEAN
  BY <1>1, SettledIs DEF PlainInv, PlainType
<1>3. CASE server.frame # 0 /\ Arrives(server.frame)
  BY <1>1, <1>3, ArrivesKeeps
<1>4. CASE /\ UNCHANGED <<etag, bare>>
           /\ ((step' = "paint" /\ fetched' = 0) \/ (step' = "follow" /\ fetched' # 0) \/ RoundFails)
  <2>1. Settled'
    BY <1>1, <1>2, <1>4 DEF Settled, LastRead, Frame, Screen
  <2> QED
    BY <1>1, <1>2, <1>4, <2>1, FailsIs, SettledKeeps DEF reader
<1>5. CASE ~server.up
  BY <1>1, <1>4, <1>5 DEF ClientAsks
<1>6. CASE server.up /\ server.frame = 0
  <2>1. fetched' = 0 /\ UNCHANGED <<etag, bare>> /\ (step' = "paint" \/ RoundFails)
    BY <1>6 DEF ClientAsks
  <2>2. /\ UNCHANGED <<etag, bare>>
        /\ ((step' = "paint" /\ fetched' = 0) \/ (step' = "follow" /\ fetched' # 0) \/ RoundFails)
    BY <2>1
  <2> QED
    BY <1>4, <2>2
<1>7. CASE server.up /\ server.frame # 0 /\ server.wraps
  BY <1>1, <1>4, <1>7 DEF ClientAsks
<1>8. CASE server.up /\ server.frame # 0 /\ ~server.wraps
  BY <1>1, <1>3, <1>8 DEF ClientAsks
<1> QED
  BY <1>5, <1>6, <1>7, <1>8

LEMMA FollowsKeeps ==
  ASSUME PlainInv, ClientFollows
  PROVE  PlainInv'
<1>1. /\ program = "tesserae" /\ step = "follow"
      /\ UNCHANGED <<program, wanted, screen, reader, server, first, unshown>>
  BY DEF ClientFollows, Fetches
<1>2. Settled /\ first \in BOOLEAN /\ unshown \in BOOLEAN
  BY <1>1, SettledIs DEF PlainInv, PlainType
<1>3. fetched # 0
  BY <1>1 DEF PlainInv, OnItsWay
<1>4. CASE Arrives(fetched)
  BY <1>1, <1>3, <1>4, ArrivesKeeps
<1>5. CASE RoundFails /\ UNCHANGED <<etag, bare, fetched>>
  <2>1. Settled'
    BY <1>1, <1>2, <1>5 DEF Settled, LastRead, Frame, Screen
  <2> QED
    BY <1>1, <1>2, <1>5, <2>1, FailsIs, SettledKeeps DEF reader
<1> QED
  BY <1>4, <1>5 DEF ClientFollows

LEMMA PaintsKeeps ==
  ASSUME PlainInv, ClientPaints
  PROVE  PlainInv'
<1>1. /\ program = "tesserae" /\ step = "paint"
      /\ UNCHANGED <<program, wanted, reader, server, etag, bare, fetched>>
  BY DEF ClientPaints, Fetches
<1>2. first \in BOOLEAN /\ unshown \in BOOLEAN
  BY <1>1 DEF PlainInv, PlainType
<1>3. fetched # 0 => LastRead = fetched
  BY <1>1 DEF PlainInv, OnItsWay
<1>4. fetched = 0 => Settled
  BY <1>1, SettledIs
<1>5. CASE fetched = 0 /\ ~first
  <2>1. step' = "rest" /\ UNCHANGED <<screen, first, unshown>>
    BY <1>5 DEF ClientPaints
  <2>2. Settled'
    BY <1>1, <1>4, <1>5, <2>1 DEF Settled, LastRead, Frame, Screen
  <2> QED
    BY <1>1, <1>2, <2>1, <2>2, SettledKeeps DEF reader
<1>6. CASE /\ screen' = IF fetched = 0 THEN Screen("waiting", 0, 0) ELSE Frame(fetched)
           /\ first' = FALSE /\ step' = "rest"
           /\ unshown' = (unshown /\ fetched = 0)
           /\ fetched = 0 => first
  <2>1. CASE fetched = 0
    <3>1. unshown' = unshown /\ (etag # 0 => unshown)
      BY <1>2, <1>4, <1>6, <2>1 DEF Settled
    <3>2. Settled'
      BY <1>1, <1>2, <3>1 DEF Settled
    <3> QED
      BY <1>1, <1>2, <1>6, <3>1, <3>2, SettledKeeps DEF reader
  <2>2. CASE fetched # 0
    <3>1. screen' = Frame(fetched) /\ first' = FALSE /\ unshown' = FALSE
      BY <1>6, <2>2
    <3>2. Settled'
      BY <1>1, <1>2, <1>3, <2>2, <3>1 DEF Settled, LastRead, Frame, Screen
    <3> QED
      BY <1>1, <1>6, <3>1, <3>2, SettledKeeps DEF reader
  <2> QED
    BY <2>1, <2>2
<1>7. CASE /\ RoundFails /\ UNCHANGED <<screen, first>>
           /\ unshown' = (unshown \/ fetched # 0)
  <2>1. unshown' \in BOOLEAN /\ (fetched # 0 => unshown') /\ (fetched = 0 => unshown' = unshown)
    BY <1>2, <1>7
  <2>2. Settled'
    BY <1>1, <1>2, <1>4, <1>7, <2>1 DEF Settled, LastRead, Frame, Screen
  <2> QED
    BY <1>1, <1>2, <1>7, <2>1, <2>2, FailsIs, SettledKeeps DEF reader
<1> QED
  BY <1>2, <1>5, <1>6, <1>7 DEF ClientPaints

LEMMA ExcusesKeeps ==
  ASSUME PlainInv, ClientExcuses
  PROVE  PlainInv'
<1>1. /\ program = "tesserae" /\ step = "excuse" /\ step' \in {"rest", "close"}
      /\ UNCHANGED <<program, wanted, reader, server, etag, bare, fetched, unshown>>
      /\ first' \in {first, FALSE}
  BY DEF ClientExcuses, PanelFails, Fetches
<1>2. Settled /\ first \in BOOLEAN /\ unshown \in BOOLEAN
  BY <1>1, SettledIs DEF PlainInv, PlainType
<1>3. first
  BY <1>1 DEF PlainInv, OnItsWay
<1>4. Settled'
  BY <1>1, <1>2, <1>3 DEF Settled
<1> QED
  BY <1>1, <1>2, <1>4, SettledKeeps DEF reader

LEMMA RestsKeeps ==
  ASSUME PlainInv, ClientRests
  PROVE  PlainInv'
<1>1. /\ program = "tesserae" /\ step = "rest" /\ step' = "beat"
      /\ UNCHANGED <<program, wanted, screen, reader, server, etag, bare, fetched, first, unshown>>
  BY DEF ClientRests, Fetches, client
<1>2. Settled /\ first \in BOOLEAN /\ unshown \in BOOLEAN
  BY <1>1, SettledIs DEF PlainInv, PlainType
<1>3. Settled'
  BY <1>1, <1>2 DEF Settled, LastRead, Frame, Screen
<1> QED
  BY <1>1, <1>2, <1>3, SettledKeeps DEF reader

-----------------------------------------------------------------------------
(* The process, its signals and its surroundings.                          *)

(* What the Reader and the client hold stays as it is. *)
LEMMA SameKeeps ==
  ASSUME PlainInv, shelf' \subseteq DOMAIN Pages, pageChange' \in Int,
         UNCHANGED <<program, step, screen, found, saved, place, change, redraw, client>>,
         server' \in Servers
  PROVE  PlainInv'
<1>1. PlainType'
  BY DEF PlainInv, PlainType, client
<1>2. AtSavedPlace' /\ ShowsPlace'
  <2>1. AtSavedPlace /\ ShowsPlace
    BY DEF PlainInv
  <2> QED
    BY <2>1 DEF AtSavedPlace, ShowsPlace, Reads, PlaceOf, Resumed, Place, Screen
<1>3. OnItsWay' /\ TagOnPanel'
  BY DEF PlainInv, OnItsWay, TagOnPanel, LastRead, client, Frame, Screen
<1> QED
  BY <1>1, <1>2, <1>3 DEF PlainInv

LEMMA SignalKeeps ==
  ASSUME PlainInv, PageSignal
  PROVE  PlainInv'
<1>1. shelf' \subseteq DOMAIN Pages /\ pageChange' \in Int
  BY DEF PageSignal, PlainInv, PlainType
<1>2. server' \in Servers
  BY DEF PageSignal, PlainInv, PlainType
<1>3. CASE step = "start"
  <2>1. PlainType' /\ UNCHANGED program /\ step' = "over"
    BY <1>3 DEF PageSignal, PlainInv, PlainType, client
  <2> QED
    BY <2>1, AsideKeeps
<1>4. CASE step # "start"
  BY <1>1, <1>2, <1>4, SameKeeps DEF PageSignal
<1> QED
  BY <1>3, <1>4

LEMMA ShelfKeeps ==
  ASSUME PlainInv, ShelfChanges
  PROVE  PlainInv'
<1>1. shelf' \subseteq DOMAIN Pages /\ pageChange' \in Int
  BY DEF ShelfChanges, PlainInv, PlainType
<1>2. server' \in Servers
  BY DEF ShelfChanges, PlainInv, PlainType
<1> QED
  BY <1>1, <1>2, SameKeeps DEF ShelfChanges

LEMMA ServerKeeps ==
  ASSUME PlainInv, ServerChanges
  PROVE  PlainInv'
<1>1. server \in Servers
  BY DEF PlainInv, PlainType
<1>2. PICK r : r = server
  OBVIOUS
<1>3. \/ server' = [r EXCEPT !.up = ~@]
      \/ server' = [r EXCEPT !.tags = ~@]
      \/ server' = [r EXCEPT !.wraps = ~@]
      \/ \E v \in 1 .. MaxFrames : server' = [r EXCEPT !.frame = v]
  BY <1>2 DEF ServerChanges
<1>4. server' \in Servers
  <2>1. CASE server' = [r EXCEPT !.up = ~@]
    BY <1>1, <1>2, <2>1 DEF Servers
  <2>2. CASE server' = [r EXCEPT !.tags = ~@]
    BY <1>1, <1>2, <2>2 DEF Servers
  <2>3. CASE server' = [r EXCEPT !.wraps = ~@]
    BY <1>1, <1>2, <2>3 DEF Servers
  <2>4. ASSUME NEW v \in 1 .. MaxFrames, server' = [r EXCEPT !.frame = v]
        PROVE  server' \in Servers
    BY <1>1, <1>2, <2>4, PlainBoundsAssumption DEF Servers
  <2> QED
    BY <1>3, <2>1, <2>2, <2>3, <2>4
<1>5. shelf' \subseteq DOMAIN Pages /\ pageChange' \in Int
  BY DEF ServerChanges, reader, PlainInv, PlainType
<1> QED
  BY <1>4, <1>5, SameKeeps DEF ServerChanges, reader

LEMMA StartsKeeps ==
  ASSUME PlainInv, Starts
  PROVE  PlainInv'
<1>1. PlainType'
  <2>1. UNCHANGED <<program, shelf, saved, server>>
    BY DEF Starts
  <2>2. /\ found' = {} /\ pageChange' = 0 /\ change' = 0
        /\ redraw' = FALSE /\ first' = TRUE /\ unshown' = FALSE
    BY DEF Starts
  <2>3. pageChange' \in Int /\ change' \in Int
    BY <2>2
  <2>4. found' \subseteq DOMAIN Pages
    BY <2>2
  <2>5. redraw' \in BOOLEAN /\ first' \in BOOLEAN /\ unshown' \in BOOLEAN
    BY <2>2
  <2> QED
    BY <2>1, <2>3, <2>4, <2>5 DEF PlainInv, PlainType
<1>2. step' = "start" /\ etag' = 0
  BY DEF Starts
<1> QED
  BY <1>1, <1>2
  DEF PlainInv, AtSavedPlace, ShowsPlace, OnItsWay, TagOnPanel, Reads

LEMMA PreparesKeeps ==
  ASSUME PlainInv, Prepares
  PROVE  PlainInv'
<1>1. PlainType'
  BY DEF Prepares, PlainInv, PlainType, reader, client
<1>2. step' = "ready" /\ (program = "tesserae" => etag' = 0) /\ program' = program
  BY DEF Prepares, client, PlainInv, OnItsWay
<1> QED
  BY <1>1, <1>2
  DEF PlainInv, AtSavedPlace, ShowsPlace, OnItsWay, TagOnPanel, Reads

LEMMA LeavesKeeps ==
  ASSUME PlainInv, Leaves \/ Closes \/ PlainKilled \/ (StopSignal /\ step = "start")
  PROVE  PlainInv'
<1>1. /\ UNCHANGED <<program, reader, server, client>>
      /\ step' \in {"close", "over"}
  BY DEF Leaves, Closes, PlainKilled, StopSignal
<1>2. PlainType'
  BY <1>1 DEF PlainInv, PlainType, reader, client
<1>3. AtSavedPlace' /\ ShowsPlace' /\ OnItsWay' /\ TagOnPanel'
  BY <1>1 DEF AtSavedPlace, ShowsPlace, OnItsWay, TagOnPanel, Reads
<1> QED
  BY <1>2, <1>3 DEF PlainInv

LEMMA StopKeeps ==
  ASSUME PlainInv, StopSignal
  PROVE  PlainInv'
<1>1. CASE step = "start"
  BY <1>1, LeavesKeeps
<1>2. CASE step # "start"
  <2>1. shelf' \subseteq DOMAIN Pages /\ pageChange' \in Int /\ server' \in Servers
    BY DEF StopSignal, reader, PlainInv, PlainType
  <2>2. UNCHANGED <<program, step, screen, found, saved, place, change, redraw, client>>
    BY <1>2 DEF StopSignal, reader
  <2> QED
    BY <2>1, <2>2, SameKeeps
<1> QED
  BY <1>1, <1>2

LEMMA PlainStepKeeps == PlainInv /\ [PlainNext]_plainVars => PlainInv'
<1> SUFFICES ASSUME PlainInv, [PlainNext]_plainVars PROVE PlainInv'
  OBVIOUS
<1>1. CASE ReaderStep
  BY <1>1, FindsKeeps, TakesKeeps, ResetsKeeps, SavesKeeps, DrawsKeeps DEF ReaderStep
<1>2. CASE ClientStep
  BY <1>2, ConfiguresKeeps, SetupKeeps, BeatsKeeps, AsksKeeps, FollowsKeeps, PaintsKeeps, ExcusesKeeps, RestsKeeps
  DEF ClientStep
<1>3. CASE Prepares \/ Leaves \/ Closes \/ PlainKilled \/ Starts \/ StopSignal
  BY <1>3, PreparesKeeps, LeavesKeeps, StartsKeeps, StopKeeps
<1>4. CASE PageSignal \/ ShelfChanges \/ ServerChanges
  BY <1>4, SignalKeeps, ShelfKeeps, ServerKeeps
<1>5. CASE UNCHANGED plainVars
  <2>1. shelf' \subseteq DOMAIN Pages /\ pageChange' \in Int /\ server' \in Servers
    BY <1>5 DEF plainVars, reader, PlainInv, PlainType
  <2> QED
    BY <1>5, <2>1, SameKeeps DEF plainVars, reader
<1> QED
  BY <1>1, <1>2, <1>3, <1>4, <1>5 DEF PlainNext, PlainStep

LEMMA PlainInvariant == PlainSpec => []PlainInv
  BY PlainInitHolds, PlainStepKeeps, PTL DEF PlainSpec

(* The Reader at rest shows the page at which it would open again. *)
THEOREM PlaceKept == PlainSpec => []PlaceIsKept
<1>1. PlainInv => PlaceIsKept
  BY DEF PlainInv, AtSavedPlace, ShowsPlace, PlaceIsKept, Reads
<1> QED
  BY <1>1, PlainInvariant, PTL

(* fetch_binary_url(): a Tesserae client that holds a tag shows the frame  *)
(* that tag is of, or a later one that came without a tag, whatever the    *)
(* server answers and whatever fails; after a frame that its panel failed  *)
(* to show, not before the next one is shown.                              *)
THEOREM TagShown == PlainSpec => []TagIsShown
<1>1. PlainInv => TagIsShown
  BY DEF PlainInv, TagOnPanel, TagIsShown
<1> QED
  BY <1>1, PlainInvariant, PTL

-----------------------------------------------------------------------------
(* ProcessRecord: the state file.  A process may overwrite only what is    *)
(* Safe: a program that ended, one known to be lost, or one whose command  *)
(* another has crossed (RecordFits); and what it writes is its own child,  *)
(* or as safe (Writes).                                                    *)

Holders == {"settle", "open", "write", "replace"}

Contents == [mode : Modes \cup {"idle", "unread", "absent"}, pid : Pids \cup {None}]

Acts ==
  [pc : {"idle", "load", "term", "wait", "clear", "popen", "sweep"} \cup Holders,
   mode : Modes \cup {"idle"}, pid : Pids \cup {None}, child : Pids \cup {None},
   text : Contents, file : {"closed", "temporary", "record", "removed"}, crossed : BOOLEAN]

Groups == [Pids -> Modes \cup {"none", "ended"}]

(* What follows is said of programs g, of what the processes do as, and of *)
(* the programs fg that are known to be lost.                              *)
AliveIn(g, p) == p \in Pids /\ g[p] \in Modes
Born(g, p)  == p = None \/ (p \in Pids /\ g[p] # "none")

(* A program that may be missing from the record: it has ended, is known to *)
(* be lost, or will be when the command that started it has ended.          *)
Lost(g, fg, p) == ~AliveIn(g, p) \/ p \in fg
Safe(g, as, fg, p) == Lost(g, fg, p) \/ \E c \in Commands : as[c].child = p /\ as[c].crossed

(* A number that is written down somewhere: a command that still has that   *)
(* program for its child was crossed.                                       *)
Filed(g, as, p) ==
  Born(g, p) /\ (p # None => \A c \in Commands : as[c].child = p => as[c].crossed)

Truly(g, x) == AliveIn(g, x.pid) => x.mode = g[x.pid]

(* What is written is the child, as long as it lives, or nobody's loss. *)
Writes(a, x, g, as, fg) ==
  /\ a.child # None /\ AliveIn(g, a.child) => x.pid = a.child
  /\ a.child = None /\ ~a.crossed => Safe(g, as, fg, x.pid)

(* What a process has at hand. *)
OwnFits(t, a, g, as, fg) ==
  /\ a.child # None => t \in Commands /\ a.pc \in Holders
  /\ a.pc = "settle" => a.child # None
  /\ a.pc = "popen" => a.mode \in Modes
  /\ Born(g, a.child) /\ Filed(g, as, a.pid)
  /\ a.pc = "settle" /\ AliveIn(g, a.child) => a.mode = g[a.child]
  /\ a.pc \in {"open", "write"} =>
       /\ a.text.mode # "absent" /\ Truly(g, a.text) /\ Writes(a, a.text, g, as, fg)
       /\ Filed(g, as, a.text.pid) \/ a.text.pid = a.child
  /\ t = "daemon" /\ a.pc \in {"term", "wait"} /\ AliveIn(g, a.pid) => g[a.pid] = Resident
  /\ t = "daemon" /\ a.pc = "clear" => Safe(g, as, fg, a.pid)

(* A process that was not crossed overwrites nothing that is not safe, and *)
(* neither does one whose descriptor leads to the record itself.           *)
RecordFits(t, a, r, g, as, fg) ==
  /\ ~a.crossed /\ a.pc \in Holders \cup {"popen"} => Safe(g, as, fg, r.pid)
  /\ ~a.crossed /\ a.pc \in {"term", "wait"} /\ t # "daemon" =>
       r.pid = a.pid \/ Safe(g, as, fg, r.pid)
  /\ a.pc = "write" /\ a.file = "record" =>
       Safe(g, as, fg, r.pid) /\ Safe(g, as, fg, a.text.pid)

(* One that was not crossed finds the temporary file as it left it. *)
TemporaryFits(a, tmp, g, as, fg) ==
  ~a.crossed =>
    /\ a.pc = "write" => a.file = "temporary" /\ tmp = Unread
    /\ a.pc = "replace" => tmp.mode # "absent" /\ Writes(a, tmp, g, as, fg)

Saver(a) == a.pc \in {"write", "replace"}

(* Two that save at once know of each other. *)
Together(as) == \A t, u \in Actors : t # u /\ Saver(as[t]) /\ Saver(as[u]) => as[t].crossed

OneParent(as) ==
  \A c, d \in Commands : c # d /\ as[c].child = as[d].child => as[c].child = None

Kept(g, as, fg, r) ==
  \A p \in Pids : AliveIn(g, p) /\ p \notin fg => r.pid = p \/ \E c \in Commands : as[c].child = p

FilesFit(r, tmp, g, as) ==
  /\ r \in Contents /\ tmp \in Contents /\ r.mode # "absent" /\ (tmp.mode = "absent" => tmp = NoFile)
  /\ Filed(g, as, r.pid) /\ Born(g, tmp.pid) /\ Truly(g, r) /\ Truly(g, tmp)

RecordInv ==
  /\ group \in Groups /\ act \in [Actors -> Acts]
  /\ FilesFit(record, temporary, group, act)
  /\ Together(act) /\ OneParent(act)
  /\ \A t \in Actors : /\ OwnFits(t, act[t], group, act, forgotten)
                       /\ RecordFits(t, act[t], record, group, act, forgotten)
                       /\ TemporaryFits(act[t], temporary, group, act, forgotten)
  /\ Kept(group, act, forgotten, record)

-----------------------------------------------------------------------------
(* What stays as the programs age, and as more of them are known lost.     *)

Ages(g, g2) == \A p \in Pids : g[p] # "none" => g2[p] \in {g[p], "ended"}

(* The child of a command stays its child and the command stays crossed, or *)
(* the child is lost; and no command gets a child that was there before.    *)
Raises(g, g2, as, as2, fg2) ==
  \A c \in Commands :
    /\ as[c].child # None =>
         \/ as2[c].child = as[c].child /\ (as[c].crossed => as2[c].crossed)
         \/ Lost(g2, fg2, as[c].child)
         \/ as2[c].child = None /\ ~as[c].crossed
    /\ as2[c].child # None =>
         \/ as2[c].child = as[c].child /\ (as[c].crossed => as2[c].crossed)
         \/ g[as2[c].child] = "none"

LEMMA Constants ==
  /\ Pids = 1 .. MaxPrograms /\ MaxPrograms \in Nat /\ None = 0 /\ None \notin Pids
  /\ "daemon" \notin Commands /\ "recovery" \notin Commands
  /\ "none" \notin Modes /\ "ended" \notin Modes /\ Resident \in Modes
  /\ Commands \subseteq Actors /\ "daemon" \in Actors /\ "recovery" \in Actors
BY ProcessRecordAssumption DEF Pids, None, Modes, Resident, Actors

LEMMA LivesIs == \A p : Lives(p) <=> AliveIn(group, p)
BY DEF Lives, AliveIn

LEMMA BornStays ==
  ASSUME NEW g, NEW g2, Ages(g, g2), NEW p, Born(g, p)
  PROVE  Born(g2, p) /\ (AliveIn(g2, p) => AliveIn(g, p) /\ g2[p] = g[p])
BY Constants DEF Ages, Born, AliveIn

LEMMA SafeStays ==
  ASSUME NEW g, NEW g2, NEW as, NEW as2, NEW fg, NEW fg2,
         Ages(g, g2), fg \subseteq fg2, Raises(g, g2, as, as2, fg2),
         NEW p, Born(g, p), Safe(g, as, fg, p)
  PROVE  Safe(g2, as2, fg2, p)
<1>1. CASE Lost(g, fg, p)
  BY <1>1, BornStays DEF Lost, Safe
<1>2. CASE \E c \in Commands : as[c].child = p /\ as[c].crossed
  <2>1. PICK c \in Commands : as[c].child = p /\ as[c].crossed
    BY <1>2
  <2>2. CASE p = None
    BY <2>2, Constants DEF Safe, Lost, AliveIn
  <2>3. CASE p # None
    BY <2>1, <2>3 DEF Raises, Safe
  <2> QED
    BY <2>2, <2>3
<1> QED
  BY <1>1, <1>2 DEF Safe

LEMMA FiledStays ==
  ASSUME NEW g, NEW g2, NEW as, NEW as2, NEW fg2,
         Ages(g, g2), Raises(g, g2, as, as2, fg2),
         NEW p, Filed(g, as, p)
  PROVE  Filed(g2, as2, p)
<1>1. Born(g, p) /\ Born(g2, p)
  BY BornStays DEF Filed
<1>2. ASSUME p # None, NEW c \in Commands, as2[c].child = p
      PROVE  as2[c].crossed
  BY <1>1, <1>2 DEF Raises, Filed, Born
<1> QED
  BY <1>1, <1>2 DEF Filed

LEMMA TrulyStays ==
  ASSUME NEW g, NEW g2, Ages(g, g2), NEW x, Born(g, x.pid), Truly(g, x)
  PROVE  Truly(g2, x)
BY BornStays DEF Truly

LEMMA WritesStays ==
  ASSUME NEW g, NEW g2, NEW as, NEW as2, NEW fg, NEW fg2,
         Ages(g, g2), fg \subseteq fg2, Raises(g, g2, as, as2, fg2),
         NEW a, NEW x, Born(g, a.child), Born(g, x.pid), Writes(a, x, g, as, fg)
  PROVE  Writes(a, x, g2, as2, fg2)
<1>1. AliveIn(g2, a.child) => AliveIn(g, a.child)
  BY BornStays
<1>2. Safe(g, as, fg, x.pid) => Safe(g2, as2, fg2, x.pid)
  BY SafeStays
<1> QED
  BY <1>1, <1>2 DEF Writes

LEMMA OwnStays ==
  ASSUME NEW g, NEW g2, NEW as, NEW as2, NEW fg, NEW fg2,
         Ages(g, g2), fg \subseteq fg2, Raises(g, g2, as, as2, fg2),
         NEW t, NEW a, OwnFits(t, a, g, as, fg)
  PROVE  OwnFits(t, a, g2, as2, fg2)
<1>1. Born(g, a.child) /\ Filed(g, as, a.pid) /\ Born(g, a.pid)
  BY DEF OwnFits, Filed
<1>2. Born(g2, a.child) /\ Filed(g2, as2, a.pid)
  BY <1>1, BornStays, FiledStays
<1>3. /\ AliveIn(g2, a.child) => AliveIn(g, a.child) /\ g2[a.child] = g[a.child]
      /\ AliveIn(g2, a.pid) => AliveIn(g, a.pid) /\ g2[a.pid] = g[a.pid]
  BY <1>1, BornStays
<1>4. Safe(g, as, fg, a.pid) => Safe(g2, as2, fg2, a.pid)
  BY <1>1, SafeStays
<1>5. ASSUME a.pc \in {"open", "write"}
      PROVE  /\ a.text.mode # "absent" /\ Truly(g2, a.text) /\ Writes(a, a.text, g2, as2, fg2)
             /\ Filed(g2, as2, a.text.pid) \/ a.text.pid = a.child
  <2>1. /\ a.text.mode # "absent" /\ Truly(g, a.text) /\ Writes(a, a.text, g, as, fg)
        /\ Filed(g, as, a.text.pid) \/ a.text.pid = a.child
    BY <1>5 DEF OwnFits
  <2>2. Born(g, a.text.pid)
    BY <1>1, <2>1 DEF Filed
  <2>3. Truly(g2, a.text)
    BY <2>1, <2>2, TrulyStays
  <2>4. Writes(a, a.text, g2, as2, fg2)
    BY <1>1, <2>1, <2>2, WritesStays
  <2>5. Filed(g, as, a.text.pid) => Filed(g2, as2, a.text.pid)
    BY FiledStays
  <2> QED
    BY <2>1, <2>3, <2>4, <2>5
<1> QED
  BY <1>2, <1>3, <1>4, <1>5 DEF OwnFits

LEMMA TextBorn ==
  ASSUME NEW g, NEW as, NEW fg, NEW t, NEW a, OwnFits(t, a, g, as, fg), a.pc \in {"open", "write"}
  PROVE  Born(g, a.text.pid)
BY DEF OwnFits, Filed

LEMMA RecordStays ==
  ASSUME NEW g, NEW g2, NEW as, NEW as2, NEW fg, NEW fg2,
         Ages(g, g2), fg \subseteq fg2, Raises(g, g2, as, as2, fg2),
         NEW t, NEW a, NEW r, Born(g, r.pid),
         OwnFits(t, a, g, as, fg), RecordFits(t, a, r, g, as, fg)
  PROVE  RecordFits(t, a, r, g2, as2, fg2)
<1>1. Safe(g, as, fg, r.pid) => Safe(g2, as2, fg2, r.pid)
  BY SafeStays
<1>2. ASSUME a.pc = "write", Safe(g, as, fg, a.text.pid)
      PROVE  Safe(g2, as2, fg2, a.text.pid)
  <2>1. Born(g, a.text.pid)
    BY <1>2, TextBorn
  <2> QED
    BY <1>2, <2>1, SafeStays
<1> QED
  BY <1>1, <1>2 DEF RecordFits

LEMMA TemporaryStays ==
  ASSUME NEW g, NEW g2, NEW as, NEW as2, NEW fg, NEW fg2,
         Ages(g, g2), fg \subseteq fg2, Raises(g, g2, as, as2, fg2),
         NEW a, NEW x, Born(g, a.child), Born(g, x.pid), TemporaryFits(a, x, g, as, fg)
  PROVE  TemporaryFits(a, x, g2, as2, fg2)
BY WritesStays DEF TemporaryFits

LEMMA FilesStay ==
  ASSUME NEW g, NEW g2, NEW as, NEW as2, NEW fg2,
         Ages(g, g2), Raises(g, g2, as, as2, fg2),
         NEW r, NEW tmp, FilesFit(r, tmp, g, as)
  PROVE  FilesFit(r, tmp, g2, as2)
<1>1. Born(g, r.pid) /\ Born(g2, tmp.pid)
  BY BornStays DEF FilesFit, Filed
<1>2. Filed(g2, as2, r.pid)
  BY FiledStays DEF FilesFit
<1>3. Truly(g2, r) /\ Truly(g2, tmp)
  BY <1>1, TrulyStays DEF FilesFit
<1> QED
  BY <1>1, <1>2, <1>3 DEF FilesFit

-----------------------------------------------------------------------------
(* A step of one process that leaves both files as they are.               *)

(* How the child of the process may change: it keeps it, has none, gets one *)
(* that is new, or leaves one that is lost.                                 *)
ChildMay(t, a) ==
  \/ a.child = act[t].child /\ (a.child # None => a.crossed = act[t].crossed)
  \/ act[t].child = None /\ t \in Commands /\ a.child \in Pids /\ group[a.child] = "none"
  \/ a.child = None /\ Lost(group', forgotten', act[t].child)

Newborn(a) == \A p \in Pids : group[p] = "none" /\ group'[p] # "none" => a.child = p

Moves(t, a) ==
  /\ t \in Actors /\ a \in Acts /\ act' = [act EXCEPT ![t] = a]
  /\ record' = record /\ temporary' = temporary
  /\ group' \in Groups /\ Ages(group, group') /\ forgotten \subseteq forgotten'
  /\ ChildMay(t, a) /\ Newborn(a)
  /\ ~Saver(a)

LEMMA MovedIs ==
  ASSUME RecordInv, NEW t, NEW a, Moves(t, a)
  PROVE  /\ act' \in [Actors -> Acts] /\ act'[t] = a
         /\ \A u \in Actors : u # t => act'[u] = act[u]
         /\ Raises(group, group', act, act', forgotten')
         /\ OneParent(act') /\ Together(act')
<1>0. act \in [Actors -> Acts] /\ OneParent(act) /\ Together(act)
      /\ \A u \in Actors : OwnFits(u, act[u], group, act, forgotten)
  BY DEF RecordInv
<1>1. /\ act' \in [Actors -> Acts] /\ act'[t] = a
      /\ \A u \in Actors : u # t => act'[u] = act[u]
  BY <1>0 DEF Moves
<1>2. Together(act')
  BY <1>0, <1>1 DEF Together, Moves
<1>3. \A c \in Commands : Born(group, act[c].child)
  BY <1>0, Constants DEF OwnFits
<1>4. OneParent(act')
  <2> SUFFICES ASSUME NEW c \in Commands, NEW d \in Commands, c # d, act'[c].child = act'[d].child
               PROVE  act'[c].child = None
    BY DEF OneParent
  <2>1. c \in Actors /\ d \in Actors
    BY Constants
  <2>2. CASE c # t /\ d # t
    BY <1>0, <1>1, <2>1, <2>2 DEF OneParent
  <2>3. ASSUME NEW e \in Commands, e # t, act[e].child = a.child, t \in Commands
        PROVE  a.child = None
    <3>1. CASE a.child = act[t].child
      BY <1>0, <2>3, <3>1 DEF OneParent
    <3>2. CASE a.child \in Pids /\ group[a.child] = "none"
      BY <1>3, <2>3, <3>2, Constants DEF Born
    <3> QED
      BY <3>1, <3>2 DEF Moves, ChildMay
  <2>4. CASE c = t
    BY <1>1, <2>1, <2>3, <2>4
  <2>5. CASE d = t
    BY <1>1, <2>1, <2>3, <2>5
  <2> QED
    BY <2>2, <2>4, <2>5
<1>5. Raises(group, group', act, act', forgotten')
  <2> SUFFICES ASSUME NEW c \in Commands
               PROVE  /\ act[c].child # None =>
                           \/ act'[c].child = act[c].child /\ (act[c].crossed => act'[c].crossed)
                           \/ Lost(group', forgotten', act[c].child)
                      /\ act'[c].child # None =>
                           \/ act'[c].child = act[c].child /\ (act[c].crossed => act'[c].crossed)
                           \/ group[act'[c].child] = "none"
    BY DEF Raises
  <2>1. CASE c # t
    BY <1>1, <2>1, Constants
  <2>2. CASE c = t
    BY <1>1, <2>2 DEF Moves, ChildMay
  <2> QED
    BY <2>1, <2>2
<1> QED
  BY <1>1, <1>2, <1>4, <1>5

LEMMA MoveKeeps ==
  ASSUME RecordInv, NEW t, NEW a, Moves(t, a),
         OwnFits(t, a, group', act', forgotten'),
         RecordFits(t, a, record, group', act', forgotten')
  PROVE  RecordInv'
<1>0. /\ act' \in [Actors -> Acts] /\ act'[t] = a
      /\ \A u \in Actors : u # t => act'[u] = act[u]
      /\ Raises(group, group', act, act', forgotten')
      /\ OneParent(act') /\ Together(act')
  BY MovedIs
<1>1. Ages(group, group') /\ forgotten \subseteq forgotten' /\ t \in Actors
      /\ record' = record /\ temporary' = temporary /\ group' \in Groups /\ ~Saver(a)
  BY DEF Moves
<1>2. FilesFit(record, temporary, group, act) /\ Born(group, record.pid) /\ Born(group, temporary.pid)
  BY DEF RecordInv, FilesFit, Filed
<1>3. FilesFit(record', temporary', group', act')
  BY <1>0, <1>1, <1>2, FilesStay
<1>4. \A u \in Actors : OwnFits(u, act'[u], group', act', forgotten')
  <2> SUFFICES ASSUME NEW u \in Actors, u # t
               PROVE  OwnFits(u, act[u], group', act', forgotten')
    BY <1>0
  <2>1. OwnFits(u, act[u], group, act, forgotten)
    BY DEF RecordInv
  <2> QED
    BY <1>0, <1>1, <2>1, OwnStays
<1>5. \A u \in Actors : RecordFits(u, act'[u], record', group', act', forgotten')
  <2> SUFFICES ASSUME NEW u \in Actors, u # t
               PROVE  RecordFits(u, act[u], record, group', act', forgotten')
    BY <1>0, <1>1
  <2>1. OwnFits(u, act[u], group, act, forgotten) /\ RecordFits(u, act[u], record, group, act, forgotten)
    BY DEF RecordInv
  <2> QED
    BY <1>0, <1>1, <1>2, <2>1, RecordStays
<1>6. \A u \in Actors : TemporaryFits(act'[u], temporary', group', act', forgotten')
  <2>1. CASE TRUE
    <3> SUFFICES ASSUME NEW u \in Actors, u # t
                 PROVE  TemporaryFits(act[u], temporary, group', act', forgotten')
      BY <1>0, <1>1 DEF TemporaryFits, Saver
    <3>1. OwnFits(u, act[u], group, act, forgotten) /\ TemporaryFits(act[u], temporary, group, act, forgotten)
      BY DEF RecordInv
    <3>2. Born(group, act[u].child)
      BY <3>1 DEF OwnFits
    <3> QED
      BY <1>0, <1>1, <1>2, <3>1, <3>2, TemporaryStays
  <2> QED
    BY <2>1
<1>7. Kept(group', act', forgotten', record')
  <2> SUFFICES ASSUME NEW p \in Pids, AliveIn(group', p), p \notin forgotten'
               PROVE  record.pid = p \/ \E c \in Commands : act'[c].child = p
    BY <1>1 DEF Kept
  <2>1. p \notin forgotten
    BY <1>1
  <2>2. CASE group[p] = "none"
    <3>1. a.child = p
      BY <2>2, Constants DEF Moves, Newborn, AliveIn
    <3>2. t \in Commands
      BY <1>0, <3>1, Constants DEF OwnFits
    <3> QED
      BY <1>0, <3>1, <3>2
  <2>3. CASE group[p] # "none"
    <3>1. AliveIn(group, p)
      BY <1>1, <2>3, BornStays DEF Born
    <3>2. record.pid = p \/ \E c \in Commands : act[c].child = p
      BY <2>1, <3>1 DEF RecordInv, Kept
    <3>3. ASSUME NEW c \in Commands, act[c].child = p
          PROVE  act'[c].child = p
      <4>1. CASE c # t
        BY <1>0, <3>3, <4>1, Constants
      <4>2. CASE c = t
        <5>1. ~Lost(group', forgotten', p)
          BY DEF Lost
        <5>2. a.child = p
          BY <2>3, <3>3, <4>2, <5>1, Constants DEF Moves, ChildMay
        <5> QED
          BY <1>0, <4>2, <5>2
      <4> QED
        BY <4>1, <4>2
    <3> QED
      BY <3>2, <3>3
  <2> QED
    BY <2>2, <2>3
<1>8. /\ group' \in Groups /\ act' \in [Actors -> Acts]
      /\ FilesFit(record', temporary', group', act') /\ Together(act') /\ OneParent(act')
  BY <1>0, <1>1, <1>3
<1> QED
  BY <1>4, <1>5, <1>6, <1>7, <1>8 DEF RecordInv

LEMMA LoadIs ==
  ASSUME RecordInv
  PROVE  /\ Load \in Contents /\ Load.pid = record.pid /\ Load.mode # "absent"
         /\ Truly(group, Load) /\ Filed(group, act, Load.pid)
<1>1. /\ record \in Contents /\ record.mode # "absent" /\ Truly(group, record)
      /\ Filed(group, act, record.pid)
  BY DEF RecordInv, FilesFit
<1>2. CASE record = Unread
  <2>1. Load = Stopped /\ record.pid = None
    BY <1>2 DEF Load, Unread, Content
  <2>2. Stopped \in Contents /\ Stopped.pid = None /\ Stopped.mode = "idle"
    BY DEF Stopped, Content, Contents
  <2>3. Truly(group, Stopped)
    BY <2>2, Constants DEF Truly, AliveIn
  <2> QED
    BY <1>1, <2>1, <2>2, <2>3
<1>3. CASE record # Unread
  BY <1>1, <1>3 DEF Load
<1> QED
  BY <1>2, <1>3

(* What a process may say of itself as it moves. *)
LEMMA RecordCarries ==
  ASSUME RecordInv, NEW t, NEW a, Moves(t, a)
  PROVE  /\ \A p : Filed(group, act, p) => Filed(group', act', p)
         /\ \A p : Born(group, p) /\ Safe(group, act, forgotten, p)
                     => Safe(group', act', forgotten', p)
<1>1. Raises(group, group', act, act', forgotten') /\ Ages(group, group') /\ forgotten \subseteq forgotten'
  BY MovedIs DEF Moves
<1>2. ASSUME NEW p, Filed(group, act, p)
      PROVE  Filed(group', act', p)
  BY <1>1, <1>2, FiledStays
<1>3. ASSUME NEW p, Born(group, p), Safe(group, act, forgotten, p)
      PROVE  Safe(group', act', forgotten', p)
  BY <1>1, <1>3, SafeStays
<1> QED
  BY <1>2, <1>3

LEMMA Nothing ==
  ASSUME NEW g, NEW as, NEW fg
  PROVE  /\ Born(g, None) /\ ~AliveIn(g, None) /\ Filed(g, as, None) /\ Safe(g, as, fg, None)
         /\ Stopped \in Contents /\ Stopped.pid = None /\ Stopped.mode = "idle" /\ Truly(g, Stopped)
         /\ NoFile \in Contents /\ NoFile.pid = None /\ NoFile.mode = "absent"
         /\ Unread \in Contents /\ Unread.pid = None /\ Unread.mode = "unread"
         /\ Truly(g, NoFile) /\ Truly(g, Unread)
<1>1. Born(g, None) /\ ~AliveIn(g, None)
  BY Constants DEF Born, AliveIn
<1>2. Filed(g, as, None) /\ Safe(g, as, fg, None)
  BY <1>1 DEF Filed, Safe, Lost
<1>3. /\ Stopped \in Contents /\ Stopped.pid = None /\ Stopped.mode = "idle"
      /\ NoFile \in Contents /\ NoFile.pid = None /\ NoFile.mode = "absent"
      /\ Unread \in Contents /\ Unread.pid = None /\ Unread.mode = "unread"
  BY DEF Stopped, NoFile, Unread, Content, Contents
<1> QED
  BY <1>1, <1>2, <1>3 DEF Truly

(* One that does nothing yet, or nothing any more. *)
LEMMA RestFits ==
  ASSUME NEW t, NEW a, NEW r, NEW g, NEW as, NEW fg,
         a.pc \in {"idle", "load", "sweep"}, a.child = None, a.pid = None
  PROVE  OwnFits(t, a, g, as, fg) /\ RecordFits(t, a, r, g, as, fg)
BY Nothing DEF OwnFits, RecordFits, Holders

(* One that is about to write that nothing runs. *)
LEMMA ClearFits ==
  ASSUME NEW t, NEW a, NEW r, NEW g, NEW as, NEW fg,
         a.pc = "open", a.child = None, a.pid = None, a.text = Stopped,
         ~a.crossed => Safe(g, as, fg, r.pid)
  PROVE  OwnFits(t, a, g, as, fg) /\ RecordFits(t, a, r, g, as, fg)
<1>1. /\ a.text.mode # "absent" /\ Truly(g, a.text) /\ Filed(g, as, a.text.pid)
      /\ Writes(a, a.text, g, as, fg)
  BY Nothing DEF Writes
<1> QED
  BY <1>1, Nothing DEF OwnFits, RecordFits

LEMMA Childless ==
  ASSUME RecordInv, NEW t \in Actors, act[t].pc \notin Holders \/ t \notin Commands
  PROVE  act[t].child = None
BY DEF RecordInv, OwnFits

LEMMA NoActIs ==
  /\ NoAct \in Acts /\ NoAct.pc = "idle" /\ NoAct.child = None /\ NoAct.pid = None
  /\ NoAct.crossed = FALSE /\ NoAct.mode = "idle" /\ NoAct.text = NoFile /\ NoAct.file = "closed"
BY Nothing DEF NoAct, Acts

(* A step that leaves the programs as they are. *)
LEMMA QuietMoves ==
  ASSUME RecordInv, NEW t \in Actors, NEW a \in Acts, Becomes(t, a),
         UNCHANGED <<group, record, temporary>>, forgotten \subseteq forgotten', ~Saver(a),
         \/ a.child = act[t].child /\ (a.child # None => a.crossed = act[t].crossed)
         \/ a.child = None /\ Lost(group, forgotten', act[t].child)
  PROVE  Moves(t, a)
<1>1. group \in Groups
  BY DEF RecordInv
<1>2. Ages(group, group')
  BY DEF Ages
<1>3. ChildMay(t, a) /\ Newborn(a)
  BY DEF ChildMay, Newborn
<1> QED
  BY <1>1, <1>2, <1>3 DEF Moves, Becomes

(* A process that ends its step with nothing at hand. *)
LEMMA IdleKeeps ==
  ASSUME RecordInv, NEW t \in Actors, NEW a \in Acts, Becomes(t, a),
         UNCHANGED <<group, record, temporary>>, forgotten \subseteq forgotten',
         a.pc \in {"idle", "load", "sweep"}, a.child = None, a.pid = None,
         Lost(group, forgotten', act[t].child)
  PROVE  RecordInv'
<1>1. Moves(t, a)
  BY QuietMoves DEF Saver
<1>2. OwnFits(t, a, group', act', forgotten') /\ RecordFits(t, a, record, group', act', forgotten')
  BY RestFits
<1> QED
  BY <1>1, <1>2, MoveKeeps

LEMMA CommandKeeps ==
  ASSUME RecordInv, NEW c \in Commands, NEW mode \in Modes \cup {"idle"}, Command(c, mode)
  PROVE  RecordInv'
<1> DEFINE a == [NoAct EXCEPT !.pc = "load", !.mode = mode]
<1>1. a \in Acts /\ a.pc = "load" /\ a.child = None /\ a.pid = None
  BY NoActIs DEF Acts
<1>2. act[c].child = None
  BY Childless, Constants DEF Command, Busy, Holders
<1>3. Becomes(c, a) /\ UNCHANGED <<group, record, temporary>> /\ forgotten \subseteq forgotten'
  BY DEF Command, fileVars, rest
<1>4. Lost(group, forgotten', act[c].child)
  BY <1>2, Nothing DEF Lost
<1> HIDE DEF a
<1> QED
  BY <1>1, <1>3, <1>4, IdleKeeps, Constants

LEMMA LoadForStopKeeps ==
  ASSUME RecordInv, NEW c \in Commands, LoadForStop(c)
  PROVE  RecordInv'
<1>0. c \in Actors /\ c # "daemon" /\ act[c] \in Acts /\ act[c].pc = "load"
  BY Constants DEF RecordInv, LoadForStop, In
<1>1. act[c].child = None
  BY <1>0, Childless DEF Holders
<1>2. UNCHANGED <<group, record, temporary>> /\ forgotten \subseteq forgotten'
  BY DEF LoadForStop, fileVars, rest
<1>3. CASE Lives(Load.pid)
  <2> DEFINE a == [[act[c] EXCEPT !.pc = "term", !.pid = Load.pid] EXCEPT !.crossed = FALSE]
  <2>1. Becomes(c, a)
    BY <1>3 DEF LoadForStop
  <2>2. a \in Acts
    BY <1>0, LoadIs DEF Acts, Contents
  <2>3. a.pc = "term" /\ a.pid = Load.pid /\ a.child = None /\ ~a.crossed
    BY <1>0, <1>1 DEF Acts
  <2> HIDE DEF a
  <2>4. Moves(c, a)
    BY <1>0, <1>1, <1>2, <2>1, <2>2, <2>3, QuietMoves DEF Saver
  <2>5. Filed(group', act', a.pid)
    BY <2>3, <2>4, RecordCarries, LoadIs
  <2>6. OwnFits(c, a, group', act', forgotten')
    BY <1>0, <2>3, <2>5, Nothing DEF OwnFits
  <2>7. RecordFits(c, a, record, group', act', forgotten')
    BY <2>3, LoadIs DEF RecordFits, Holders
  <2> QED
    BY <2>4, <2>6, <2>7, MoveKeeps
<1>4. CASE ~Lives(Load.pid)
  <2> DEFINE a == [Saves(c, Stopped) EXCEPT !.crossed = FALSE]
  <2>1. Becomes(c, a)
    BY <1>4 DEF LoadForStop
  <2>2. a \in Acts
    BY <1>0, Nothing DEF Acts, Saves, Holders
  <2>3. a.pc = "open" /\ a.pid = None /\ a.child = None /\ ~a.crossed /\ a.text = Stopped
    BY <1>0, <1>1 DEF Acts, Saves
  <2> HIDE DEF a
  <2>4. Moves(c, a)
    BY <1>0, <1>1, <1>2, <2>1, <2>2, <2>3, QuietMoves DEF Saver
  <2>5. Safe(group', act', forgotten', record.pid)
    BY <1>2, <1>4, LoadIs, LivesIs DEF Safe, Lost
  <2>6. OwnFits(c, a, group', act', forgotten') /\ RecordFits(c, a, record, group', act', forgotten')
    BY <2>3, <2>5, ClearFits
  <2> QED
    BY <2>4, <2>6, MoveKeeps
<1> QED
  BY <1>3, <1>4

LEMMA StopFailsKeeps ==
  ASSUME RecordInv, NEW c \in Commands, StopFails(c)
  PROVE  RecordInv'
<1>0. c \in Actors /\ c # "daemon" /\ act[c] \in Acts /\ act[c].pc = "term"
  BY Constants DEF RecordInv, StopFails, In
<1>1. act[c].child = None
  BY <1>0, Childless DEF Holders
<1>2. UNCHANGED <<group, record, temporary>> /\ forgotten' = forgotten \cup {act[c].pid}
  BY DEF StopFails, fileVars
<1> DEFINE a == Saves(c, Load)
<1>3. Becomes(c, a)
  BY DEF StopFails
<1>4. a \in Acts
  BY <1>0, LoadIs, Nothing DEF Acts, Saves, Holders, Contents
<1>5. a.pc = "open" /\ a.pid = None /\ a.child = None /\ a.text = Load /\ a.crossed = act[c].crossed
  BY <1>0, <1>1 DEF Acts, Saves
<1> HIDE DEF a
<1>6. Moves(c, a)
  BY <1>0, <1>1, <1>2, <1>3, <1>4, <1>5, QuietMoves DEF Saver
<1>7. ASSUME ~a.crossed
      PROVE  Safe(group', act', forgotten', record.pid)
  <2>1. record.pid = act[c].pid \/ Safe(group, act, forgotten, record.pid)
    BY <1>0, <1>5, <1>7 DEF RecordInv, RecordFits
  <2>2. Born(group, record.pid)
    BY DEF RecordInv, FilesFit, Filed
  <2>3. record.pid = act[c].pid => Safe(group', act', forgotten', record.pid)
    BY <1>2 DEF Safe, Lost
  <2> QED
    BY <1>6, <2>1, <2>2, <2>3, RecordCarries
<1>8. Filed(group', act', a.text.pid) /\ Truly(group', a.text) /\ a.text.mode # "absent"
  BY <1>2, <1>5, <1>6, RecordCarries, LoadIs
<1>9. Writes(a, a.text, group', act', forgotten')
  BY <1>5, <1>7, LoadIs DEF Writes
<1>10. OwnFits(c, a, group', act', forgotten')
  BY <1>5, <1>8, <1>9, Nothing DEF OwnFits
<1>11. RecordFits(c, a, record, group', act', forgotten')
  BY <1>5, <1>7 DEF RecordFits
<1> QED
  BY <1>6, <1>10, <1>11, MoveKeeps

LEMMA PopenKeeps ==
  ASSUME RecordInv, NEW c \in Commands, Popen(c)
  PROVE  RecordInv'
<1>0. /\ c \in Actors /\ c # "daemon" /\ act[c] \in Acts /\ act[c].pc = "popen" /\ act[c].mode \in Modes
      /\ group \in Groups
  BY Constants DEF RecordInv, Popen, In, OwnFits
<1>1. act[c].child = None
  BY <1>0, Childless DEF Holders
<1>2. UNCHANGED <<record, temporary, forgotten>>
  BY DEF Popen, fileVars, rest
<1>3. CASE Becomes(c, NoAct) /\ UNCHANGED group
  <2>1. Lost(group, forgotten', act[c].child)
    BY <1>1, Nothing DEF Lost
  <2> QED
    BY <1>0, <1>2, <1>3, <2>1, NoActIs, IdleKeeps
<1>4. ASSUME NEW p \in Pids, group[p] = "none", group' = [group EXCEPT ![p] = act[c].mode],
             Becomes(c, [act[c] EXCEPT !.pc = "settle", !.child = p])
      PROVE  RecordInv'
  <2> DEFINE a == [act[c] EXCEPT !.pc = "settle", !.child = p]
  <2>1. a \in Acts
    BY <1>0 DEF Acts, Holders
  <2>2. /\ a.pc = "settle" /\ a.child = p /\ a.pid = act[c].pid /\ a.mode = act[c].mode
        /\ a.crossed = act[c].crossed
    BY <1>0 DEF Acts
  <2>3. Becomes(c, a)
    BY <1>4
  <2> HIDE DEF a
  <2>4. group' \in Groups /\ group'[p] = act[c].mode /\ \A q \in Pids : q # p => group'[q] = group[q]
    BY <1>0, <1>4 DEF Groups
  <2>5. Ages(group, group') /\ Newborn(a)
    BY <1>4, <2>2, <2>4 DEF Ages, Newborn
  <2>6. ChildMay(c, a)
    BY <1>1, <1>4, <2>2 DEF ChildMay
  <2>7. Moves(c, a)
    BY <1>0, <1>2, <2>1, <2>2, <2>3, <2>4, <2>5, <2>6 DEF Moves, Becomes, Saver
  <2>8. Filed(group', act', a.pid)
    <3>1. Filed(group, act, act[c].pid)
      BY <1>0 DEF RecordInv, OwnFits
    <3> QED
      BY <2>2, <2>7, <3>1, RecordCarries
  <2>9. Born(group', p) /\ p # None
    BY <1>0, <2>4, Constants DEF Born
  <2>10. OwnFits(c, a, group', act', forgotten')
    BY <2>2, <2>4, <2>8, <2>9, <1>0 DEF OwnFits, Holders
  <2>11. RecordFits(c, a, record, group', act', forgotten')
    <3>1. ~a.crossed => Safe(group, act, forgotten, record.pid)
      BY <1>0, <2>2 DEF RecordInv, RecordFits
    <3>2. Born(group, record.pid)
      BY DEF RecordInv, FilesFit, Filed
    <3>3. ~a.crossed => Safe(group', act', forgotten', record.pid)
      BY <2>7, <3>1, <3>2, RecordCarries
    <3> QED
      BY <2>2, <3>3 DEF RecordFits
  <2> QED
    BY <2>7, <2>10, <2>11, MoveKeeps
<1> QED
  BY <1>3, <1>4 DEF Popen

LEMMA SettleKeeps ==
  ASSUME RecordInv, NEW c \in Commands, Settle(c)
  PROVE  RecordInv'
<1>0. /\ c \in Actors /\ c # "daemon" /\ act[c] \in Acts /\ act[c].pc = "settle"
      /\ OwnFits(c, act[c], group, act, forgotten) /\ RecordFits(c, act[c], record, group, act, forgotten)
  BY Constants DEF RecordInv, Settle, In
<1>1. PICK p : p = act[c].child
  OBVIOUS
<1>2. /\ p # None /\ Born(group, p) /\ p \in Pids \cup {None}
      /\ AliveIn(group, p) => act[c].mode = group[p]
  BY <1>0, <1>1 DEF OwnFits, Acts
<1>3. UNCHANGED <<group, record, temporary, forgotten>>
  BY DEF Settle, fileVars, rest
<1>4. PICK x : x = Content(act[c].mode, IF Lives(p) THEN p ELSE None)
  OBVIOUS
<1>5. x \in Contents /\ x.mode # "absent" /\ x.pid = (IF AliveIn(group, p) THEN p ELSE None)
      /\ x.mode = act[c].mode
  BY <1>0, <1>2, <1>4, LivesIs DEF Content, Contents, Acts, Modes
<1> DEFINE a == Saves(c, x)
<1>6. Becomes(c, a)
  BY <1>1, <1>4 DEF Settle
<1>7. a \in Acts
  BY <1>0, <1>5, Nothing DEF Acts, Saves, Holders
<1>8. a.pc = "open" /\ a.pid = None /\ a.child = p /\ a.text = x /\ a.crossed = act[c].crossed
  BY <1>0, <1>1 DEF Acts, Saves
<1> HIDE DEF a
<1>9. Moves(c, a)
  BY <1>0, <1>1, <1>3, <1>6, <1>7, <1>8, QuietMoves DEF Saver
<1>10. Truly(group', x)
  BY <1>2, <1>3, <1>5, Nothing DEF Truly
<1>11. Writes(a, x, group', act', forgotten')
  BY <1>2, <1>3, <1>5, <1>8 DEF Writes
<1>12. Filed(group', act', x.pid) \/ x.pid = a.child
  BY <1>5, <1>8, Nothing
<1>13. OwnFits(c, a, group', act', forgotten')
  BY <1>0, <1>2, <1>3, <1>5, <1>8, <1>10, <1>11, <1>12, Nothing DEF OwnFits, Holders
<1>14. RecordFits(c, a, record, group', act', forgotten')
  <2>1. Born(group, record.pid)
    BY DEF RecordInv, FilesFit, Filed
  <2>2. ~a.crossed => Safe(group', act', forgotten', record.pid)
    BY <1>0, <1>8, <1>9, <2>1, RecordCarries DEF RecordFits, Holders
  <2> QED
    BY <1>8, <2>2 DEF RecordFits
<1> QED
  BY <1>9, <1>13, <1>14, MoveKeeps

LEMMA CommandKilledKeeps ==
  ASSUME RecordInv, NEW c \in Commands, CommandKilled(c)
  PROVE  RecordInv'
<1>1. Lost(group, forgotten', act[c].child)
  BY Nothing DEF CommandKilled, Lost
<1>2. Becomes(c, NoAct) /\ UNCHANGED <<group, record, temporary>> /\ forgotten \subseteq forgotten'
  BY DEF CommandKilled, fileVars
<1> QED
  BY <1>1, <1>2, NoActIs, IdleKeeps, Constants

LEMMA ReplaceFailsKeeps ==
  ASSUME RecordInv, NEW t \in Actors, ReplaceFails(t)
  PROVE  RecordInv'
<1>1. act[t].crossed
  BY Nothing DEF RecordInv, TemporaryFits, ReplaceFails, In
<1>2. forgotten' = forgotten \cup Living
  BY <1>1 DEF ReplaceFails, ForgetsIfCrossed
<1>3. Lost(group, forgotten', act[t].child)
  BY <1>2, LivesIs DEF Lost, Living, AliveIn
<1>4. Becomes(t, NoAct) /\ UNCHANGED <<group, record, temporary>> /\ forgotten \subseteq forgotten'
  BY <1>2 DEF ReplaceFails, fileVars
<1> QED
  BY <1>3, <1>4, NoActIs, IdleKeeps

(* The program has been seen to: its record is cleared next, by the daemon *)
(* after another look at it.                                               *)
LEMMA AfterKillKeeps ==
  ASSUME RecordInv, NEW t \in Actors, act[t].pc \in {"term", "wait"}, Becomes(t, AfterKill(t)),
         UNCHANGED <<record, temporary, forgotten>>,
         group' \in Groups, Ages(group, group'), \A p \in Pids : group[p] = "none" => group'[p] = "none",
         IF t = "daemon" THEN Safe(group, act, forgotten, act[t].pid) \/ ~AliveIn(group', act[t].pid)
                         ELSE ~AliveIn(group', act[t].pid)
  PROVE  RecordInv'
<1>0. act[t] \in Acts /\ act[t].child = None /\ Filed(group, act, act[t].pid)
      /\ Born(group, act[t].pid)
  BY Childless DEF RecordInv, Holders, OwnFits, Filed
<1>1. CASE t = "daemon"
  <2> DEFINE a == [act[t] EXCEPT !.pc = "clear"]
  <2>1. Becomes(t, a)
    BY <1>1 DEF AfterKill
  <2>2. /\ a \in Acts /\ a.pc = "clear" /\ a.pid = act[t].pid /\ a.child = None
        /\ a.crossed = act[t].crossed
    BY <1>0 DEF Acts
  <2> HIDE DEF a
  <2>3. Moves(t, a)
    BY <1>0, <2>1, <2>2, Constants DEF Moves, Becomes, ChildMay, Newborn, Saver
  <2>4. Filed(group', act', a.pid) /\ Safe(group', act', forgotten', a.pid)
    BY <1>0, <1>1, <2>2, <2>3, RecordCarries DEF Safe, Lost
  <2>5. OwnFits(t, a, group', act', forgotten') /\ RecordFits(t, a, record, group', act', forgotten')
    BY <2>2, <2>4, Nothing DEF OwnFits, RecordFits, Holders
  <2> QED
    BY <2>3, <2>5, MoveKeeps
<1>2. CASE t # "daemon"
  <2> DEFINE a == Saves(t, Stopped)
  <2>1. Becomes(t, a)
    BY <1>2 DEF AfterKill
  <2>2. a \in Acts
    BY <1>0, Nothing DEF Acts, Saves, Holders
  <2>3. a.pc = "open" /\ a.pid = None /\ a.child = None /\ a.crossed = act[t].crossed /\ a.text = Stopped
    BY <1>0 DEF Acts, Saves
  <2> HIDE DEF a
  <2>4. Moves(t, a)
    BY <1>0, <2>1, <2>2, <2>3, Constants DEF Moves, Becomes, ChildMay, Newborn, Saver
  <2>5. ASSUME ~a.crossed
        PROVE  Safe(group', act', forgotten', record.pid)
    <3>1. record.pid = act[t].pid \/ Safe(group, act, forgotten, record.pid)
      BY <1>2, <2>3, <2>5 DEF RecordInv, RecordFits
    <3>2. Born(group, record.pid)
      BY DEF RecordInv, FilesFit, Filed
    <3> QED
      BY <1>2, <2>4, <3>1, <3>2, RecordCarries DEF Safe, Lost
  <2>6. OwnFits(t, a, group', act', forgotten') /\ RecordFits(t, a, record, group', act', forgotten')
    BY <2>3, <2>5, ClearFits
  <2> QED
    BY <2>4, <2>6, MoveKeeps
<1> QED
  BY <1>1, <1>2

LEMMA TermKeeps ==
  ASSUME RecordInv, NEW t \in Actors, Term(t)
  PROVE  RecordInv'
<1>0. /\ act[t] \in Acts /\ act[t].pc = "term" /\ act[t].child = None
      /\ OwnFits(t, act[t], group, act, forgotten) /\ RecordFits(t, act[t], record, group, act, forgotten)
      /\ Born(group, record.pid) /\ group \in Groups
  BY Childless DEF RecordInv, Term, In, Holders, FilesFit, Filed
<1>1. UNCHANGED <<group, record, temporary, forgotten>>
  BY DEF Term, fileVars, rest
<1>2. CASE Lives(act[t].pid)
  <2> DEFINE a == [act[t] EXCEPT !.pc = "wait"]
  <2>1. Becomes(t, a)
    BY <1>2 DEF Term
  <2>2. /\ a \in Acts /\ a.pc = "wait" /\ a.pid = act[t].pid /\ a.child = None
        /\ a.crossed = act[t].crossed
    BY <1>0 DEF Acts
  <2> HIDE DEF a
  <2>3. Moves(t, a)
    BY <1>0, <1>1, <2>1, <2>2, QuietMoves DEF Saver
  <2>4. Filed(group', act', a.pid)
    BY <1>0, <2>2, <2>3, RecordCarries DEF OwnFits
  <2>5. OwnFits(t, a, group', act', forgotten')
    BY <1>0, <1>1, <2>2, <2>4, Nothing DEF OwnFits
  <2>6. RecordFits(t, a, record, group', act', forgotten')
    BY <1>0, <2>2, <2>3, RecordCarries DEF RecordFits, Holders
  <2> QED
    BY <2>3, <2>5, <2>6, MoveKeeps
<1>3. CASE ~Lives(act[t].pid) /\ t = "daemon"
  BY <1>0, <1>1, <1>3, NoActIs, IdleKeeps, Nothing DEF Term, Lost
<1>4. CASE ~Lives(act[t].pid) /\ t # "daemon"
  <2>1. Becomes(t, AfterKill(t))
    BY <1>4 DEF Term
  <2>2. ~AliveIn(group', act[t].pid) /\ Ages(group, group')
    BY <1>1, <1>4, LivesIs DEF Ages
  <2> QED
    BY <1>0, <1>1, <1>4, <2>1, <2>2, AfterKillKeeps
<1> QED
  BY <1>2, <1>3, <1>4

(* The daemon takes the program for ended when the record no longer names  *)
(* it, which is right only because a program that runs is recorded.        *)
LEMMA UnmatchedIsSafe ==
  ASSUME RecordInv, act["daemon"].pc = "wait", ~Matches
  PROVE  Safe(group, act, forgotten, act["daemon"].pid)
<1>1. PICK p : p = act["daemon"].pid
  OBVIOUS
<1>2. /\ Filed(group, act, p)
      /\ AliveIn(group, p) => group[p] = Resident
  BY <1>1, Constants DEF RecordInv, OwnFits
<1>3. SUFFICES ASSUME AliveIn(group, p), p \notin forgotten
               PROVE  \E c \in Commands : act[c].child = p /\ act[c].crossed
  BY <1>1 DEF Safe, Lost
<1>4. p \in Pids /\ p # None
  BY <1>3, Constants DEF AliveIn
<1>5. record.pid # p
  <2>1. Load.pid = record.pid /\ Truly(group, Load)
    BY LoadIs
  <2>2. CASE record.pid = p
    BY <1>2, <1>3, <2>1, <2>2, LivesIs DEF Matches, Truly
  <2> QED
    BY <2>2
<1>6. \E c \in Commands : act[c].child = p
  BY <1>3, <1>4, <1>5 DEF RecordInv, Kept
<1> QED
  BY <1>2, <1>4, <1>6 DEF Filed

LEMMA WaitEndsKeeps ==
  ASSUME RecordInv, NEW t \in Actors, WaitEnds(t)
  PROVE  RecordInv'
<1>1. /\ act[t].pc = "wait" /\ Becomes(t, AfterKill(t)) /\ ~StillThere(t)
      /\ UNCHANGED <<group, record, temporary, forgotten>>
  BY DEF WaitEnds, In, fileVars, rest
<1>2. group' \in Groups /\ Ages(group, group')
  BY <1>1 DEF RecordInv, Ages
<1>3. CASE t = "daemon"
  BY <1>1, <1>2, <1>3, UnmatchedIsSafe, AfterKillKeeps DEF StillThere
<1>4. CASE t # "daemon"
  BY <1>1, <1>2, <1>4, LivesIs, AfterKillKeeps DEF StillThere
<1> QED
  BY <1>3, <1>4

LEMMA KillKeeps ==
  ASSUME RecordInv, NEW t \in Actors, Kill(t)
  PROVE  RecordInv'
<1>1. /\ act[t].pc = "wait" /\ act[t].child = None /\ group \in Groups
      /\ UNCHANGED <<record, temporary, forgotten>>
  BY Childless DEF Kill, In, fileVars, rest, RecordInv, Holders
<1>2. CASE Lives(act[t].pid)
  <2>1. PICK p \in Pids : p = act[t].pid /\ group[p] \in Modes
    BY <1>2 DEF Lives
  <2>2. group' = [group EXCEPT ![p] = "ended"] /\ Becomes(t, AfterKill(t))
    BY <1>2, <2>1 DEF Kill
  <2>3. group' \in Groups /\ group'[p] = "ended" /\ \A q \in Pids : q # p => group'[q] = group[q]
    BY <1>1, <2>2 DEF Groups
  <2>4. /\ Ages(group, group') /\ ~AliveIn(group', p)
        /\ \A q \in Pids : group[q] = "none" => group'[q] = "none"
    BY <2>1, <2>3, Constants DEF Ages, AliveIn
  <2> QED
    BY <1>1, <2>1, <2>2, <2>3, <2>4, AfterKillKeeps
<1>3. CASE ~Lives(act[t].pid)
  <2>1. Becomes(t, NoAct) /\ UNCHANGED group
    BY <1>3 DEF Kill
  <2> QED
    BY <1>1, <2>1, NoActIs, IdleKeeps, Nothing DEF Lost
<1> QED
  BY <1>2, <1>3

LEMMA TerminateKeeps ==
  ASSUME RecordInv, Terminate
  PROVE  RecordInv'
<1> DEFINE a == [NoAct EXCEPT !.pc = IF Matches THEN "term" ELSE "clear", !.pid = Load.pid]
<1>1. Becomes("daemon", a) /\ UNCHANGED <<group, record, temporary, forgotten>> /\ Load.mode = Resident
  BY DEF Terminate, fileVars, rest
<1>2. a \in Acts
  BY NoActIs, LoadIs DEF Acts, Contents
<1>3. /\ a.pc = (IF Matches THEN "term" ELSE "clear") /\ a.pid = Load.pid /\ a.child = None
      /\ a.crossed = FALSE
  BY NoActIs DEF Acts
<1> HIDE DEF a
<1>4. "daemon" \in Actors /\ act["daemon"].child = None
  BY Childless, Constants
<1>5. Moves("daemon", a)
  BY <1>1, <1>2, <1>3, <1>4, QuietMoves DEF Saver
<1>6. Filed(group', act', a.pid)
  BY <1>3, <1>5, LoadIs, RecordCarries
<1>7. AliveIn(group', a.pid) => group'[a.pid] = Resident
  BY <1>1, <1>3, LoadIs DEF Truly
<1>8. ~Matches => Safe(group', act', forgotten', a.pid)
  BY <1>1, <1>3, LivesIs DEF Matches, Safe, Lost
<1>9. OwnFits("daemon", a, group', act', forgotten')
  BY <1>3, <1>6, <1>7, <1>8, Nothing DEF OwnFits
<1>10. RecordFits("daemon", a, record, group', act', forgotten')
  BY <1>3 DEF RecordFits, Holders
<1> QED
  BY <1>5, <1>9, <1>10, MoveKeeps

LEMMA ClearKeeps ==
  ASSUME RecordInv, Clear
  PROVE  RecordInv'
<1>1. /\ act["daemon"].pc = "clear" /\ act["daemon"].child = None /\ act["daemon"] \in Acts
      /\ "daemon" \in Actors /\ UNCHANGED <<group, record, temporary>>
  BY Childless, Constants DEF Clear, In, Holders, fileVars, RecordInv
<1>2. CASE ~Clears(Load)
  <2>1. Becomes("daemon", NoAct) /\ forgotten' = forgotten
    BY <1>2 DEF Clear
  <2> QED
    BY <1>1, <2>1, NoActIs, IdleKeeps, Nothing DEF Lost
<1>3. CASE Clears(Load)
  <2> DEFINE a == [Saves("daemon", Stopped) EXCEPT !.crossed = FALSE]
  <2>1. /\ Becomes("daemon", a)
        /\ forgotten' = forgotten \cup
             (IF Load.mode = Resident /\ Load.pid # act["daemon"].pid THEN {Load.pid} ELSE {})
    BY <1>3 DEF Clear
  <2>2. a \in Acts
    BY <1>1, Nothing DEF Acts, Saves, Holders
  <2>3. a.pc = "open" /\ a.pid = None /\ a.child = None /\ ~a.crossed /\ a.text = Stopped
    BY <1>1 DEF Acts, Saves
  <2> HIDE DEF a
  <2>4. Moves("daemon", a)
    BY <1>1, <2>1, <2>2, <2>3, QuietMoves DEF Saver
  <2>5. Safe(group', act', forgotten', record.pid)
    <3>1. Load.mode = Resident /\ Load.pid = record.pid
      BY <1>3, LoadIs DEF Clears
    <3>2. CASE Load.pid # act["daemon"].pid
      BY <2>1, <3>1, <3>2 DEF Safe, Lost
    <3>3. CASE Load.pid = act["daemon"].pid
      <4>1. Safe(group, act, forgotten, record.pid) /\ Born(group, record.pid)
        BY <1>1, <3>1, <3>3 DEF RecordInv, OwnFits, FilesFit, Filed
      <4> QED
        BY <2>4, <4>1, RecordCarries
    <3> QED
      BY <3>2, <3>3
  <2>6. /\ OwnFits("daemon", a, group', act', forgotten')
        /\ RecordFits("daemon", a, record, group', act', forgotten')
    BY <2>3, <2>5, ClearFits
  <2> QED
    BY <2>4, <2>6, MoveKeeps
<1> QED
  BY <1>2, <1>3

LEMMA StartManagerKeeps ==
  ASSUME RecordInv, StartManager
  PROVE  RecordInv'
<1> DEFINE a == [NoAct EXCEPT !.pc = "load"]
<1>1. a \in Acts /\ a.pc = "load" /\ a.child = None /\ a.pid = None
  BY NoActIs DEF Acts
<1>2. Becomes("recovery", a) /\ UNCHANGED <<group, record, temporary, forgotten>>
  BY DEF StartManager, fileVars, rest
<1>3. Lost(group, forgotten', act["recovery"].child)
  BY Childless, Constants, Nothing DEF Lost
<1> HIDE DEF a
<1> QED
  BY <1>1, <1>2, <1>3, IdleKeeps, Constants

LEMMA RecoverKeeps ==
  ASSUME RecordInv, Recover
  PROVE  RecordInv'
<1>1. /\ act["recovery"].child = None /\ "recovery" \in Actors /\ "recovery" # "daemon"
      /\ UNCHANGED <<group, record, temporary>>
  BY Childless, Constants DEF Recover, fileVars
<1>2. PICK p : p = Load.pid
  OBVIOUS
<1>3. p = record.pid /\ Filed(group, act, p) /\ p \in Pids \cup {None}
  BY <1>2, LoadIs DEF Contents
<1>4. CASE Lives(p) /\ group[p] \in Known
  <2> DEFINE a == [NoAct EXCEPT !.pc = "term", !.pid = p]
  <2>1. Becomes("recovery", a) /\ forgotten' = forgotten
    BY <1>2, <1>4 DEF Recover
  <2>2. a \in Acts /\ a.pc = "term" /\ a.child = None /\ a.pid = p /\ a.crossed = FALSE
    BY <1>3, NoActIs DEF Acts
  <2> HIDE DEF a
  <2>3. Moves("recovery", a)
    BY <1>1, <2>1, <2>2, QuietMoves DEF Saver
  <2>4. Filed(group', act', p)
    BY <1>3, <2>3, RecordCarries
  <2>5. OwnFits("recovery", a, group', act', forgotten')
    BY <1>1, <2>2, <2>4, Nothing DEF OwnFits
  <2>6. RecordFits("recovery", a, record, group', act', forgotten')
    BY <1>3, <2>2 DEF RecordFits, Holders
  <2> QED
    BY <2>3, <2>5, <2>6, MoveKeeps
<1>5. CASE ~(Lives(p) /\ group[p] \in Known)
  <2> DEFINE a == [NoAct EXCEPT !.pc = "open", !.text = Stopped]
  <2>1. Becomes("recovery", a) /\ forgotten' = forgotten \cup (Living \cap {p})
    BY <1>2, <1>5 DEF Recover
  <2>2. /\ a \in Acts /\ a.pc = "open" /\ a.child = None /\ a.pid = None /\ a.crossed = FALSE
        /\ a.text = Stopped
    BY NoActIs, Nothing DEF Acts, Holders
  <2> HIDE DEF a
  <2>3. Moves("recovery", a)
    BY <1>1, <2>1, <2>2, QuietMoves DEF Saver
  <2>4. Safe(group', act', forgotten', record.pid)
    BY <1>1, <1>3, <2>1, LivesIs DEF Safe, Lost, Living, AliveIn
  <2>5. /\ OwnFits("recovery", a, group', act', forgotten')
        /\ RecordFits("recovery", a, record, group', act', forgotten')
    BY <2>2, <2>4, ClearFits
  <2> QED
    BY <2>3, <2>5, MoveKeeps
<1> QED
  BY <1>4, <1>5

LEMMA SweepKeeps ==
  ASSUME RecordInv, Sweep
  PROVE  RecordInv'
<1>1. /\ group \in Groups /\ UNCHANGED <<record, temporary, forgotten>> /\ Becomes("recovery", NoAct)
      /\ group' = [p \in Pids |-> IF group[p] = Resident THEN "ended" ELSE group[p]]
      /\ act["recovery"].child = None
  BY Childless, Constants DEF RecordInv, Sweep, fileVars
<1>2. group' \in Groups /\ Ages(group, group') /\ Newborn(NoAct)
  BY <1>1, Constants DEF Groups, Ages, Newborn
<1>3. ChildMay("recovery", NoAct)
  BY <1>1, NoActIs DEF ChildMay
<1>4. Moves("recovery", NoAct)
  BY <1>1, <1>2, <1>3, NoActIs, Constants DEF Moves, Becomes, Saver
<1>5. /\ OwnFits("recovery", NoAct, group', act', forgotten')
      /\ RecordFits("recovery", NoAct, record, group', act', forgotten')
  BY NoActIs, RestFits
<1> QED
  BY <1>4, <1>5, MoveKeeps

LEMMA DaemonDiesKeeps ==
  ASSUME RecordInv, DaemonDies
  PROVE  RecordInv'
<1>1. Becomes("daemon", NoAct) /\ UNCHANGED <<group, record, temporary, forgotten>>
  BY DEF DaemonDies, fileVars
<1>2. Lost(group, forgotten', act["daemon"].child)
  BY Childless, Constants, Nothing DEF Lost
<1> QED
  BY <1>1, <1>2, NoActIs, IdleKeeps, Constants

LEMMA ProgramEndsKeeps ==
  ASSUME RecordInv, NEW p \in Pids, ProgramEnds(p)
  PROVE  RecordInv'
<1>1. /\ group \in Groups /\ UNCHANGED <<record, temporary, act, forgotten>>
      /\ group' = [group EXCEPT ![p] = "ended"] /\ group[p] \in Modes
  BY DEF RecordInv, ProgramEnds, fileVars, rest, Lives
<1>2. /\ group' \in Groups /\ group'[p] = "ended" /\ \A q \in Pids : q # p => group'[q] = group[q]
  BY <1>1 DEF Groups
<1>3. Ages(group, group') /\ \A q \in Pids : AliveIn(group', q) => AliveIn(group, q)
  BY <1>1, <1>2, Constants DEF Ages, AliveIn
<1>4. Raises(group, group', act, act, forgotten)
  BY DEF Raises
<1>5. FilesFit(record, temporary, group', act) /\ Born(group, record.pid) /\ Born(group, temporary.pid)
  BY <1>3, <1>4, FilesStay DEF RecordInv, FilesFit, Filed
<1>6. ASSUME NEW t \in Actors
      PROVE  /\ OwnFits(t, act[t], group', act, forgotten)
             /\ RecordFits(t, act[t], record, group', act, forgotten)
             /\ TemporaryFits(act[t], temporary, group', act, forgotten)
  <2>1. /\ OwnFits(t, act[t], group, act, forgotten) /\ RecordFits(t, act[t], record, group, act, forgotten)
        /\ TemporaryFits(act[t], temporary, group, act, forgotten) /\ Born(group, act[t].child)
    BY DEF RecordInv, OwnFits
  <2> QED
    BY <1>3, <1>4, <1>5, <2>1, OwnStays, RecordStays, TemporaryStays
<1>7. Kept(group', act, forgotten, record)
  BY <1>3 DEF RecordInv, Kept
<1>8. act \in [Actors -> Acts] /\ Together(act) /\ OneParent(act)
  BY DEF RecordInv
<1> QED
  BY <1>1, <1>2, <1>5, <1>6, <1>7, <1>8 DEF RecordInv

LEMMA RebootKeeps ==
  ASSUME RecordInv, Reboot
  PROVE  RecordInv'
<1>1. /\ group \in Groups /\ UNCHANGED <<record, temporary, forgotten>>
      /\ group' = [p \in Pids |-> IF Lives(p) THEN "ended" ELSE group[p]]
      /\ act' = [t \in Actors |-> NoAct]
  BY DEF RecordInv, Reboot, fileVars
<1>2. group' \in Groups /\ Ages(group, group') /\ \A p : ~AliveIn(group', p)
  BY <1>1, Constants DEF Groups, Ages, AliveIn, Lives
<1>3. act' \in [Actors -> Acts] /\ \A t \in Actors : act'[t] = NoAct
  BY <1>1, NoActIs
<1>4. Raises(group, group', act, act', forgotten')
  BY <1>2, <1>3, NoActIs, Constants DEF Raises, Lost
<1>5. FilesFit(record', temporary', group', act')
  BY <1>1, <1>2, <1>4, FilesStay DEF RecordInv
<1>6. Together(act') /\ OneParent(act')
  BY <1>3, NoActIs, Constants DEF Together, OneParent, Saver
<1>7. \A t \in Actors : /\ OwnFits(t, act'[t], group', act', forgotten')
                        /\ RecordFits(t, act'[t], record', group', act', forgotten')
                        /\ TemporaryFits(act'[t], temporary', group', act', forgotten')
  BY <1>3, NoActIs, RestFits DEF TemporaryFits
<1>8. Kept(group', act', forgotten', record')
  BY <1>2 DEF Kept
<1> QED
  BY <1>2, <1>3, <1>5, <1>6, <1>7, <1>8 DEF RecordInv

-----------------------------------------------------------------------------
(* The steps of the save.                                                  *)

(* One that is crossed, or goes on from the open to the write, has less to *)
(* answer for.                                                             *)
LEMMA OwnCrossed ==
  ASSUME NEW t, NEW a, NEW b, NEW g, NEW as, NEW fg, OwnFits(t, a, g, as, fg),
         b.child = a.child, b.pid = a.pid, b.text = a.text, b.mode = a.mode,
         b.pc = a.pc \/ (a.pc = "open" /\ b.pc = "write"),
         a.crossed => b.crossed \/ b.pc = "idle"
  PROVE  OwnFits(t, b, g, as, fg)
<1>1. ASSUME b.pc \in {"open", "write"}
      PROVE  Writes(b, b.text, g, as, fg)
  <2>1. a.pc \in {"open", "write"} /\ Writes(a, a.text, g, as, fg)
    BY <1>1 DEF OwnFits
  <2> QED
    BY <1>1, <2>1 DEF Writes
<1> QED
  BY <1>1 DEF OwnFits, Holders

LEMMA OpenTemporaryKeeps ==
  ASSUME RecordInv, NEW t \in Actors, OpenTemporary(t)
  PROVE  RecordInv'
<1> DEFINE both == IF Saving = {} THEN {} ELSE Saving \cup {t}
           b(u) == [act[u] EXCEPT !.crossed = @ \/ u \in both,
                                  !.pc   = IF u = t THEN "write" ELSE @,
                                  !.file = IF u = t THEN "temporary" ELSE @]
<1>1. /\ act[t].pc = "open" /\ temporary' = Unread /\ UNCHANGED <<group, record, forgotten>>
      /\ act' = [u \in Actors |-> b(u)]
  BY DEF OpenTemporary, In, rest
<1>2. /\ act \in [Actors -> Acts] /\ group \in Groups /\ Together(act) /\ OneParent(act)
      /\ FilesFit(record, temporary, group, act) /\ Kept(group, act, forgotten, record)
      /\ Born(group, record.pid)
  BY DEF RecordInv, FilesFit, Filed
<1>3. ASSUME NEW u \in Actors
      PROVE  /\ b(u) \in Acts /\ b(u).mode = act[u].mode /\ b(u).pid = act[u].pid
             /\ b(u).child = act[u].child /\ b(u).text = act[u].text
             /\ b(u).pc = (IF u = t THEN "write" ELSE act[u].pc)
             /\ b(u).file = (IF u = t THEN "temporary" ELSE act[u].file)
             /\ b(u).crossed <=> (act[u].crossed \/ u \in both)
  BY <1>2, <1>3 DEF Acts, Holders
<1>4. ASSUME NEW u \in Actors
      PROVE  act'[u] = b(u)
  BY <1>1
<1>5. \A u \in Actors : u \in both <=> (Saving # {} /\ (u = t \/ u \in Saving))
  OBVIOUS
<1> HIDE DEF b, both
<1>6. act' \in [Actors -> Acts]
  BY <1>1, <1>3
<1>7. \A u \in Actors : u \in Saving <=> Saver(act[u])
  BY DEF Saving, Saver
<1>8. Raises(group, group', act, act', forgotten')
  BY <1>3, <1>4, Constants DEF Raises
<1>9. Together(act')
  <2> SUFFICES ASSUME NEW u \in Actors, NEW v \in Actors, u # v, Saver(act'[u]), Saver(act'[v])
               PROVE  act'[u].crossed
    BY DEF Together
  <2>1. /\ u # t => Saver(act[u])
        /\ v # t => Saver(act[v])
    BY <1>3, <1>4 DEF Saver
  <2>2. u = t \/ u \in Saving
    BY <1>7, <2>1
  <2>3. Saving # {}
    BY <1>7, <2>1
  <2> QED
    BY <1>3, <1>4, <1>5, <2>2, <2>3
<1>10. OneParent(act')
  BY <1>2, <1>3, <1>4, Constants DEF OneParent
<1>11. FilesFit(record', temporary', group', act')
  <2>1. Ages(group, group')
    BY <1>1 DEF Ages
  <2>2. FilesFit(record, temporary, group', act')
    BY <1>2, <1>8, <2>1, FilesStay
  <2> QED
    BY <1>1, <2>2, Nothing DEF FilesFit
<1>12. ASSUME NEW u \in Actors
       PROVE  OwnFits(u, act'[u], group', act', forgotten')
  <2>1. OwnFits(u, act[u], group, act, forgotten)
    BY DEF RecordInv
  <2>2. OwnFits(u, b(u), group, act, forgotten)
    BY <1>1, <1>3, <2>1, OwnCrossed
  <2>3. Ages(group, group') /\ forgotten \subseteq forgotten'
    BY <1>1 DEF Ages
  <2> QED
    BY <1>4, <1>8, <2>2, <2>3, OwnStays
<1>13. ASSUME NEW u \in Actors
       PROVE  RecordFits(u, act'[u], record', group', act', forgotten')
  <2>1. OwnFits(u, act[u], group, act, forgotten) /\ RecordFits(u, act[u], record, group, act, forgotten)
    BY DEF RecordInv
  <2>2. Ages(group, group') /\ forgotten \subseteq forgotten'
    BY <1>1 DEF Ages
  <2>3. RecordFits(u, act[u], record, group', act', forgotten')
    BY <1>2, <1>8, <2>1, <2>2, RecordStays
  <2> QED
    BY <1>1, <1>3, <1>4, <2>3 DEF RecordFits, Holders
<1>14. ASSUME NEW u \in Actors
       PROVE  TemporaryFits(act'[u], temporary', group', act', forgotten')
  <2>1. CASE u = t
    BY <1>1, <1>3, <1>4, <2>1 DEF TemporaryFits
  <2>2. CASE u # t
    BY <1>3, <1>4, <1>5, <1>7, <2>2 DEF TemporaryFits, Saver
  <2> QED
    BY <2>1, <2>2
<1>15. Kept(group', act', forgotten', record')
  BY <1>1, <1>2, <1>3, <1>4, Constants DEF Kept
<1>16. group' \in Groups
  BY <1>1, <1>2
<1> QED
  BY <1>6, <1>9, <1>10, <1>11, <1>12, <1>13, <1>14, <1>15, <1>16 DEF RecordInv

(* One process has written: the programs are what they were, and what is   *)
(* said of the files holds while the processes are still called as before. *)
LEMMA SaveKeeps ==
  ASSUME RecordInv, NEW t \in Actors, NEW a, act[t].pc = "write", a.pc = "replace",
         a.child = act[t].child, a.pid = act[t].pid, a.crossed = act[t].crossed,
         act' \in [Actors -> Acts], act'[t] = a, \A u \in Actors : u # t => act'[u] = act[u],
         UNCHANGED <<group, forgotten>>, Raises(group, group', act, act', forgotten'),
         OneParent(act'), Together(act'),
         FilesFit(record', temporary', group, act), Kept(group, act, forgotten, record'),
         \A u \in Actors : RecordFits(u, act'[u], record', group, act, forgotten),
         \A u \in Actors : TemporaryFits(act'[u], temporary', group, act, forgotten)
  PROVE  RecordInv'
<1>1. Ages(group, group') /\ forgotten \subseteq forgotten' /\ group' \in Groups
  BY DEF Ages, RecordInv
<1>2. FilesFit(record', temporary', group', act')
  BY <1>1, FilesStay
<1>3. Born(group, record'.pid) /\ Born(group, temporary'.pid)
  BY DEF FilesFit, Filed
<1>4. ASSUME NEW u \in Actors
      PROVE  OwnFits(u, act'[u], group, act, forgotten)
  <2>1. OwnFits(u, act[u], group, act, forgotten)
    BY DEF RecordInv
  <2> QED
    BY <2>1 DEF OwnFits, Holders
<1>5. ASSUME NEW u \in Actors
      PROVE  /\ OwnFits(u, act'[u], group', act', forgotten')
             /\ RecordFits(u, act'[u], record', group', act', forgotten')
             /\ TemporaryFits(act'[u], temporary', group', act', forgotten')
  <2>1. Born(group, act'[u].child)
    BY <1>4 DEF OwnFits
  <2> QED
    BY <1>1, <1>3, <1>4, <2>1, OwnStays, RecordStays, TemporaryStays
<1>6. Kept(group', act', forgotten', record')
  <2>1. \A c \in Commands : act'[c].child = act[c].child
    BY Constants
  <2> QED
    BY <2>1 DEF Kept
<1> QED
  BY <1>1, <1>2, <1>5, <1>6 DEF RecordInv

(* Who writes into the record itself has been crossed. *)
LEMMA WriteTemporaryKeeps ==
  ASSUME RecordInv, NEW t \in Actors, WriteTemporary(t)
  PROVE  RecordInv'
<1> DEFINE a == [act[t] EXCEPT !.pc = "replace", !.text = NoFile]
<1>1. /\ act[t].pc = "write" /\ act' = [act EXCEPT ![t] = a] /\ UNCHANGED <<group, forgotten>>
      /\ act \in [Actors -> Acts] /\ group \in Groups /\ Together(act) /\ OneParent(act)
      /\ FilesFit(record, temporary, group, act) /\ Kept(group, act, forgotten, record)
      /\ Born(group, record.pid)
  BY DEF WriteTemporary, In, rest, Becomes, RecordInv, FilesFit, Filed
<1>2. /\ a \in Acts /\ a.pc = "replace" /\ a.child = act[t].child /\ a.pid = act[t].pid
      /\ a.crossed = act[t].crossed /\ a.file = act[t].file
  BY <1>1, Nothing DEF Acts, Holders
<1> HIDE DEF a
<1>3. /\ act' \in [Actors -> Acts] /\ act'[t] = a /\ \A u \in Actors : u # t => act'[u] = act[u]
      /\ Ages(group, group') /\ forgotten \subseteq forgotten'
  BY <1>1, <1>2 DEF Ages
<1>4. Raises(group, group', act, act', forgotten')
  BY <1>2, <1>3, Constants DEF Raises
<1>5. OneParent(act') /\ Together(act')
  BY <1>1, <1>2, <1>3, Constants DEF OneParent, Together, Saver
<1>6. PICK x : x = act[t].text
  OBVIOUS
<1>7. /\ x \in Contents /\ x.mode # "absent" /\ Truly(group, x) /\ Writes(act[t], x, group, act, forgotten)
      /\ Filed(group, act, x.pid) \/ x.pid = act[t].child
      /\ Born(group, act[t].child)
      /\ act[t].child # None => t \in Commands
  BY <1>1, <1>6 DEF RecordInv, OwnFits, Acts
<1>8. Born(group, x.pid)
  BY <1>7 DEF Filed
<1>9. ~act[t].crossed => act[t].file = "temporary" /\ temporary = Unread
  BY <1>1 DEF RecordInv, TemporaryFits
<1>10. RecordFits(t, act[t], record, group, act, forgotten)
  BY DEF RecordInv
<1>11. CASE act[t].file = "temporary"
  <2>1. temporary' \in {x, Unread} /\ (temporary = Unread => temporary' = x) /\ record' = record
    BY <1>6, <1>11 DEF WriteTemporary, Over
  <2>2. FilesFit(record, temporary', group, act)
    BY <1>1, <1>7, <1>8, <2>1, Nothing DEF FilesFit
  <2>3. ASSUME NEW u \in Actors
        PROVE  TemporaryFits(act'[u], temporary', group, act, forgotten)
    <3>1. CASE u = t
      BY <1>2, <1>3, <1>7, <1>9, <2>1, <3>1 DEF TemporaryFits, Writes
    <3>2. CASE u # t
      BY <1>1, <1>3, <3>2 DEF TemporaryFits, Together, Saver
    <3> QED
      BY <3>1, <3>2
  <2>4. ASSUME NEW u \in Actors
        PROVE  RecordFits(u, act'[u], record', group, act, forgotten)
    <3>1. RecordFits(u, act[u], record, group, act, forgotten)
      BY DEF RecordInv
    <3> QED
      BY <1>1, <1>2, <1>3, <2>1, <3>1 DEF RecordFits, Holders
  <2>5. Kept(group, act, forgotten, record')
    BY <1>1, <2>1
  <2> QED
    BY <2>1, <2>2, <2>3, <2>4, <2>5, <1>1, <1>2, <1>3, <1>4, <1>5, SaveKeeps
<1>12. CASE act[t].file = "record"
  <2>1. record' \in {x, Unread} /\ temporary' = temporary
    BY <1>6, <1>12 DEF WriteTemporary, Over
  <2>2. act[t].crossed
    BY <1>9, <1>12
  <2>3. /\ Safe(group, act, forgotten, record.pid) /\ Safe(group, act, forgotten, x.pid)
        /\ Safe(group, act, forgotten, record'.pid)
    BY <1>1, <1>6, <1>10, <1>12, <2>1, Nothing DEF RecordFits
  <2>4. Filed(group, act, x.pid)
    <3>1. ASSUME x.pid = act[t].child, x.pid # None, NEW c \in Commands, act[c].child = x.pid
          PROVE  act[c].crossed
      <4>1. c = t
        BY <1>1, <1>7, <3>1, Constants DEF OneParent
      <4> QED
        BY <2>2, <4>1
    <3> QED
      BY <1>7, <1>8, <3>1 DEF Filed
  <2>5. FilesFit(record', temporary', group, act)
    BY <1>1, <1>7, <2>1, <2>4, Nothing DEF FilesFit
  <2>6. ASSUME NEW u \in Actors
        PROVE  RecordFits(u, act'[u], record', group, act, forgotten)
    <3>1. RecordFits(u, act[u], record, group, act, forgotten)
      BY DEF RecordInv
    <3> QED
      BY <1>2, <1>3, <2>3, <3>1 DEF RecordFits
  <2>7. ASSUME NEW u \in Actors
        PROVE  TemporaryFits(act'[u], temporary', group, act, forgotten)
    <3>1. TemporaryFits(act[u], temporary, group, act, forgotten)
      BY DEF RecordInv
    <3> QED
      BY <1>2, <1>3, <2>1, <2>2, <3>1 DEF TemporaryFits
  <2>8. Kept(group, act, forgotten, record')
    BY <1>1, <2>3 DEF Kept, Safe, Lost
  <2> QED
    BY <2>5, <2>6, <2>7, <2>8, <1>1, <1>2, <1>3, <1>4, <1>5, SaveKeeps
<1>13. CASE act[t].file \notin {"temporary", "record"}
  <2>1. record' = record /\ temporary' = temporary
    BY <1>13 DEF WriteTemporary, fileVars
  <2>2. act[t].crossed
    BY <1>9, <1>13
  <2>3. ASSUME NEW u \in Actors
        PROVE  /\ RecordFits(u, act'[u], record', group, act, forgotten)
               /\ TemporaryFits(act'[u], temporary', group, act, forgotten)
    <3>1. /\ RecordFits(u, act[u], record, group, act, forgotten)
          /\ TemporaryFits(act[u], temporary, group, act, forgotten)
      BY DEF RecordInv
    <3> QED
      BY <1>1, <1>2, <1>3, <2>1, <2>2, <3>1 DEF RecordFits, TemporaryFits, Holders
  <2>4. FilesFit(record', temporary', group, act) /\ Kept(group, act, forgotten, record')
    BY <1>1, <2>1
  <2> QED
    BY <2>1, <2>3, <2>4, <1>1, <1>2, <1>3, <1>4, <1>5, SaveKeeps
<1> QED
  BY <1>11, <1>12, <1>13

LEMMA ContinuesIs ==
  ASSUME RecordInv, NEW t \in Actors
  PROVE  /\ Continues(t) \in Acts /\ Continues(t).child = None /\ Continues(t).pid = None
         /\ Continues(t).pc \in {"idle", "sweep", "popen"} /\ Continues(t).crossed = FALSE
         /\ Continues(t).pc = "popen" => Continues(t).mode \in Modes /\ act[t].child = None
<1>1. act[t].mode \in Modes \cup {"idle"}
  BY DEF RecordInv, Acts
<1>2. CASE t = "recovery"
  <2>1. Continues(t) = [NoAct EXCEPT !.pc = "sweep"]
    BY <1>2, Constants DEF Continues
  <2> QED
    BY <2>1, NoActIs DEF Acts
<1>3. CASE t # "recovery" /\ t \in Commands /\ act[t].mode # "idle" /\ act[t].child = None
  <2>1. Continues(t) = [NoAct EXCEPT !.pc = "popen", !.mode = act[t].mode]
    BY <1>3 DEF Continues
  <2> QED
    BY <1>1, <1>3, <2>1, NoActIs DEF Acts
<1>4. CASE t # "recovery" /\ ~(t \in Commands /\ act[t].mode # "idle" /\ act[t].child = None)
  BY <1>4, NoActIs DEF Continues
<1> QED
  BY <1>2, <1>3, <1>4

(* Once all that run are known to be lost, nobody has more to lose. *)
LEMMA AllLost ==
  ASSUME NEW g, NEW as, NEW fg, \A p \in Pids : AliveIn(g, p) => p \in fg
  PROVE  \A p : Lost(g, fg, p) /\ Safe(g, as, fg, p)
BY DEF Lost, Safe, AliveIn

LEMMA ReplaceRecordKeeps ==
  ASSUME RecordInv, NEW t \in Actors, ReplaceRecord(t)
  PROVE  RecordInv'
<1> DEFINE b(u) == [act[u] EXCEPT !.file = Renamed(@), !.crossed = Busy(u)]
<1>1. /\ act[t].pc = "replace" /\ temporary # NoFile /\ record' = temporary /\ temporary' = NoFile
      /\ act' = [u \in Actors |-> IF u = t THEN Continues(t) ELSE b(u)]
      /\ forgotten' = forgotten \cup (IF act[t].crossed THEN Living ELSE {})
      /\ group' = group
  BY DEF ReplaceRecord, In, ForgetsIfCrossed
<1>2. /\ act \in [Actors -> Acts] /\ group \in Groups /\ Together(act) /\ OneParent(act)
      /\ FilesFit(record, temporary, group, act) /\ Kept(group, act, forgotten, record)
      /\ Born(group, record.pid) /\ Born(group, temporary.pid) /\ temporary.mode # "absent"
  BY <1>1 DEF RecordInv, FilesFit, Filed
<1>3. ASSUME NEW u \in Actors
      PROVE  /\ b(u) \in Acts /\ b(u).mode = act[u].mode /\ b(u).pid = act[u].pid
             /\ b(u).child = act[u].child /\ b(u).text = act[u].text /\ b(u).pc = act[u].pc
             /\ b(u).file = Renamed(act[u].file)
             /\ b(u).crossed <=> act[u].pc # "idle"
  <2>1. act[u] \in Acts /\ Renamed(act[u].file) \in {"closed", "temporary", "record", "removed"}
    BY <1>2 DEF Acts, Renamed
  <2> QED
    BY <2>1 DEF Acts, Busy
<1>4. ASSUME NEW u \in Actors, u # t
      PROVE  act'[u] = b(u)
  BY <1>1, <1>4
<1>5. act'[t] = Continues(t)
  BY <1>1
<1> HIDE DEF b
<1>6. act' \in [Actors -> Acts]
  BY <1>1, <1>3, ContinuesIs
<1>7. ASSUME NEW u \in Actors, act'[u].child # None
      PROVE  u # t /\ u \in Commands /\ act[u].child = act'[u].child /\ act'[u].crossed
  <2>0. Continues(t).child = None
    BY ContinuesIs
  <2>1. u # t /\ act[u].child = act'[u].child
    BY <1>3, <1>4, <1>5, <1>7, <2>0
  <2>2. u \in Commands /\ act[u].pc # "idle"
    BY <1>7, <2>1 DEF RecordInv, OwnFits, Holders
  <2> QED
    BY <1>3, <1>4, <2>1, <2>2
<1>8. act[t].crossed => \A p \in Pids : AliveIn(group', p) => p \in forgotten'
  BY <1>1, LivesIs DEF Living
<1>9. Raises(group, group', act, act', forgotten')
  <2> SUFFICES ASSUME NEW c \in Commands
               PROVE  /\ act[c].child # None =>
                           \/ act'[c].child = act[c].child /\ (act[c].crossed => act'[c].crossed)
                           \/ Lost(group', forgotten', act[c].child)
                           \/ act'[c].child = None /\ ~act[c].crossed
                      /\ act'[c].child # None =>
                           \/ act'[c].child = act[c].child /\ (act[c].crossed => act'[c].crossed)
                           \/ group[act'[c].child] = "none"
    BY DEF Raises
  <2>1. CASE c # t
    BY <1>3, <1>4, <1>7, <2>1, Constants
  <2>2. CASE c = t
    BY <1>5, <1>7, <1>8, <2>2, AllLost, ContinuesIs
  <2> QED
    BY <2>1, <2>2
<1>10. Ages(group, group') /\ forgotten \subseteq forgotten' /\ group' \in Groups
  BY <1>1, <1>2 DEF Ages
<1>11. Together(act') /\ OneParent(act')
  <2>0. ~Saver(act'[t])
    BY <1>5, ContinuesIs DEF Saver
  <2>1. Together(act')
    <3> SUFFICES ASSUME NEW u \in Actors, NEW v \in Actors, u # v, Saver(act'[u]), Saver(act'[v])
                 PROVE  act'[u].crossed
      BY DEF Together
    <3>1. u # t /\ act'[u] = b(u)
      BY <2>0, <1>4
    <3>2. act[u].pc # "idle"
      BY <3>1, <1>3 DEF Saver
    <3> QED
      BY <3>1, <3>2, <1>3
  <2>2. OneParent(act')
    BY <1>2, <1>7, Constants DEF OneParent
  <2> QED
    BY <2>1, <2>2
<1>12. FilesFit(record', temporary', group', act')
  <2>1. Filed(group', act', temporary.pid)
    BY <1>1, <1>2, <1>7, Constants DEF Filed
  <2> QED
    BY <1>1, <1>2, <2>1, Nothing DEF FilesFit
<1>13. ASSUME NEW u \in Actors
       PROVE  OwnFits(u, act'[u], group', act', forgotten')
  <2>1. CASE u = t
    BY <1>5, <2>1, ContinuesIs, Nothing DEF OwnFits
  <2>2. CASE u # t
    <3>1. OwnFits(u, act[u], group, act, forgotten)
      BY DEF RecordInv
    <3>2. OwnFits(u, b(u), group, act, forgotten)
      BY <1>3, <3>1, OwnCrossed
    <3> QED
      BY <1>4, <1>9, <1>10, <2>2, <3>2, OwnStays
  <2> QED
    BY <2>1, <2>2
<1>14. ~act[t].crossed /\ act[t].child = None => Safe(group', act', forgotten', record'.pid)
  <2>1. ~act[t].crossed /\ act[t].child = None => Safe(group, act, forgotten, temporary.pid)
    BY <1>1 DEF RecordInv, TemporaryFits, Writes
  <2> QED
    BY <1>1, <1>2, <1>9, <1>10, <2>1, SafeStays
<1>15. ASSUME NEW u \in Actors
       PROVE  RecordFits(u, act'[u], record', group', act', forgotten')
  <2>1. CASE act[t].crossed /\ u = t
    BY <1>5, <1>8, <2>1, AllLost, ContinuesIs DEF RecordFits
  <2>2. CASE ~act[t].crossed /\ u = t
    BY <1>5, <1>14, <2>2, ContinuesIs DEF RecordFits, Holders
  <2>3. CASE act[t].crossed /\ u # t
    BY <1>3, <1>4, <1>8, <2>3, AllLost DEF RecordFits, Holders
  <2>4. CASE ~act[t].crossed /\ u # t
    <3>1. act[u].pc # "write"
      BY <1>1, <1>2, <2>4 DEF Together, Saver
    <3> QED
      BY <1>3, <1>4, <2>4, <3>1 DEF RecordFits, Holders
  <2> QED
    BY <2>1, <2>2, <2>3, <2>4
<1>16. ASSUME NEW u \in Actors
       PROVE  TemporaryFits(act'[u], temporary', group', act', forgotten')
  <2>1. CASE u = t
    BY <1>5, <2>1, ContinuesIs DEF TemporaryFits
  <2>2. CASE u # t
    BY <1>3, <1>4, <2>2 DEF TemporaryFits
  <2> QED
    BY <2>1, <2>2
<1>17. Kept(group', act', forgotten', record')
  <2>1. CASE act[t].crossed
    BY <1>8, <2>1 DEF Kept
  <2>2. CASE ~act[t].crossed
    <3> SUFFICES ASSUME NEW p \in Pids, AliveIn(group, p), p \notin forgotten
                 PROVE  temporary.pid = p \/ \E c \in Commands : act'[c].child = p
      BY <1>1, <2>2 DEF Kept
    <3>1. ~Lost(group, forgotten, p) /\ p # None
      BY Constants DEF Lost
    <3>2. ASSUME NEW c \in Commands, act[c].child = p, c # t
          PROVE  act'[c].child = p
      BY <1>3, <1>4, <3>2, Constants
    <3>3. CASE record.pid = p
      <4>1. Safe(group, act, forgotten, p)
        BY <1>1, <2>2, <3>3 DEF RecordInv, RecordFits, Holders
      <4>2. PICK c \in Commands : act[c].child = p /\ act[c].crossed
        BY <3>1, <4>1 DEF Safe
      <4> QED
        BY <2>2, <3>2, <4>2
    <3>4. ASSUME NEW c \in Commands, act[c].child = p
          PROVE  temporary.pid = p \/ act'[c].child = p
      <4>1. CASE c # t
        BY <3>2, <3>4, <4>1
      <4>2. CASE c = t
        BY <1>1, <2>2, <3>1, <3>4, <4>2 DEF RecordInv, TemporaryFits, Writes
      <4> QED
        BY <4>1, <4>2
    <3>5. record.pid = p \/ \E c \in Commands : act[c].child = p
      BY <1>2 DEF Kept
    <3> QED
      BY <3>3, <3>4, <3>5
  <2> QED
    BY <2>1, <2>2
<1> QED
  BY <1>6, <1>10, <1>11, <1>12, <1>13, <1>15, <1>16, <1>17 DEF RecordInv

-----------------------------------------------------------------------------
LEMMA RecordInitHolds ==
  ASSUME RecordInit
  PROVE  RecordInv
<1>1. /\ group = [p \in Pids |-> "none"] /\ record = Stopped /\ temporary = NoFile
      /\ act = [t \in Actors |-> NoAct]
  BY DEF RecordInit
<1>2. group \in Groups /\ act \in [Actors -> Acts] /\ \A p : ~AliveIn(group, p)
  BY <1>1, NoActIs, Constants DEF Groups, AliveIn
<1>3. FilesFit(record, temporary, group, act)
  BY <1>1, Nothing DEF FilesFit
<1>4. Together(act) /\ OneParent(act)
  BY <1>1, NoActIs, Constants DEF Together, OneParent, Saver
<1>5. ASSUME NEW t \in Actors
      PROVE  /\ OwnFits(t, act[t], group, act, forgotten)
             /\ RecordFits(t, act[t], record, group, act, forgotten)
             /\ TemporaryFits(act[t], temporary, group, act, forgotten)
  <2>1. act[t] = NoAct
    BY <1>1
  <2> QED
    BY <2>1, NoActIs, RestFits DEF TemporaryFits
<1>6. Kept(group, act, forgotten, record)
  BY <1>2 DEF Kept
<1> QED
  BY <1>2, <1>3, <1>4, <1>5, <1>6 DEF RecordInv

LEMMA RecordStepKeeps ==
  ASSUME RecordInv, [RecordNext]_recordVars
  PROVE  RecordInv'
<1>1. CASE UNCHANGED recordVars
  BY <1>1 DEF recordVars, RecordInv, Together, OneParent, Kept
<1>2. ASSUME NEW c \in Commands, NEW mode \in Modes \cup {"idle"}, Command(c, mode)
      PROVE  RecordInv'
  BY <1>2, CommandKeeps
<1>3. ASSUME NEW c \in Commands,
             LoadForStop(c) \/ StopFails(c) \/ Popen(c) \/ Settle(c) \/ CommandKilled(c)
      PROVE  RecordInv'
  BY <1>3, LoadForStopKeeps, StopFailsKeeps, PopenKeeps, SettleKeeps, CommandKilledKeeps
<1>4. ASSUME NEW t \in Actors,
             \/ OpenTemporary(t) \/ WriteTemporary(t) \/ ReplaceRecord(t) \/ ReplaceFails(t)
             \/ Term(t) \/ WaitEnds(t) \/ Kill(t)
      PROVE  RecordInv'
  BY <1>4, OpenTemporaryKeeps, WriteTemporaryKeeps, ReplaceRecordKeeps, ReplaceFailsKeeps,
     TermKeeps, WaitEndsKeeps, KillKeeps
<1>5. CASE Terminate \/ Clear \/ StartManager \/ Recover \/ Sweep \/ DaemonDies
  BY <1>5, TerminateKeeps, ClearKeeps, StartManagerKeeps, RecoverKeeps, SweepKeeps, DaemonDiesKeeps
<1>6. CASE (\E p \in Pids : ProgramEnds(p)) \/ Reboot
  BY <1>6, ProgramEndsKeeps, RebootKeeps
<1> QED
  BY <1>1, <1>2, <1>3, <1>4, <1>5, <1>6 DEF RecordNext

LEMMA RecordInvImplies == ASSUME RecordInv PROVE NeverForgotten
<1> SUFFICES ASSUME NEW p \in Living \ forgotten
             PROVE  Load.pid = p \/ \E c \in Commands : act[c].child = p
  BY DEF NeverForgotten
<1>1. p \in Pids /\ AliveIn(group, p)
  BY LivesIs DEF Living
<1>2. record.pid = p \/ \E c \in Commands : act[c].child = p
  BY <1>1 DEF RecordInv, Kept
<1> QED
  BY <1>2, LoadIs

(* A program that runs is the recorded one once the command that started it *)
(* has ended, save in the ways of being lost that NeverForgotten names:     *)
(* for any number of commands at once, of programs and of troubles.         *)
THEOREM NeverForgot == RecordSpec => []NeverForgotten
<1>1. RecordInit => RecordInv
  BY RecordInitHolds
<1>2. RecordInv /\ [RecordNext]_recordVars => RecordInv'
  BY RecordStepKeeps
<1>3. RecordInv => NeverForgotten
  BY RecordInvImplies
<1> QED
  BY <1>1, <1>2, <1>3, PTL DEF RecordSpec
=============================================================================
