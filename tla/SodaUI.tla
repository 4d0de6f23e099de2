------------------------------- MODULE SodaUI -------------------------------
(* The screen of the legacy soda machine: SodaFrame of pysodaui/app.py.  Its *)
(* bus thread posts each message as an event, its own thread takes events    *)
(* and touches in order and shows one of five panels.                        *)
EXTENDS SodaBackend

VARIABLE gui   \* [state, user, balance, hashOf, tries, shown]

Blank == [user |-> "", balance |-> 0]
GuiInit == [state |-> "idle", user |-> "", balance |-> 0, hashOf |-> "", asked |-> 0, tries |-> 0, shown |-> Blank]

(* changeState: end the panel that is shown and begin the other one, unless  *)
(* it is the same.  Only the end of learning and its begin are messages.     *)
PasswordLimit == 3
Begin(g, state) ==
  CASE state = "purchase" -> [g EXCEPT !.shown = [user |-> g.user, balance |-> g.balance]]
    [] state = "password" -> [g EXCEPT !.tries = PasswordLimit]
    [] OTHER -> g
End(g) == IF g.state = "purchase" THEN [g EXCEPT !.shown = Blank] ELSE g
ChangeState(g, state) == IF g.state = state THEN g ELSE [Begin(End(g), state) EXCEPT !.state = state]
ChangeSays(g, state) ==
  IF g.state = state THEN <<>>
  ELSE IF g.state = "learn" THEN <<<<"LEARNEND">>>>
  ELSE IF state = "learn" THEN <<<<"LEARNSTART">>>> ELSE <<>>

-----------------------------------------------------------------------------
(* Events.                                                                   *)

Event == Head(bus["gui"])
Takes2(kind, g, state) ==
  /\ Next1("gui", kind)
  /\ gui' = ChangeState(g, state) /\ Read("gui", ChangeSays(g, state))
OnLoginEvent == Takes2("UI-LOGGEDIN", [gui EXCEPT !.user = Event[2], !.balance = Event[3]], "purchase")
OnPasswordEvent ==
  Takes2("UI-PASSWORD", [gui EXCEPT !.user = Event[2], !.balance = Event[3], !.hashOf = Event[2], !.asked = Event[4]], "password")
(* Mutant: the screen is kept while a password is typed. *)
OnLogoutEventKept ==
  Takes2("UI-LOGGEDOUT", gui, IF gui.state = "learn" THEN "learn" ELSE "idle")
OnLogoutEvent == Takes2("UI-LOGGEDOUT", gui, "idle")
OnFpEvent == Takes2("UI-FP-NOTICE", gui, IF Event[2] THEN "purchase" ELSE gui.state)
OnBalanceEvent ==
  /\ Next1("gui", "UI-BALANCE") \/ Next1("gui", "UI-BOUGHT")
  /\ gui' = [gui EXCEPT !.balance = Event[2], !.shown.balance = Event[2]]
  /\ Read("gui", <<>>)

-----------------------------------------------------------------------------
(* Touches, each on the panel that has its button.                           *)

Touch == Head(plan.touches)
Touched(state, what) ==
  /\ plan.touches # <<>> /\ Touch[1] = what /\ gui.state = state
  /\ plan' = [plan EXCEPT !.touches = Tail(@)]
Goes(state, says) == gui' = ChangeState(gui, state) /\ Says(ChangeSays(gui, state) \o says)

OnLogin == Touched("idle", "login") /\ Goes("login", <<>>)
OnDoLogin == Touched("login", "type") /\ UNCHANGED gui /\ Says(<<<<"LOGIN", Touch[2]>>>>)
OnLoginCancel == (Touched("login", "cancel") \/ Touched("password", "cancel")) /\ Goes("idle", <<>>)
OnDoPassword ==
  \/ /\ Touched("password", "right") /\ UNCHANGED gui
     /\ Says(<<<<"LOGIN", gui.user, gui.balance, gui.asked>>>>)
  \/ /\ Touched("password", "wrong")
     /\ LET g == [gui EXCEPT !.tries = @ - 1]
        IN  gui' = IF g.tries = 0 THEN ChangeState(g, "idle") ELSE g
     /\ UNCHANGED bus
OnLogout == Touched("purchase", "logout") /\ UNCHANGED gui /\ Says(<<<<"LOGOUT">>>>)
OnFpLearn ==
  /\ Touched("purchase", "learn")
  /\ IF gui.user = Anonymous THEN UNCHANGED <<gui, bus>> ELSE Goes("learn", <<>>)
OnFpCancel == Touched("learn", "cancel") /\ Goes("purchase", <<>>)

OnTouch ==
  \/ OnLogin \/ OnDoLogin \/ OnLoginCancel \/ OnDoPassword \/ OnLogout \/ OnFpLearn \/ OnFpCancel
OnEvent ==
  /\ \/ OnLoginEvent \/ OnPasswordEvent \/ OnLogoutEvent \/ OnFpEvent \/ OnBalanceEvent
  /\ UNCHANGED plan
=============================================================================
