---------------------- MODULE AlertIndicatorButtonProofs ----------------------
(***************************************************************************)
(* Proofs about AlertIndicatorButton, for any widths of tabs, icon, close  *)
(* button and inset that ButtonAssumption admits.  Handlers are built from *)
(* UpdateEnabledForMuteToggle and Layout, so the argument has one lemma    *)
(* for what each of the two keeps and what it puts right, one for          *)
(* TransitionToAlertState, which calls both, and a step for each handler.  *)
(***************************************************************************)
EXTENDS AlertIndicatorButton, TLAPS

(* What holds of the button at any point within a handler.                  *)
Core(v) ==
    /\ v \in Button
    /\ v.state = "disabled" <=> ~v.enabled
    /\ v.dormant => v.enabled
    /\ v.showing = v.alert \/ (v.alert = "none" /\ ~v.fade.over)
    /\ v.showing # "none" => v.images = v.showing
    /\ v.alert \in Audio => v.colored
    /\ v.alert # "none" /\ v.fade.over => v.fade.part % 2 = 0
    /\ IF v.fade.over THEN v.fade.part \in {0, v.fade.parts - 1} ELSE v.fade.part < v.fade.parts

(* What UpdateEnabledForMuteToggle puts right.                              *)
EnabledOK(v, t, c) ==
    /\ v.enabled => \/ MuteControls /\ v.alert \in Audio
                    \/ v.alert = "none" /\ v.showing = "none" /\ ~v.visible /\ ~c
    /\ MuteControls /\ t.active /\ v.alert \in Audio => v.enabled

(* What Layout puts right.                                                  *)
VisibleOK(v, t) == v.visible <=> v.showing # "none" /\ HasRoom(t)

ButtonOK(v, t, c) == Core(v) /\ EnabledOK(v, t, c) /\ VisibleOK(v, t)

RestOK ==
    /\ tab \in Tab
    /\ data \in Alerts
    /\ contents \in [audible : BOOLEAN, muted : BOOLEAN, capturing : BOOLEAN]
    /\ {handler, captured} \subseteq BOOLEAN

IInv == ButtonOK(b, tab, captured) /\ RestOK

(* The two have the same icon.                                              *)
SameIcon(u, v) ==
    /\ u.alert = v.alert /\ u.showing = v.showing /\ u.images = v.images
    /\ u.colored = v.colored /\ u.fade = v.fade

LEMMA InvByParts == ButtonInv /\ ActiveTabCanBeMuted <=> IInv
BY DEF IInv, ButtonOK, Core, EnabledOK, VisibleOK, RestOK, ButtonInv, TypeOK, EnabledForAudio,
       FadeStopsAtItsEnd, DormantOnlyWhileEnabled, ShowingIsAlertOrFading, TabShowsIcon,
       ImageIsOfShownState, FadesInFully, ActiveTabCanBeMuted

-----------------------------------------------------------------------------
(* The operators the handlers are built from.                              *)

LEMMA SetEnabledResult ==
    ASSUME NEW v \in Button, NEW t, NEW enable \in BOOLEAN
    PROVE  LET u == SetEnabled(v, t, enable) IN
           /\ u \in Button /\ SameIcon(u, v)
           /\ u.visible = v.visible /\ u.dormant = v.dormant
           /\ u.x = v.x /\ u.width = v.width /\ u.closeLeft = v.closeLeft
           /\ u.enabled = enable
           /\ u.state = "disabled" <=> ~enable
<1> DEFINE state == IF ~enable THEN "disabled"
                    ELSE IF IsMouseOver(v, t) THEN "hovered" ELSE "normal"
<1>1. state \in States /\ (state = "disabled" <=> ~enable)
  BY DEF States
<1> HIDE DEF state
<1>2. SetEnabled(v, t, enable) = [v EXCEPT !.enabled = enable, !.state = state]
  BY DEF SetEnabled, state
<1> QED BY <1>1, <1>2 DEF Button, SameIcon

LEMMA UpdateEnabledResult ==
    ASSUME NEW v, Core(v), NEW t, NEW c
    PROVE  LET u == UpdateEnabledForMuteToggle(v, t) IN
           /\ Core(u) /\ EnabledOK(u, t, c) /\ SameIcon(u, v)
           /\ u.visible = v.visible
           /\ u.x = v.x /\ u.width = v.width /\ u.closeLeft = v.closeLeft
<1> DEFINE enable == MuteControls /\ v.alert \in Audio /\ HasSelectableRegion(v, t, 250)
           set == SetEnabled(v, t, enable)
           u == UpdateEnabledForMuteToggle(v, t)
<1>1. enable \in BOOLEAN /\ v \in Button
  BY DEF Core
<1>2. /\ enable => MuteControls /\ v.alert \in Audio
      /\ MuteControls /\ t.active /\ v.alert \in Audio => enable
  BY DEF HasSelectableRegion
<1> HIDE DEF enable
<1>3. /\ set \in Button /\ SameIcon(set, v)
      /\ set.visible = v.visible /\ set.dormant = v.dormant
      /\ set.x = v.x /\ set.width = v.width /\ set.closeLeft = v.closeLeft
      /\ set.enabled = enable
      /\ set.state = "disabled" <=> ~enable
  BY <1>1, SetEnabledResult
<1>4. u = IF enable = v.enabled THEN v
          ELSE IF enable /\ set.state = "hovered" THEN [set EXCEPT !.dormant = TRUE]
          ELSE IF ~enable THEN [set EXCEPT !.dormant = FALSE]
          ELSE set
  BY DEF UpdateEnabledForMuteToggle, EnterDormantPeriod, ExitDormantPeriod, enable
<1> HIDE DEF set, u
<1>5. \/ u = v /\ enable = v.enabled
      \/ \E d \in BOOLEAN : u = [set EXCEPT !.dormant = d] /\ (d => enable)
  <2>1. set = [set EXCEPT !.dormant = v.dormant] /\ v.dormant \in BOOLEAN /\ v.enabled \in BOOLEAN
    BY <1>1, <1>3 DEF Button
  <2>2. CASE enable = v.enabled
    BY <1>4, <2>2
  <2>3. CASE enable # v.enabled /\ ~enable
    BY <1>4, <2>3
  <2>4. CASE enable # v.enabled /\ enable
    BY <1>4, <2>1, <2>4
  <2> QED BY <2>2, <2>3, <2>4
<1>6. /\ u \in Button /\ SameIcon(u, v) /\ u.visible = v.visible
      /\ u.x = v.x /\ u.width = v.width /\ u.closeLeft = v.closeLeft
      /\ u.enabled = enable /\ (u.state = "disabled" <=> ~enable) /\ (u.dormant => enable)
  <2>1. CASE u = v /\ enable = v.enabled
    BY <1>1, <2>1 DEF Core, SameIcon
  <2>2. ASSUME NEW d \in BOOLEAN, u = [set EXCEPT !.dormant = d], d => enable
        PROVE  /\ u \in Button /\ SameIcon(u, v) /\ u.visible = v.visible
               /\ u.x = v.x /\ u.width = v.width /\ u.closeLeft = v.closeLeft
               /\ u.enabled = enable /\ (u.state = "disabled" <=> ~enable) /\ (u.dormant => enable)
    BY <1>3, <2>2 DEF Button, SameIcon
  <2> QED BY <1>5, <2>1, <2>2
<1>7. (u.enabled <=> enable) /\ u.alert = v.alert
  BY <1>6 DEF SameIcon
<1>8. EnabledOK(u, t, c)
  BY <1>2, <1>7 DEF EnabledOK
<1>9. Core(u)
  BY <1>6, <1>7 DEF Core, SameIcon
<1> QED BY <1>6, <1>8, <1>9 DEF u

LEMMA MinIs ==
    ASSUME NEW S \in SUBSET Int, NEW m \in S, \A y \in S : m <= y
    PROVE  Min(S) = m
<1>1. \A x \in S : (\A y \in S : x <= y) => x = m
  OBVIOUS
<1> QED BY <1>1 DEF Min

(* The button's place in its tab: there is room for it, and for the close   *)
(* button if there is one.                                                  *)
LEMMA SetBoundsResult ==
    ASSUME NEW v, Core(v), NEW t \in Tab, NEW c, HasRoom(t),
           v.closeLeft = IF t.active \/ t.width >= MinCloseTab
                         THEN {t.width - Inset - CloseWidth} ELSE {}
    PROVE  LET u == SetBounds(v, t) IN
           /\ Core(u) /\ SameIcon(u, v) /\ u.visible = v.visible
           /\ EnabledOK(v, t, c) => EnabledOK(u, t, c)
<1> DEFINE right == Min({t.width - Inset} \cup v.closeLeft)
           x     == right - ButtonWidth
           moved == [v EXCEPT !.x = x, !.width = ButtonWidth]
<1>1. /\ ButtonWidth \in Nat \ {0} /\ CloseWidth \in Nat /\ Inset \in Nat /\ t.width \in Nat
      /\ t.width >= ButtonWidth + 2 * Inset
  BY ButtonAssumption DEF Tab
<1>2. t.active \/ t.width >= MinCloseTab => t.width >= ButtonWidth + CloseWidth + 2 * Inset
  <2>1. MinCloseTab >= ButtonWidth + CloseWidth + 2 * Inset /\ MinCloseTab \in Int
    BY ButtonAssumption
  <2> QED BY <1>1, <2>1 DEF HasRoom
<1>3. x \in Nat
  <2>1. CASE t.active \/ t.width >= MinCloseTab
    <3> DEFINE close == t.width - Inset - CloseWidth
    <3>1. close \in Int /\ close <= t.width - Inset /\ t.width - Inset \in Int
      BY <1>1
    <3>2. {t.width - Inset} \cup v.closeLeft = {t.width - Inset, close}
      BY <2>1
    <3> HIDE DEF close
    <3>3. right = close
      BY <3>1, <3>2, MinIs
    <3> QED BY <1>1, <1>2, <2>1, <3>3 DEF close
  <2>2. CASE ~(t.active \/ t.width >= MinCloseTab)
    <3>1. {t.width - Inset} \cup v.closeLeft = {t.width - Inset}
      BY <2>2
    <3>2. t.width - Inset \in Int
      BY <1>1
    <3>3. right = t.width - Inset
      BY <3>1, <3>2, MinIs
    <3> QED BY <1>1, <3>3
  <2> QED BY <2>1, <2>2
<1>4. SetBounds(v, t) = IF moved = v THEN v ELSE UpdateEnabledForMuteToggle(moved, t)
  BY DEF SetBounds
<1> HIDE DEF x
<1>5. /\ moved \in Button /\ SameIcon(moved, v) /\ moved.visible = v.visible
      /\ moved.enabled = v.enabled /\ moved.state = v.state /\ moved.dormant = v.dormant
  BY <1>3 DEF Core, Button, SameIcon
<1> HIDE DEF moved
<1>6. Core(moved)
  BY <1>5 DEF Core, SameIcon
<1>7. LET u == UpdateEnabledForMuteToggle(moved, t) IN
      /\ Core(u) /\ EnabledOK(u, t, c) /\ SameIcon(u, moved) /\ u.visible = moved.visible
  BY <1>6, UpdateEnabledResult
<1> QED BY <1>4, <1>5, <1>7 DEF SameIcon

LEMMA SetVisibleResult ==
    ASSUME NEW v, Core(v), NEW t \in Tab, NEW c, NEW visible \in BOOLEAN,
           visible => v.showing # "none"
    PROVE  LET u == SetVisible(v, t, visible) IN
           /\ Core(u) /\ SameIcon(u, v) /\ u.visible = visible
           /\ EnabledOK(v, t, c) => EnabledOK(u, t, c)
<1> DEFINE changed == [v EXCEPT !.visible = visible]
           over    == IsMouseOver(changed, t)
           u       == SetVisible(v, t, visible)
<1>1. \/ u = changed
      \/ v.state # "disabled" /\ \E s \in {"hovered", "normal"} : u = [changed EXCEPT !.state = s]
  BY DEF SetVisible
<1>2. /\ changed \in Button /\ SameIcon(changed, v) /\ changed.visible = visible
      /\ changed.enabled = v.enabled /\ changed.state = v.state /\ changed.dormant = v.dormant
  BY DEF Core, Button, SameIcon
<1> HIDE DEF changed, u
<1>3. /\ u \in Button /\ SameIcon(u, v) /\ u.visible = visible
      /\ u.enabled = v.enabled /\ u.dormant = v.dormant
      /\ u.state = "disabled" <=> v.state = "disabled"
  <2>1. CASE u = changed
    BY <1>2, <2>1
  <2>2. ASSUME v.state # "disabled", NEW s \in {"hovered", "normal"}, u = [changed EXCEPT !.state = s]
        PROVE  /\ u \in Button /\ SameIcon(u, v) /\ u.visible = visible
               /\ u.enabled = v.enabled /\ u.dormant = v.dormant
               /\ u.state = "disabled" <=> v.state = "disabled"
    BY <1>2, <2>2 DEF Button, SameIcon, States
  <2> QED BY <1>1, <2>1, <2>2
<1>4. Core(u)
  BY <1>3 DEF Core, SameIcon
<1>5. EnabledOK(v, t, c) => EnabledOK(u, t, c)
  BY <1>3 DEF EnabledOK, SameIcon
<1> QED BY <1>3, <1>4, <1>5 DEF u

LEMMA LayoutResult ==
    ASSUME NEW v, Core(v), NEW t \in Tab, NEW c
    PROVE  LET u == Layout(v, t) IN
           /\ Core(u) /\ SameIcon(u, v) /\ VisibleOK(u, t)
           /\ EnabledOK(v, t, c) => EnabledOK(u, t, c)
<1> DEFINE shows == v.showing # "none" /\ HasRoom(t)
           left  == IF t.active \/ t.width >= MinCloseTab
                    THEN {t.width - Inset - CloseWidth} ELSE {}
           laid  == [v EXCEPT !.closeLeft = left]
           set   == IF shows THEN SetBounds(laid, t) ELSE laid
<1>1. left \in SUBSET Int
  <2>1. t.width - Inset - CloseWidth \in Int
    <3>1. t.width \in Nat /\ Inset \in Nat /\ CloseWidth \in Nat
      BY ButtonAssumption DEF Tab
    <3> QED BY <3>1
  <2> QED BY <2>1
<1>2. Layout(v, t) = SetVisible(set, t, shows)
  BY DEF Layout
<1>3. shows \in BOOLEAN /\ (shows => v.showing # "none" /\ HasRoom(t))
  OBVIOUS
<1> HIDE DEF left
<1>4. /\ laid \in Button /\ SameIcon(laid, v) /\ laid.visible = v.visible
      /\ laid.enabled = v.enabled /\ laid.state = v.state /\ laid.dormant = v.dormant
      /\ laid.closeLeft = left
  BY <1>1 DEF Core, Button, SameIcon
<1> HIDE DEF laid
<1>5. Core(laid) /\ (EnabledOK(v, t, c) => EnabledOK(laid, t, c))
  BY <1>4 DEF Core, EnabledOK, SameIcon
<1> HIDE DEF shows
<1>6. Core(set) /\ SameIcon(set, v) /\ (EnabledOK(v, t, c) => EnabledOK(set, t, c))
  <2>1. CASE shows
    <3>1. LET u == SetBounds(laid, t) IN
          Core(u) /\ SameIcon(u, laid) /\ (EnabledOK(laid, t, c) => EnabledOK(u, t, c))
      BY <1>3, <1>4, <1>5, <2>1, SetBoundsResult DEF left
    <3> QED BY <1>4, <1>5, <2>1, <3>1 DEF SameIcon
  <2>2. CASE ~shows
    BY <1>4, <1>5, <2>2
  <2> QED BY <2>1, <2>2
<1> HIDE DEF set
<1>7. shows => set.showing # "none"
  BY <1>3, <1>6 DEF SameIcon
<1>8. LET u == SetVisible(set, t, shows) IN
      Core(u) /\ SameIcon(u, set) /\ u.visible = shows /\ (EnabledOK(set, t, c) => EnabledOK(u, t, c))
  BY <1>3, <1>6, <1>7, SetVisibleResult
<1> DEFINE u == Layout(v, t)
<1>9. /\ Core(u) /\ SameIcon(u, v) /\ u.visible = shows
      /\ EnabledOK(v, t, c) => EnabledOK(u, t, c)
  BY <1>2, <1>6, <1>8 DEF SameIcon
<1> HIDE DEF u
<1>10. VisibleOK(u, t)
  BY <1>9 DEF VisibleOK, SameIcon, shows
<1> QED BY <1>9, <1>10 DEF u

LEMMA TransitionResult ==
    ASSUME NEW v, NEW t \in Tab, NEW c, ButtonOK(v, t, c), NEW next \in Alerts
    PROVE  LET u == TransitionToAlertState(v, t, next) IN
           ButtonOK(u, t, c) /\ u.alert = next
<1> DEFINE reset   == IF next = "none" THEN v ELSE ResetImages(v, next)
           showing == IF next = "none" THEN v.alert ELSE next
           fade    == IF {v.alert, next} = Audio THEN NoFade
                      ELSE CreateTabAlertIndicatorFadeAnimation(next)
           set     == [reset EXCEPT !.alert = next, !.showing = showing, !.fade = fade]
           laid    == IF set.showing = v.showing THEN set ELSE Layout(set, t)
<1>1. TransitionToAlertState(v, t, next)
        = IF next = v.alert THEN v ELSE UpdateEnabledForMuteToggle(laid, t)
  BY DEF TransitionToAlertState, IsCurrent
<1>2. CASE next = v.alert
  BY <1>1, <1>2
<1>3. CASE next # v.alert
  <2>1. Core(v) /\ VisibleOK(v, t) /\ v \in Button
    BY DEF ButtonOK, Core
  <2>2. /\ reset \in Button /\ reset.enabled = v.enabled /\ reset.state = v.state
        /\ reset.dormant = v.dormant /\ reset.visible = v.visible
        /\ reset.images = (IF next = "none" THEN v.images ELSE next)
        /\ next # "none" => reset.colored
    BY <2>1 DEF ResetImages, Button
  <2>3. /\ fade \in Fade
        /\ IF fade.over THEN fade.part = 0 ELSE fade.part < fade.parts
        /\ next = "none" => ~fade.over
    <3>1. next = "none" => {v.alert, next} # Audio
      BY DEF Audio
    <3>2. NoFade \in Fade /\ NoFade.over /\ NoFade.part = 0
      BY DEF NoFade, Fade
    <3>3. LET f == CreateTabAlertIndicatorFadeAnimation(next) IN
          f \in Fade /\ ~f.over /\ f.part < f.parts
      BY DEF CreateTabAlertIndicatorFadeAnimation, Fade
    <3> QED BY <3>1, <3>2, <3>3
  <2>4. showing \in Alerts /\ (next = "none" => v.images = showing)
    BY <1>3, <2>1 DEF Core, Button
  <2> HIDE DEF reset, fade
  <2>5. /\ set \in Button /\ set.enabled = v.enabled /\ set.state = v.state
        /\ set.dormant = v.dormant /\ set.visible = v.visible /\ set.images = reset.images
        /\ set.colored = reset.colored /\ set.alert = next /\ set.showing = showing
        /\ set.fade = fade
    BY <2>2, <2>3, <2>4 DEF Button
  <2> HIDE DEF set
  <2>6. Core(set)
    <3>1. set.showing = set.alert \/ (set.alert = "none" /\ ~set.fade.over)
      BY <2>3, <2>5
    <3>2. set.showing # "none" => set.images = set.showing
      BY <2>2, <2>4, <2>5
    <3>3. set.alert \in Audio => set.colored
      BY <2>2, <2>5 DEF Audio
    <3>4. /\ set.alert # "none" /\ set.fade.over => set.fade.part % 2 = 0
          /\ IF set.fade.over THEN set.fade.part \in {0, set.fade.parts - 1}
             ELSE set.fade.part < set.fade.parts
      BY <2>3, <2>5
    <3> QED BY <2>1, <2>5, <3>1, <3>2, <3>3, <3>4 DEF Core
  <2>7. Core(laid) /\ laid.alert = next /\ VisibleOK(laid, t)
    <3>1. CASE set.showing = v.showing
      BY <2>1, <2>5, <2>6, <3>1 DEF VisibleOK
    <3>2. CASE set.showing # v.showing
      <4>1. LET u == Layout(set, t) IN Core(u) /\ SameIcon(u, set) /\ VisibleOK(u, t)
        BY <2>6, LayoutResult
      <4> QED BY <2>5, <3>2, <4>1 DEF SameIcon
    <3> QED BY <3>1, <3>2
  <2> HIDE DEF laid
  <2>8. LET u == UpdateEnabledForMuteToggle(laid, t) IN
        /\ Core(u) /\ EnabledOK(u, t, c) /\ SameIcon(u, laid) /\ u.visible = laid.visible
    BY <2>7, UpdateEnabledResult
  <2> QED BY <1>1, <1>3, <2>7, <2>8 DEF ButtonOK, VisibleOK, SameIcon
<1> QED BY <1>2, <1>3

-----------------------------------------------------------------------------
(* The handlers.                                                           *)

(* What the rules for enabling and showing the button look at.              *)
SameRules(u, v) ==
    u.alert = v.alert /\ u.showing = v.showing /\ u.enabled = v.enabled /\ u.visible = v.visible

LEMMA SameRulesStayOK ==
    ASSUME NEW u, NEW v, NEW t, NEW s, NEW c, ButtonOK(v, t, c), Core(u), SameRules(u, v),
           s.active = t.active, s.width = t.width
    PROVE  ButtonOK(u, s, c)
BY DEF ButtonOK, EnabledOK, VisibleOK, SameRules, HasRoom

(* A change of what the mouse may change.                                   *)
LEMMA SetStateResult ==
    ASSUME NEW v, Core(v), NEW state \in {"normal", "hovered", "pressed"}
    PROVE  Core(SetState(v, state)) /\ SameRules(SetState(v, state), v)
<1> DEFINE u == [v EXCEPT !.state = state]
<1>1. /\ u \in Button /\ SameIcon(u, v) /\ u.state = state /\ u.enabled = v.enabled
      /\ u.visible = v.visible /\ u.dormant = v.dormant
  BY DEF Core, Button, SameIcon, States
<1>2. SetState(v, state) = IF v.state = "disabled" THEN v ELSE u
  BY DEF SetState
<1> HIDE DEF u
<1>3. CASE v.state = "disabled"
  BY <1>2, <1>3 DEF SameRules
<1>4. CASE v.state # "disabled"
  BY <1>1, <1>2, <1>4 DEF Core, SameIcon, SameRules
<1> QED BY <1>3, <1>4

LEMMA DormantResult ==
    ASSUME NEW v, Core(v), NEW d \in BOOLEAN, d => v.enabled
    PROVE  LET u == [v EXCEPT !.dormant = d] IN
           Core(u) /\ SameRules(u, v) /\ u.state = v.state
<1> DEFINE u == [v EXCEPT !.dormant = d]
<1>1. /\ u \in Button /\ SameIcon(u, v) /\ u.state = v.state /\ u.enabled = v.enabled
      /\ u.visible = v.visible /\ u.dormant = d
  BY DEF Core, Button, SameIcon
<1> HIDE DEF u
<1>2. Core(u) /\ SameRules(u, v) /\ u.state = v.state
  BY <1>1 DEF Core, SameIcon, SameRules
<1> QED BY <1>2 DEF u

LEMMA ColorResult ==
    ASSUME NEW v, Core(v)
    PROVE  LET u == OnParentTabButtonColorChanged(v) IN Core(u) /\ SameRules(u, v)
<1> DEFINE u == OnParentTabButtonColorChanged(v)
<1>1. v.alert \in Audio => v.images = v.alert
  BY DEF Core, Audio
<1>2. /\ u \in Button /\ u.alert = v.alert /\ u.showing = v.showing /\ u.images = v.images
      /\ u.fade = v.fade /\ u.enabled = v.enabled /\ u.visible = v.visible
      /\ u.dormant = v.dormant /\ u.state = v.state /\ (v.alert \in Audio => u.colored)
  BY <1>1 DEF OnParentTabButtonColorChanged, ResetImages, Core, Button
<1> HIDE DEF u
<1>3. Core(u) /\ SameRules(u, v)
  BY <1>2 DEF Core, SameRules
<1> QED BY <1>3 DEF u

LEMMA ProgressResult ==
    ASSUME NEW v, NEW t, NEW c, ButtonOK(v, t, c), ~v.fade.over
    PROVE  LET last == v.fade.part = v.fade.parts - 1
               u == [v EXCEPT !.fade.part = IF last THEN @ ELSE @ + 1, !.fade.over = last]
               w == [u EXCEPT !.showing = u.alert]
           IN  /\ IF last THEN Core(w) ELSE ButtonOK(u, t, c)
               /\ last => EnabledOK(w, t, c)
<1> DEFINE last == v.fade.part = v.fade.parts - 1
           u    == [v EXCEPT !.fade.part = IF last THEN @ ELSE @ + 1, !.fade.over = last]
           w    == [u EXCEPT !.showing = u.alert]
           fade == [v.fade EXCEPT !.part = IF last THEN @ ELSE @ + 1, !.over = last]
<1>1. /\ v \in Button /\ v.fade \in Fade /\ Core(v)
      /\ v.fade.part \in 0..4 /\ v.fade.parts \in {0, 1, 5} /\ v.fade.part < v.fade.parts
  BY DEF ButtonOK, Core, Button, Fade
<1>2. last \in BOOLEAN /\ (last <=> v.fade.part = v.fade.parts - 1)
  OBVIOUS
<1> HIDE DEF last
<1>3. fade.parts = v.fade.parts /\ fade.over = last
      /\ fade.part = (IF last THEN v.fade.part ELSE v.fade.part + 1)
  BY <1>1 DEF Fade
<1>4. /\ fade.part \in 0..4
      /\ IF last THEN fade.part = v.fade.parts - 1 ELSE fade.part < v.fade.parts
      /\ last => fade.part % 2 = 0
  <2>1. CASE last
    <3>1. fade.part = v.fade.parts - 1 /\ v.fade.part = v.fade.parts - 1
      BY <1>2, <1>3, <2>1
    <3>2. v.fade.parts = 1 \/ v.fade.parts = 5
      BY <1>1
    <3> QED BY <1>1, <2>1, <3>1, <3>2
  <2>2. CASE ~last
    BY <1>1, <1>2, <1>3, <2>2
  <2> QED BY <2>1, <2>2
<1>5. fade \in Fade
  BY <1>1, <1>2, <1>4 DEF Fade
<1>6. u = [v EXCEPT !.fade = fade]
  BY <1>1 DEF Button, Fade
<1> HIDE DEF fade, u
<1>7. /\ u \in Button /\ u.fade = fade /\ u.images = v.images /\ u.colored = v.colored
      /\ u.dormant = v.dormant /\ u.state = v.state /\ SameRules(u, v)
  BY <1>1, <1>5, <1>6 DEF Button, SameRules
<1>8. ASSUME ~last PROVE ButtonOK(u, t, c)
  <2>1. Core(u)
    BY <1>1, <1>3, <1>4, <1>7, <1>8 DEF Core, SameRules
  <2> QED BY <1>7, <2>1, SameRulesStayOK
<1>9. ASSUME last PROVE Core(w) /\ EnabledOK(w, t, c)
  <2>1. u.alert \in Alerts
    BY <1>7 DEF Button
  <2>2. /\ w \in Button /\ w.fade = fade /\ w.images = v.images /\ w.colored = v.colored
        /\ w.dormant = v.dormant /\ w.state = v.state /\ w.alert = v.alert
        /\ w.showing = v.alert /\ w.enabled = v.enabled /\ w.visible = v.visible
    BY <1>7, <2>1 DEF Button, SameRules
  <2> HIDE DEF w
  <2>3. v.alert # "none" => v.images = v.alert
    BY <1>1 DEF Core
  <2>4. Core(w)
    BY <1>1, <1>3, <1>4, <1>9, <2>2, <2>3 DEF Core
  <2>5. EnabledOK(v, t, c) => EnabledOK(w, t, c)
    BY <2>2 DEF EnabledOK
  <2> QED BY <2>4, <2>5 DEF ButtonOK
<1> QED BY <1>8, <1>9 DEF u, w, last

(* A click is for an enabled button, and one for audio.                     *)
LEMMA ClickResult ==
    ASSUME NEW v, IInv, ButtonOK(v, tab, captured'), v.enabled, NotifyClick(v)
    PROVE  /\ ButtonOK(b', tab, captured')
           /\ contents' \in [audible : BOOLEAN, muted : BOOLEAN, capturing : BOOLEAN]
<1> DEFINE next == IF v.alert = "playing" THEN "muting" ELSE "playing"
           u    == EnterDormantPeriod(v)
<1>1. next \in Alerts /\ tab \in Tab
  BY DEF Alerts, Audio, IInv, RestOK
<1>2. ButtonOK(u, tab, captured')
  <2>1. Core(u) /\ SameRules(u, v)
    BY DormantResult DEF EnterDormantPeriod, ButtonOK
  <2> QED BY <2>1, SameRulesStayOK
<1>3. b' = TransitionToAlertState(u, tab, next)
  BY DEF NotifyClick
<1> HIDE DEF next, u
<1>4. ButtonOK(b', tab, captured')
  BY <1>1, <1>2, <1>3, TransitionResult
<1>5. contents' \in [audible : BOOLEAN, muted : BOOLEAN, capturing : BOOLEAN]
  BY DEF NotifyClick, IInv, RestOK
<1> QED BY <1>4, <1>5

LEMMA LessCaptured ==
    ASSUME NEW v, NEW t, ButtonOK(v, t, captured), captured' = FALSE, captured \in BOOLEAN
    PROVE  ButtonOK(v, t, captured')
BY DEF ButtonOK, EnabledOK

LEMMA InitEstablishesInv == Init => IInv
<1> SUFFICES ASSUME Init PROVE IInv
  OBVIOUS
<1> USE DEF Init
<1>1. NoFade \in Fade /\ NoFade.over /\ NoFade.part = 0
  BY DEF NoFade, Fade
<1>2. b \in Button /\ b.fade = NoFade
  BY <1>1 DEF Button, Alerts, Audio, States
<1>3. /\ b.alert = "none" /\ b.showing = "none" /\ b.enabled = TRUE /\ b.state = "normal"
      /\ b.dormant = FALSE /\ b.visible = FALSE
  OBVIOUS
<1>4. Core(b) /\ EnabledOK(b, tab, captured) /\ VisibleOK(b, tab)
  BY <1>1, <1>2, <1>3 DEF Core, EnabledOK, VisibleOK, Audio
<1>5. RestOK
  BY DEF RestOK, Tab, Alerts
<1> QED BY <1>4, <1>5 DEF IInv, ButtonOK

LEMMA NextKeepsInv == IInv /\ [Next]_vars => IInv'
<1> SUFFICES ASSUME IInv, [Next]_vars PROVE ButtonOK(b', tab', captured') /\ RestOK'
  BY DEF IInv, ButtonOK, Core, EnabledOK, VisibleOK, HasRoom
<1> USE DEF RestOK
<1>1. /\ ButtonOK(b, tab, captured) /\ Core(b) /\ RestOK /\ tab \in Tab
  BY DEF IInv, ButtonOK
<1>2. CASE PageChanges
  BY <1>1, <1>2 DEF PageChanges
<1>3. CASE SetData
  <2>1. AlertStateToShow(contents) \in Alerts
    BY DEF AlertStateToShow, Alerts, Audio
  <2> QED BY <1>1, <1>3, <2>1, TransitionResult DEF SetData
<1>4. CASE ActiveStateChanged
  <2>1. tab' \in Tab
    BY <1>1, <1>4 DEF ActiveStateChanged, Tab
  <2>2. PICK recolored \in {b, OnParentTabButtonColorChanged(b)} :
            b' = Layout(UpdateEnabledForMuteToggle(recolored, tab'), tab')
    BY <1>4 DEF ActiveStateChanged
  <2>3. Core(recolored)
    BY <1>1, ColorResult
  <2> DEFINE u == UpdateEnabledForMuteToggle(recolored, tab')
  <2>4. Core(u) /\ EnabledOK(u, tab', captured)
    BY <2>3, UpdateEnabledResult
  <2> HIDE DEF u
  <2>5. LET l == Layout(u, tab') IN
        /\ Core(l) /\ VisibleOK(l, tab')
        /\ EnabledOK(u, tab', captured) => EnabledOK(l, tab', captured)
    BY <2>1, <2>4, LayoutResult
  <2>6. ButtonOK(b', tab', captured)
    BY <2>2, <2>4, <2>5 DEF ButtonOK, u
  <2> QED BY <1>1, <1>4, <2>1, <2>6 DEF ActiveStateChanged
<1>5. CASE UpdateForegroundColors
  <2>1. ButtonOK(b', tab, captured)
    BY <1>1, <1>5, ColorResult, SameRulesStayOK DEF UpdateForegroundColors
  <2> QED BY <1>1, <1>5, <2>1 DEF UpdateForegroundColors
<1>6. CASE Resize
  <2>1. tab' \in Tab /\ tab'.active = tab.active
    BY <1>1, <1>6 DEF Resize, Tab
  <2>2. EnabledOK(b, tab', captured)
    BY <1>1, <2>1 DEF ButtonOK, EnabledOK
  <2>3. LET l == Layout(b, tab') IN
        /\ Core(l) /\ VisibleOK(l, tab')
        /\ EnabledOK(b, tab', captured) => EnabledOK(l, tab', captured)
    BY <1>1, <2>1, LayoutResult
  <2>4. ButtonOK(b', tab', captured)
    BY <1>6, <2>2, <2>3 DEF ButtonOK, Resize
  <2> QED BY <1>1, <1>6, <2>1, <2>4 DEF Resize
<1>7. CASE AnimationStep
  <2> DEFINE last == b.fade.part = b.fade.parts - 1
             u    == [b EXCEPT !.fade.part = IF last THEN @ ELSE @ + 1, !.fade.over = last]
             w    == [u EXCEPT !.showing = u.alert]
  <2>1. /\ IF last THEN Core(w) ELSE ButtonOK(u, tab, captured)
        /\ last => EnabledOK(w, tab, captured)
    BY <1>1, <1>7, ProgressResult DEF AnimationStep
  <2>2. b' = IF last THEN Layout(w, tab) ELSE u
    BY <1>7 DEF AnimationStep, AnimationEnded
  <2> HIDE DEF last, u, w
  <2>3. Core(w) => LET l == Layout(w, tab) IN
                   /\ Core(l) /\ VisibleOK(l, tab)
                   /\ EnabledOK(w, tab, captured) => EnabledOK(l, tab, captured)
    BY <1>1, LayoutResult
  <2>4. ButtonOK(b', tab, captured)
    BY <2>1, <2>2, <2>3 DEF ButtonOK
  <2> QED BY <1>1, <1>7, <2>4 DEF AnimationStep
<1>8. CASE WakeUp
  <2>1. Core(b') /\ SameRules(b', b)
    BY <1>1, <1>8, DormantResult DEF WakeUp, ExitDormantPeriod
  <2>2. ButtonOK(b', tab, captured)
    BY <1>1, <2>1, SameRulesStayOK
  <2> QED BY <1>1, <1>8, <2>2 DEF WakeUp
<1>9. CASE MouseMoves
  <2>1. PICK over \in BOOLEAN, plain \in BOOLEAN :
            /\ tab' = [tab EXCEPT !.over = over]
            /\ handler' = DoesIntersectRect(b, tab')
            /\ b' = IF handler' THEN OnMouseEnteredOrMoved(b, plain)
                    ELSE IF handler THEN OnMouseExited(b)
                    ELSE b
    BY <1>9 DEF MouseMoves
  <2>2. tab' \in Tab /\ tab'.active = tab.active /\ tab'.width = tab.width
    BY <1>1, <2>1 DEF Tab
  <2>3. Core(b') /\ SameRules(b', b)
    <3>1. LET m == OnMouseEnteredOrMoved(b, plain) IN Core(m) /\ SameRules(m, b)
      BY <1>1, SetStateResult DEF OnMouseEnteredOrMoved
    <3>2. LET x == OnMouseExited(b) IN Core(x) /\ SameRules(x, b)
      <4> DEFINE e == ExitDormantPeriod(b)
      <4>1. Core(e) /\ SameRules(e, b)
        BY <1>1, DormantResult DEF ExitDormantPeriod
      <4> HIDE DEF e
      <4>2. Core(SetState(e, "normal")) /\ SameRules(SetState(e, "normal"), e)
        BY <4>1, SetStateResult
      <4> QED BY <4>1, <4>2 DEF OnMouseExited, SameRules, e
    <3> QED BY <1>1, <2>1, <3>1, <3>2 DEF SameRules
  <2>4. ButtonOK(b', tab', captured)
    BY <1>1, <2>2, <2>3, SameRulesStayOK
  <2>5. handler' \in BOOLEAN
    <3>1. tab'.over \in BOOLEAN /\ b.enabled \in BOOLEAN /\ b.visible \in BOOLEAN
      BY <1>1, <2>2 DEF Core, Button, Tab
    <3> QED BY <2>1, <3>1 DEF DoesIntersectRect, IsMouseOver
  <2> QED BY <1>1, <1>9, <2>2, <2>4, <2>5 DEF MouseMoves
<1>10. CASE OnMouseDragged
  <2>1. tab' \in Tab /\ tab'.active = tab.active /\ tab'.width = tab.width
    BY <1>1, <1>10 DEF OnMouseDragged, Tab
  <2>2. Core(b') /\ SameRules(b', b)
    BY <1>1, <1>10, SetStateResult DEF OnMouseDragged
  <2>3. ButtonOK(b', tab', captured)
    BY <1>1, <2>1, <2>2, SameRulesStayOK
  <2> QED BY <1>1, <1>10, <2>1, <2>3 DEF OnMouseDragged
<1>11. CASE MousePressed
  <2>1. PICK event \in {"left", "modified"} :
            b' = OnMousePressed(b, tab, event) /\ captured' = (captured \/ event = "left")
    BY <1>11 DEF MousePressed
  <2>2. Core(b') /\ SameRules(b', b)
    <3>1. \/ b' = b
          \/ \E state \in {"normal", "pressed"} : b' = SetState(b, state)
      BY <2>1 DEF OnMousePressed
    <3> QED BY <1>1, <3>1, SetStateResult DEF SameRules
  <2>3. ButtonOK(b, tab, captured')
    <3>1. CASE captured
      <4>1. captured' = TRUE /\ captured = TRUE
        BY <1>1, <2>1, <3>1
      <4> QED BY <1>1, <4>1
    <3>2. CASE DoesIntersectRect(b, tab)
      BY <1>1, <3>2 DEF DoesIntersectRect, IsMouseOver, ButtonOK, EnabledOK
    <3> QED BY <1>11, <3>1, <3>2 DEF MousePressed
  <2>4. ButtonOK(b', tab, captured')
    BY <2>2, <2>3, SameRulesStayOK
  <2> QED BY <1>1, <1>11, <2>1, <2>4 DEF MousePressed
<1>12. CASE MouseReleased
  <2>1. ButtonOK(b, tab, captured')
    BY <1>1, <1>12, LessCaptured DEF MouseReleased
  <2> DEFINE hit      == DoesIntersectRect(b, tab)
             released == SetState(b, IF hit THEN "hovered" ELSE "normal")
  <2>2. \/ hit /\ NotifyClick(released)
        \/ b' = released /\ contents' = contents
    BY <1>12 DEF MouseReleased
  <2>3. Core(released) /\ SameRules(released, b)
    BY <1>1, SetStateResult
  <2>4. hit => b.enabled
    BY DEF DoesIntersectRect
  <2> HIDE DEF hit, released
  <2>5. ButtonOK(released, tab, captured')
    BY <2>1, <2>3, SameRulesStayOK
  <2>6. CASE hit /\ NotifyClick(released)
    <3>1. released.enabled
      BY <2>3, <2>4, <2>6 DEF SameRules
    <3>2. /\ ButtonOK(b', tab, captured')
          /\ contents' \in [audible : BOOLEAN, muted : BOOLEAN, capturing : BOOLEAN]
      BY <2>5, <2>6, <3>1, ClickResult
    <3> QED BY <1>1, <1>12, <3>2 DEF MouseReleased
  <2>7. CASE b' = released /\ contents' = contents
    BY <1>1, <1>12, <2>5, <2>7 DEF MouseReleased
  <2> QED BY <2>2, <2>6, <2>7
<1>13. CASE GestureTap
  <2> DEFINE hovered == [b EXCEPT !.state = "hovered"]
  <2>1. hovered = SetState(b, "hovered")
    BY <1>1, <1>13 DEF SetState, GestureTap, Core
  <2>2. Core(hovered) /\ SameRules(hovered, b)
    BY <1>1, <2>1, SetStateResult
  <2>3. /\ b.enabled /\ NotifyClick(hovered)
        /\ captured' = captured /\ tab' = tab /\ data' = data /\ handler' = handler
    BY <1>13 DEF GestureTap
  <2> HIDE DEF hovered
  <2>4. ButtonOK(hovered, tab, captured') /\ hovered.enabled
    <3>1. ButtonOK(hovered, tab, captured)
      BY <1>1, <2>2, SameRulesStayOK
    <3> QED BY <2>2, <2>3, <3>1 DEF SameRules
  <2>5. /\ ButtonOK(b', tab, captured')
        /\ contents' \in [audible : BOOLEAN, muted : BOOLEAN, capturing : BOOLEAN]
    BY <2>3, <2>4, ClickResult
  <2> QED BY <1>1, <2>3, <2>5
<1>14. CASE UNCHANGED vars
  BY <1>1, <1>14 DEF vars
<1> QED BY <1>2, <1>3, <1>4, <1>5, <1>6, <1>7, <1>8, <1>9, <1>10, <1>11, <1>12, <1>13, <1>14
        DEF Next

LEMMA JointInvariant == Spec => []IInv
BY InitEstablishesInv, NextKeepsInv, PTL DEF Spec

-----------------------------------------------------------------------------
(* The button is typed, and enabled, shown, lit and animated by the rules   *)
(* of the code, in tabs of any widths: whatever the page, the mouse and the *)
(* tab do, and in which order.                                              *)
THEOREM ButtonInvariant == Spec => []ButtonInv
<1>1. IInv => ButtonInv
  BY InvByParts
<1> QED BY <1>1, JointInvariant, PTL

(* NotifyClick's assertion (alert_indicator_button.cc:400) holds: a button  *)
(* that would act on a click or on the release of one that began earlier is *)
(* one for audio.                                                           *)
THEOREM ClicksMeetAudio == Spec => []ClickMeetsAudio
<1>1. IInv => ClickMeetsAudio
  BY DEF IInv, ButtonOK, Core, EnabledOK, ClickMeetsAudio
<1> QED BY <1>1, JointInvariant, PTL

(* The button of the active tab is enabled while its icon says that the tab *)
(* plays, since ActiveStateChanged looks at the rule again.                 *)
THEOREM ActiveTabsCanBeMuted == Spec => []ActiveTabCanBeMuted
<1>1. IInv => ActiveTabCanBeMuted
  BY InvByParts
<1> QED BY <1>1, JointInvariant, PTL

(* The button shows every change that reaches its Tab, also one that comes  *)
(* while a click has it show something else.                                *)
THEOREM ChangesReachButton == Spec => DataReachesButton
<1>1. ASSUME IInv, [Next]_vars, data' # data
      PROVE  b'.alert = data'
  <2>1. SetData
    BY <1>1 DEF Next, vars, PageChanges, ActiveStateChanged, UpdateForegroundColors, Resize,
                AnimationStep, WakeUp, MouseMoves, OnMouseDragged, MousePressed, MouseReleased,
                GestureTap
  <2>2. AlertStateToShow(contents) \in Alerts
    BY DEF AlertStateToShow, Alerts, Audio
  <2> QED BY <1>1, <2>1, <2>2, TransitionResult DEF SetData, IInv, RestOK
<1>2. IInv /\ [Next]_vars => [data' # data => b'.alert = data']_vars
  BY <1>1
<1> QED BY <1>2, JointInvariant, PTL DEF Spec, DataReachesButton
===============================================================================
