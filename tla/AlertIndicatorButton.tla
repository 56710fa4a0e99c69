------------------------ MODULE AlertIndicatorButton ------------------------
(***************************************************************************)
(* dumb/browser/ui/views/tabs/alert_indicator_button.cc: the icon a tab    *)
(* shows while its page plays or captures something, which is a button to  *)
(* mute the page while it plays.                                           *)
(*                                                                         *)
(* The button is told alert states by its Tab, and changes its own on a    *)
(* click before the page has been muted.  It is clickable by a rule that   *)
(* depends on the alert state, the tab and the button's place in it, and   *)
(* "dormant" for a while when a click is likely to be a mistake.  All runs *)
(* in one thread, in handlers that call each other: a Tab that is told of  *)
(* a change lays out the button, which thereby calls the button again.     *)
(*                                                                         *)
(* views::Button and what patches/chrome@browser@ui@views@tabs@tab.cc.patch*)
(* does not show of Tab are modelled from how the button uses them.        *)
(***************************************************************************)
EXTENDS Integers, FiniteSetsExt

CONSTANTS
    MuteControls,  \* --enable-tab-audio-muting
    TabWidths,     \* bound: the widths a tab may have
    ButtonWidth,   \* of the icon
    CloseWidth,    \* of the close button
    MinCloseTab,   \* the width from which inactive tabs show one, as active ones do
    Inset          \* of the contents of a tab, on either side

ASSUME ButtonAssumption ==
    /\ MuteControls \in BOOLEAN
    /\ ButtonWidth \in Nat \ {0}
    /\ CloseWidth \in Nat
    /\ Inset \in Nat
    /\ TabWidths \subseteq Nat
    /\ MinCloseTab \in Nat
    /\ MinCloseTab >= ButtonWidth + CloseWidth + 2 * Inset
    /\ \A w \in TabWidths : w >= ButtonWidth + 2 * Inset

VARIABLES
    b,         \* the AlertIndicatorButton
    tab,       \* its Tab, and whether the cursor is over the button's place
    data,      \* the alert state in the Tab's data_
    contents,  \* the page: whether it is audible, muted and capturing
    handler,   \* the button got OnMouseEntered last and not OnMouseExited
    captured   \* a mouse button was pressed on it and is still held

vars == <<b, tab, data, contents, handler, captured>>

Audio == {"playing", "muting"}

Alerts == Audio \cup {"none", "capturing"}

States == {"normal", "hovered", "pressed", "disabled"}

(* A fade animation and how far it is; after its last part it stays.        *)
NoFade == [parts |-> 0, part |-> 0, over |-> TRUE]

CreateTabAlertIndicatorFadeAnimation(alert) ==
    [parts |-> IF alert = "capturing" THEN 5 ELSE 1, part |-> 0, over |-> FALSE]

-----------------------------------------------------------------------------
(* views::Button                                                           *)

IsMouseOver(v, t) == v.visible /\ t.over

SetEnabled(v, t, enable) ==
    [v EXCEPT !.enabled = enable,
              !.state = IF ~enable THEN "disabled"
                        ELSE IF IsMouseOver(v, t) THEN "hovered" ELSE "normal"]

SetVisible(v, t, visible) ==
    LET changed == [v EXCEPT !.visible = visible]
    IN  IF visible = v.visible \/ v.state = "disabled" THEN changed
        ELSE [changed EXCEPT !.state = IF IsMouseOver(changed, t) THEN "hovered" ELSE "normal"]

(* What the mouse may change of a button.                                   *)
SetState(v, state) == IF v.state = "disabled" THEN v ELSE [v EXCEPT !.state = state]

-----------------------------------------------------------------------------
(* The button and the layout of the Tab                                    *)

EnterDormantPeriod(v) == [v EXCEPT !.dormant = TRUE]

ExitDormantPeriod(v) == [v EXCEPT !.dormant = FALSE]

(* Tab::GetWidthOfLargestSelectableRegion                                   *)
LargestSelectableRegion(v, t) ==
    Min({t.width} \cup v.closeLeft \cup (IF v.visible THEN {v.x} ELSE {}))

HasSelectableRegion(v, t, percent) ==
    t.active \/ LargestSelectableRegion(v, t) >= (v.width * percent) \div 100

UpdateEnabledForMuteToggle_Dormant(v, t) ==
    SetEnabled(v, t, MuteControls /\ v.alert \in Audio /\ HasSelectableRegion(v, t, 250))

UpdateEnabledForMuteToggle(v, t) ==
    LET enable == MuteControls /\ v.alert \in Audio /\ HasSelectableRegion(v, t, 250)
        set == SetEnabled(v, t, enable)
    IN  IF enable = v.enabled THEN v
        ELSE IF enable /\ set.state = "hovered" THEN EnterDormantPeriod(set)
        ELSE IF ~enable THEN ExitDormantPeriod(set)
        ELSE set

(* View::SetBoundsRect, which calls OnBoundsChanged if they have changed.   *)
SetBounds(v, t) ==
    LET right == Min({t.width - Inset} \cup v.closeLeft)
        moved == [v EXCEPT !.x = right - ButtonWidth, !.width = ButtonWidth]
    IN  IF moved = v THEN v ELSE UpdateEnabledForMuteToggle(moved, t)

(* In an active tab the close button comes before the icon.                 *)
HasRoom(t) == t.active => t.width >= ButtonWidth + CloseWidth + 2 * Inset

(* Tab::Layout: the close button, then bounds, and then visibility.         *)
Layout(v, t) ==
    LET shows == v.showing # "none" /\ HasRoom(t)
        closes == t.active \/ t.width >= MinCloseTab
        laid == [v EXCEPT !.closeLeft = IF closes THEN {t.width - Inset - CloseWidth} ELSE {}]
    IN  SetVisible(IF shows THEN SetBounds(laid, t) ELSE laid, t, shows)

(* The image on the button, which is of the tab's color then.               *)
ResetImages(v, alert) == [v EXCEPT !.images = alert, !.colored = TRUE]

OnParentTabButtonColorChanged(v) ==
    IF v.alert \in Audio THEN ResetImages(v, v.alert) ELSE [v EXCEPT !.colored = FALSE]

IsCurrent_Showing(v, next) == next = v.showing

IsCurrent(v, next) == next = v.alert

(* The icon of a state that ends is shown until it has faded out.  There is *)
(* no animation from one audio state to the other.                          *)
TransitionToAlertState(v, t, next) ==
    LET reset == IF next = "none" THEN v ELSE ResetImages(v, next)
        set == [reset EXCEPT
                  !.alert = next,
                  !.showing = IF next = "none" THEN v.alert ELSE next,
                  !.fade = IF {v.alert, next} = Audio THEN NoFade
                           ELSE CreateTabAlertIndicatorFadeAnimation(next)]
    IN  IF IsCurrent(v, next) THEN v
        ELSE UpdateEnabledForMuteToggle(IF set.showing = v.showing THEN set ELSE Layout(set, t), t)

AnimationEnded_Untold(v, t) == [v EXCEPT !.showing = v.alert]

(* FadeAnimationDelegate::AnimationEnded                                    *)
AnimationEnded(v, t) == Layout([v EXCEPT !.showing = v.alert], t)

-----------------------------------------------------------------------------
(* The Tab and its page                                                    *)

(* GetAlertStateToShow                                                      *)
AlertStateToShow(c) ==
    IF c.capturing THEN "capturing"
    ELSE IF ~c.audible THEN "none"
    ELSE IF c.muted THEN "muting" ELSE "playing"

Init ==
    /\ b = [alert |-> "none", showing |-> "none", images |-> "none", colored |-> TRUE,
            fade |-> NoFade, dormant |-> FALSE, enabled |-> TRUE, state |-> "normal",
            visible |-> FALSE, x |-> 0, width |-> 0, closeLeft |-> {}]
    /\ tab \in [active : BOOLEAN, width : TabWidths, over : {FALSE}]
    /\ contents = [audible |-> FALSE, muted |-> FALSE, capturing |-> FALSE]
    /\ data = "none"
    /\ handler = FALSE
    /\ captured = FALSE

PageChanges ==
    /\ contents' \in [audible : BOOLEAN, muted : BOOLEAN, capturing : BOOLEAN]
    /\ UNCHANGED <<b, tab, data, handler, captured>>

(* A change of the page reaches the Tab later.                              *)
SetData ==
    /\ data # AlertStateToShow(contents)
    /\ data' = AlertStateToShow(contents)
    /\ b' = TransitionToAlertState(b, tab, data')
    /\ UNCHANGED <<tab, contents, handler, captured>>

ActiveStateChanged_LayoutOnly ==
    /\ tab' = [tab EXCEPT !.active = ~@]
    /\ \E recolored \in {b, OnParentTabButtonColorChanged(b)} : b' = Layout(recolored, tab')
    /\ UNCHANGED <<data, contents, handler, captured>>

ActiveStateChanged ==
    /\ tab' = [tab EXCEPT !.active = ~@]
    /\ \E recolored \in {b, OnParentTabButtonColorChanged(b)} :
           b' = Layout(UpdateEnabledForMuteToggle(recolored, tab'), tab')
    /\ UNCHANGED <<data, contents, handler, captured>>

UpdateForegroundColors ==
    /\ b' = OnParentTabButtonColorChanged(b)
    /\ UNCHANGED <<tab, data, contents, handler, captured>>

Resize ==
    /\ \E w \in TabWidths \ {tab.width} : tab' = [tab EXCEPT !.width = w]
    /\ b' = Layout(b, tab')
    /\ UNCHANGED <<data, contents, handler, captured>>

-----------------------------------------------------------------------------
(* Time                                                                    *)

AnimationStep ==
    /\ ~b.fade.over
    /\ LET last == b.fade.part = b.fade.parts - 1
           progressed == [b EXCEPT !.fade.part = IF last THEN @ ELSE @ + 1, !.fade.over = last]
       IN  b' = IF last THEN AnimationEnded(progressed, tab) ELSE progressed
    /\ UNCHANGED <<tab, data, contents, handler, captured>>

WakeUp ==
    /\ b.dormant
    /\ b' = ExitDormantPeriod(b)
    /\ UNCHANGED <<tab, data, contents, handler, captured>>

-----------------------------------------------------------------------------
(* The mouse.  plain: only the left button, and no Shift or Control         *)

(* If the button is not enabled the Tab gets the events.                    *)
DoesIntersectRect(v, t) == v.enabled /\ IsMouseOver(v, t)

OnMouseEnteredOrMoved(v, plain) == SetState(v, IF plain THEN "hovered" ELSE "normal")

OnMouseExited(v) == SetState(ExitDormantPeriod(v), "normal")

MouseMoves ==
    /\ ~captured
    /\ \E over \in BOOLEAN, plain \in BOOLEAN :
           /\ tab' = [tab EXCEPT !.over = over]
           /\ handler' = DoesIntersectRect(b, tab')
           /\ b' = IF handler' THEN OnMouseEnteredOrMoved(b, plain)
                   ELSE IF handler THEN OnMouseExited(b)
                   ELSE b
    /\ UNCHANGED <<data, contents, captured>>

(* A drag away from the button and back.                                    *)
OnMouseDragged ==
    /\ captured
    /\ tab' = [tab EXCEPT !.over = ~@]
    /\ b' = SetState(b, IF DoesIntersectRect(b, tab') THEN "pressed" ELSE "normal")
    /\ UNCHANGED <<data, contents, handler, captured>>

IsTriggerableEvent(v, t, event) ==
    /\ ~v.dormant
    /\ event # "modified"
    /\ event = "tap" => HasSelectableRegion(v, t, 400)

OnMousePressed_Unguarded(v, t, event) ==
    [v EXCEPT !.state = IF event = "modified" THEN "normal"
                        ELSE IF @ # "disabled" /\ IsTriggerableEvent(v, t, event) THEN "pressed"
                        ELSE @]

OnMousePressed(v, t, event) ==
    IF event = "modified" THEN SetState(v, "normal")
    ELSE IF IsTriggerableEvent(v, t, event) THEN SetState(v, "pressed")
    ELSE v

(* A press with a modifier is left to the Tab; the button gets no release.  *)
MousePressed ==
    /\ captured \/ DoesIntersectRect(b, tab)
    /\ \E event \in {"left", "modified"} :
           /\ b' = OnMousePressed(b, tab, event)
           /\ captured' = (captured \/ event = "left")
    /\ UNCHANGED <<tab, data, contents, handler>>

(* The page may be muted or unmuted, or that may fail.                      *)
NotifyClick(v) ==
    /\ b' = TransitionToAlertState(EnterDormantPeriod(v), tab,
                                   IF v.alert = "playing" THEN "muting" ELSE "playing")
    /\ \E muted \in {~contents.muted, contents.muted} :
           contents' = [contents EXCEPT !.muted = muted]

MouseReleased ==
    /\ captured
    /\ captured' = FALSE
    /\ \E event \in {"left", "modified"} :
           LET hit == DoesIntersectRect(b, tab)
               released == SetState(b, IF hit THEN "hovered" ELSE "normal")
           IN  IF b.state # "disabled" /\ hit /\ IsTriggerableEvent(b, tab, event)
               THEN NotifyClick(released)
               ELSE b' = released /\ UNCHANGED contents
    /\ UNCHANGED <<tab, data, handler>>

GestureTap ==
    /\ b.visible
    /\ b.enabled
    /\ IsTriggerableEvent(b, tab, "tap")
    /\ NotifyClick([b EXCEPT !.state = "hovered"])
    /\ UNCHANGED <<tab, data, handler, captured>>

Next ==
    \/ PageChanges \/ SetData \/ ActiveStateChanged \/ UpdateForegroundColors \/ Resize
    \/ AnimationStep \/ WakeUp
    \/ MouseMoves \/ OnMouseDragged \/ MousePressed \/ MouseReleased \/ GestureTap

Spec == Init /\ [][Next]_vars

(* Animations go on.                                                        *)
FairSpec == Spec /\ WF_vars(AnimationStep)

-----------------------------------------------------------------------------

Fade == [parts : {0, 1, 5}, part : 0..4, over : BOOLEAN]

(* closeLeft: the left edge of the close button, if there is one.           *)
Button == [alert : Alerts, showing : Alerts, images : Alerts, colored : BOOLEAN,
           fade : Fade, dormant : BOOLEAN, enabled : BOOLEAN, state : States,
           visible : BOOLEAN, x : Nat, width : {0, ButtonWidth}, closeLeft : SUBSET Int]

Tab == [active : BOOLEAN, width : TabWidths, over : BOOLEAN]

TypeOK ==
    /\ b \in Button
    /\ tab \in Tab
    /\ data \in Alerts
    /\ contents \in [audible : BOOLEAN, muted : BOOLEAN, capturing : BOOLEAN]
    /\ {handler, captured} \subseteq BOOLEAN

(* A button that would act on a click is one for audio, which NotifyClick   *)
(* asserts (alert_indicator_button.cc:400), whatever happens to the tab and *)
(* its page between a press and the release.                                *)
ClickMeetsAudio ==
    (b.visible \/ captured) /\ b.state # "disabled" => b.alert \in Audio

(* The active tab can always be muted while its icon says that it plays,   *)
(* however little room there was while it was inactive.                     *)
ActiveTabCanBeMuted == MuteControls /\ tab.active /\ b.alert \in Audio => b.enabled

(* Only a button that could be clicked is dormant, so that it is not shown  *)
(* as one that will work again.                                             *)
DormantOnlyWhileEnabled == b.dormant => b.enabled

(* "Returns the current TabAlertState except, while the indicator image is  *)
(* fading out, returns the prior TabAlertState" (alert_indicator_button.h). *)
ShowingIsAlertOrFading ==
    b.showing = b.alert \/ (b.alert = "none" /\ ~b.fade.over)

(* The Tab, which asks only when it is told to, shows a button just while   *)
(* there is an icon on it and room for one.                                 *)
TabShowsIcon == b.visible <=> b.showing # "none" /\ HasRoom(tab)

(* The image is that of the state shown, and for audio in the color the tab *)
(* has now.                                                                 *)
ImageIsOfShownState ==
    /\ b.showing # "none" => b.images = b.showing
    /\ b.alert \in Audio => b.colored

(* "odd number of cycles required so animation finishes in showing state"   *)
(* (alert_indicator_button.cc:85): an icon that has faded in is opaque.     *)
FadesInFully == b.alert # "none" /\ b.fade.over => b.fade.part % 2 = 0

(* What makes the above inductive.  A button is enabled for audio only, but *)
(* for a new one, which is enabled until UpdateEnabledForMuteToggle runs,   *)
(* and is not shown before that.                                            *)
EnabledForAudio ==
    /\ b.state = "disabled" <=> ~b.enabled
    /\ b.enabled =>
          \/ MuteControls /\ b.alert \in Audio
          \/ b.alert = "none" /\ b.showing = "none" /\ ~b.visible /\ ~captured

(* An animation is over after its last part.                                *)
FadeStopsAtItsEnd ==
    IF b.fade.over THEN b.fade.part \in {0, b.fade.parts - 1}
    ELSE b.fade.part < b.fade.parts

ButtonInv ==
    /\ TypeOK
    /\ EnabledForAudio
    /\ FadeStopsAtItsEnd
    /\ DormantOnlyWhileEnabled
    /\ ShowingIsAlertOrFading
    /\ TabShowsIcon
    /\ ImageIsOfShownState
    /\ FadesInFully

(* A change of the page's state that reaches the Tab is shown, whatever the *)
(* button made of earlier ones and of clicks.                               *)
DataReachesButton == [][data' # data => b'.alert = data']_vars

(* An icon whose state has ended goes away.                                 *)
IconGoes == b.alert = "none" ~> ~b.visible \/ b.alert # "none"
=============================================================================
