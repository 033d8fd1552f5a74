---------------------------- MODULE FollowProofs ----------------------------
(***************************************************************************)
(* Proofs about FollowMode, for any drivers, notebooks and bounds: what    *)
(* holds the notebook is followed, and the page never goes back to an      *)
(* older view.                                                             *)
(*                                                                         *)
(* Views travel from the gateway through the reply of the poll, the view   *)
(* that waits and the view being applied to the notebook; `Order` says     *)
(* that each of these places only holds views at least as new as those     *)
(* further on, however often following was stopped and started.            *)
(***************************************************************************)
EXTENDS FollowMode, TLAPS

Application ==
  [view : View, current : BOOLEAN, step : {"queued", "creating", "activating", "microscope"},
   from : Path \cup {None}]

TypeInv ==
  /\ driver \in Other \cup {Me, None} /\ known \in Other \cup {Me, None}
  /\ view \in View \cup {None} /\ sequence \in 1 .. MaxSequence
  /\ poll \in Subscription \cup {None}
  /\ latest \in View \cup {None}
  /\ applies \in SUBSET Application
  /\ opened \in SUBSET Path /\ active \in opened \cup {None}
  /\ last \in 0 .. MaxSequence

\* What is selected for a view is, or was, among the open notebooks.
Selected ==
  \A a \in applies :
    /\ a.step = "activating" => a.view.path \in opened
    /\ a.from \in opened \cup {None}

\* `drain` applies one view at a time.
OneAtATime == \A a, b \in applies : a = b

\* Nothing that reached the page is newer than n.
Reached(n) ==
  /\ last <= n
  /\ \A a \in applies : a.view.n <= n
  /\ latest # None => latest.n <= n

Order ==
  /\ \A a \in applies : last <= a.view.n
  /\ latest # None => last <= latest.n /\ \A a \in applies : a.view.n <= latest.n
  /\ Reached(sequence)
  /\ view # None => Reached(view.n) /\ view.n <= sequence
  /\ poll # None /\ poll.reply.view # None =>
       /\ Reached(poll.reply.view.n) /\ poll.reply.view.n <= sequence
       /\ view # None => poll.reply.view.n <= view.n

IInv == TypeInv /\ Selected /\ OneAtATime /\ Order /\ HeldOnlyWhileFollowing

-----------------------------------------------------------------------------
(* What the operators of the controller do to the views being applied. *)

LEMMA VoidedApplications ==
  ASSUME TypeInv, Void
  PROVE  /\ latest' = None /\ pin' = None /\ applies' \in SUBSET Application
         /\ \A b \in applies' : \E a \in applies :
              /\ b = [a EXCEPT !.current = FALSE]
              /\ b.view = a.view /\ b.step = a.step /\ b.from = a.from
<1>1. ASSUME NEW a \in applies
      PROVE  /\ [a EXCEPT !.current = FALSE] \in Application
             /\ [a EXCEPT !.current = FALSE].view = a.view
             /\ [a EXCEPT !.current = FALSE].step = a.step
             /\ [a EXCEPT !.current = FALSE].from = a.from
  BY DEF TypeInv, Application
<1>2. applies' = {[a EXCEPT !.current = FALSE] : a \in applies}
  BY DEF Void
<1> QED
  BY <1>1, <1>2 DEF Void

LEMMA DoneApplications ==
  ASSUME TypeInv, OneAtATime, NEW a \in applies, Done(a)
  PROVE  /\ latest' = None /\ applies' \in SUBSET Application /\ OneAtATime'
         /\ \A b \in applies' :
              latest # None /\ b.view = latest /\ b.step = "queued" /\ b.from = None
<1>1. applies' = Beginning(latest) /\ latest' = None
  BY DEF Done, OneAtATime
<1>2. CASE latest = None \/ ~Allowed(latest)
  BY <1>1, <1>2 DEF Beginning, OneAtATime
<1>3. CASE latest # None /\ Allowed(latest)
  <2> DEFINE b == [view |-> latest, current |-> TRUE, step |-> "queued", from |-> None]
  <2>1. latest \in View
    BY <1>3 DEF TypeInv
  <2>2. b \in Application
    BY <2>1 DEF Application
  <2>3. applies' = {b} /\ latest' = None
    BY <1>1, <1>3 DEF Beginning
  <2> QED
    BY <1>3, <2>2, <2>3 DEF OneAtATime
<1> QED
  BY <1>2, <1>3

LEMMA ToApplications ==
  ASSUME TypeInv, OneAtATime, NEW a \in applies,
         NEW step \in {"creating", "microscope"}, To(a, step)
  PROVE  /\ latest' = latest /\ applies' \in SUBSET Application /\ OneAtATime'
         /\ \A b \in applies' : b.view = a.view /\ b.step = step /\ b.from = a.from
<1>1. applies' = {[a EXCEPT !.step = step]} /\ latest' = latest
  BY DEF To, OneAtATime
<1>2. a \in Application
  BY DEF TypeInv
<1> QED
  BY <1>1, <1>2 DEF OneAtATime, Application

LEMMA ActivateApplications ==
  ASSUME TypeInv, OneAtATime, NEW a \in applies, Activate(a)
  PROVE  /\ latest' = latest /\ pin' = None /\ active' = None
         /\ applies' \in SUBSET Application /\ OneAtATime'
         /\ \A b \in applies' : b.view = a.view /\ b.step = "activating" /\ b.from = active
<1>1. /\ applies' = {[a EXCEPT !.step = "activating", !.from = active]}
      /\ latest' = latest /\ pin' = None /\ active' = None
  BY DEF Activate, OneAtATime
<1>2. a \in Application /\ active \in Path \cup {None}
  BY DEF TypeInv
<1> QED
  BY <1>1, <1>2 DEF OneAtATime, Application

LEMMA NewestSequence ==
  ASSUME TypeInv, NEW v \in View
  PROVE  v.n \in 1 .. MaxSequence /\ v.by \in Other /\ v.path \in Path /\ v # None
BY FollowAssumption DEF View

LEMMA ReplyTyped ==
  ASSUME NEW q \in Subscription, NEW r \in Reply
  PROVE  /\ [q EXCEPT !.reply = r] \in Subscription /\ [q EXCEPT !.reply = r] # None
         /\ [q EXCEPT !.reply = r].reply = r
<1>1. [q EXCEPT !.reply = r] \in Subscription /\ [q EXCEPT !.reply = r].reply = r
  BY DEF Subscription
<1> QED
  BY <1>1, FollowAssumption

\* A step after which every view that is applied was applied before or waited.
LEMMA FlowKeepsOrder ==
  ASSUME TypeInv, Order, UNCHANGED <<view, sequence, last>>,
         latest' \in {latest, None}, poll' \in {poll, None},
         \A b \in applies' : \/ \E a \in applies : b.view = a.view
                             \/ latest # None /\ latest' = None /\ b.view = latest
  PROVE  Order'
<1>1. \A b \in applies' : \E n \in Int : b.view.n = n /\ last <= n
  <2> SUFFICES ASSUME NEW b \in applies' PROVE \E n \in Int : b.view.n = n /\ last <= n
    OBVIOUS
  <2>1. CASE \E a \in applies : b.view = a.view
    BY <2>1 DEF TypeInv, Application, View, Order
  <2>2. CASE latest # None /\ b.view = latest
    BY <2>2 DEF TypeInv, View, Order
  <2> QED
    BY <2>1, <2>2
<1>2. \A n \in Int : Reached(n) => Reached(n)'
  BY FollowAssumption DEF TypeInv, Application, View, Reached
<1> QED
  BY <1>1, <1>2, FollowAssumption DEF Order, Reached, TypeInv, Application, View, Subscription, Reply

-----------------------------------------------------------------------------
(* The gateway and the polls. *)

LEMMA PublishKeeps ==
  ASSUME IInv, NEW p \in Path, Publish(p)
  PROVE  IInv'
<1>1. TypeInv'
  BY FollowAssumption DEF IInv, TypeInv, Publish, gatewayVars, pageVars, followVars, View, Reply, Subscription, Application
<1>2. Selected'
  BY DEF IInv, Selected, Publish, gatewayVars, pageVars, followVars
<1>3. OneAtATime'
  BY DEF IInv, OneAtATime, Publish, gatewayVars, pageVars, followVars
<1>4. Order'
  BY FollowAssumption DEF IInv, TypeInv, Order, Reached, Following, Publish, gatewayVars, pageVars, followVars, View, Reply, Subscription, Application
<1>5. HeldOnlyWhileFollowing'
  BY FollowAssumption DEF IInv, TypeInv, HeldOnlyWhileFollowing, Following, Publish, gatewayVars, pageVars, followVars, Subscription
<1> QED
  BY <1>1, <1>2, <1>3, <1>4, <1>5 DEF IInv

LEMMA TurnoverKeeps ==
  ASSUME IInv, Turnover
  PROVE  IInv'
<1>1. TypeInv'
  BY FollowAssumption DEF IInv, TypeInv, Turnover, gatewayVars, pageVars, followVars, View, Reply, Subscription, Application
<1>2. Selected'
  BY DEF IInv, Selected, Turnover, gatewayVars, pageVars, followVars
<1>3. OneAtATime'
  BY DEF IInv, OneAtATime, Turnover, gatewayVars, pageVars, followVars
<1>4. Order'
  BY FollowAssumption DEF IInv, TypeInv, Order, Reached, Following, Turnover, gatewayVars, pageVars, followVars, View, Reply, Subscription, Application
<1>5. HeldOnlyWhileFollowing'
  BY FollowAssumption DEF IInv, TypeInv, HeldOnlyWhileFollowing, Following, Turnover, gatewayVars, pageVars, followVars, Subscription
<1> QED
  BY <1>1, <1>2, <1>3, <1>4, <1>5 DEF IInv

LEMMA WatchKeeps ==
  ASSUME IInv, Watch
  PROVE  IInv'
<1>1. TypeInv'
  BY FollowAssumption DEF IInv, TypeInv, Watch, gatewayVars, pageVars, followVars, View, Reply, Subscription, Application
<1>2. Selected'
  BY DEF IInv, Selected, Watch, gatewayVars, pageVars, followVars
<1>3. OneAtATime'
  BY DEF IInv, OneAtATime, Watch, gatewayVars, pageVars, followVars
<1>4. Order'
  BY FollowAssumption DEF IInv, TypeInv, Order, Reached, Following, Watch, gatewayVars, pageVars, followVars, View, Reply, Subscription, Application
<1>5. HeldOnlyWhileFollowing'
  BY FollowAssumption DEF IInv, TypeInv, HeldOnlyWhileFollowing, Following, Watch, gatewayVars, pageVars, followVars, Subscription
<1> QED
  BY <1>1, <1>2, <1>3, <1>4, <1>5 DEF IInv

LEMMA AnswerKeeps ==
  ASSUME IInv, Answer
  PROVE  IInv'
<1>0. poll' \in Subscription /\ poll' # None
  <2>1. poll \in Subscription /\ [sequence |-> sequence, view |-> view] \in Reply
    BY FollowAssumption DEF IInv, TypeInv, Answer, Following, Reply
  <2> QED
    BY <2>1, ReplyTyped DEF Answer
<1>1. TypeInv'
  BY <1>0 DEF IInv, TypeInv, Answer, gatewayVars, pageVars
<1>2. Selected'
  BY DEF IInv, Selected, Answer, Deadline, gatewayVars, pageVars, followVars
<1>3. OneAtATime'
  BY DEF IInv, OneAtATime, Answer, Deadline, gatewayVars, pageVars, followVars
<1>4. Order'
  BY FollowAssumption DEF IInv, TypeInv, Order, Reached, Following, Answer, Deadline, gatewayVars, pageVars, followVars, View, Reply, Subscription, Application
<1>5. HeldOnlyWhileFollowing'
  BY <1>0 DEF IInv, HeldOnlyWhileFollowing, Following, Answer
<1> QED
  BY <1>1, <1>2, <1>3, <1>4, <1>5 DEF IInv

LEMMA PromotedKeeps ==
  ASSUME IInv, Promoted
  PROVE  IInv'
<1>0. /\ latest' = None /\ pin' = None /\ applies' \in SUBSET Application
      /\ \A b \in applies' : \E a \in applies :
           /\ b = [a EXCEPT !.current = FALSE]
           /\ b.view = a.view /\ b.step = a.step /\ b.from = a.from
  BY VoidedApplications DEF IInv, Promoted
<1>1. TypeInv'
  BY <1>0, FollowAssumption DEF IInv, TypeInv, Promoted, gatewayVars, pageVars, followVars, NoReply, Subscription, Reply
<1>2. Selected'
  BY <1>0 DEF IInv, Selected, Promoted, gatewayVars, pageVars, followVars
<1>3. OneAtATime'
  BY <1>0 DEF IInv, OneAtATime, Promoted, gatewayVars, pageVars, followVars
<1>4. Order'
  <2>1. UNCHANGED <<view, sequence, last>> /\ poll' \in {poll, None} /\ latest' \in {latest, None}
    BY <1>0 DEF Promoted, gatewayVars
  <2>2. \A b \in applies' : \/ \E a \in applies : b.view = a.view
                            \/ latest # None /\ latest' = None /\ b.view = latest
    <3> TAKE b \in applies'
    <3>1. \E a \in applies : b.view = a.view
      BY <1>0
    <3> QED
      BY <3>1
  <2>3. TypeInv /\ Order
    BY DEF IInv
  <2> HIDE DEF TypeInv, Order
  <2> QED
    BY <2>1, <2>2, <2>3, FlowKeepsOrder
<1>5. HeldOnlyWhileFollowing'
  BY <1>0 DEF HeldOnlyWhileFollowing
<1> QED
  BY <1>1, <1>2, <1>3, <1>4, <1>5 DEF IInv

LEMMA ClickKeeps ==
  ASSUME IInv, Click
  PROVE  IInv'
<1>0. /\ latest' = None /\ pin' = None /\ applies' \in SUBSET Application
      /\ \A b \in applies' : \E a \in applies :
           /\ b = [a EXCEPT !.current = FALSE]
           /\ b.view = a.view /\ b.step = a.step /\ b.from = a.from
  BY VoidedApplications DEF IInv, Click
<1>1. TypeInv'
  BY <1>0, FollowAssumption DEF IInv, TypeInv, Click, gatewayVars, pageVars, followVars, NoReply, Subscription, Reply
<1>2. Selected'
  BY <1>0 DEF IInv, Selected, Click, gatewayVars, pageVars, followVars
<1>3. OneAtATime'
  BY <1>0 DEF IInv, OneAtATime, Click, gatewayVars, pageVars, followVars
<1>4. Order'
  <2>1. /\ UNCHANGED <<view, sequence, last>>
        /\ \A b \in applies' : \E a \in applies : b.view = a.view
    BY <1>0 DEF Click, gatewayVars, pageVars, followVars
  <2>2. poll' # None => poll'.reply.view = None
    BY FollowAssumption DEF IInv, TypeInv, Click, NoReply, Subscription, Reply
  <2> QED
    BY <1>0, <1>1, <2>1, <2>2, FollowAssumption DEF IInv, Order, Reached, TypeInv, Application, View
<1>5. HeldOnlyWhileFollowing'
  BY <1>0 DEF HeldOnlyWhileFollowing
<1> QED
  BY <1>1, <1>2, <1>3, <1>4, <1>5 DEF IInv

LEMMA ReceiveFailureKeeps ==
  ASSUME IInv, ReceiveFailure
  PROVE  IInv'
<1>0. /\ latest' = None /\ pin' = None /\ applies' \in SUBSET Application
      /\ \A b \in applies' : \E a \in applies :
           /\ b = [a EXCEPT !.current = FALSE]
           /\ b.view = a.view /\ b.step = a.step /\ b.from = a.from
  BY VoidedApplications DEF IInv, ReceiveFailure
<1>1. TypeInv'
  <2>1. poll' \in Subscription
    <3>1. NoReply \in Reply
      BY DEF NoReply, Reply
    <3>2. poll \in Subscription /\ poll' = [poll EXCEPT !.reply = NoReply]
      BY DEF IInv, TypeInv, ReceiveFailure, Following
    <3> QED
      BY <3>1, <3>2, ReplyTyped
  <2> QED
    BY <1>0, <2>1 DEF IInv, TypeInv, ReceiveFailure, gatewayVars
<1>2. Selected'
  BY <1>0 DEF IInv, Selected, ReceiveFailure, gatewayVars, pageVars, followVars
<1>3. OneAtATime'
  BY <1>0 DEF IInv, OneAtATime, ReceiveFailure, gatewayVars, pageVars, followVars
<1>4. Order'
  <2>1. /\ UNCHANGED <<view, sequence, last>>
        /\ \A b \in applies' : \E a \in applies : b.view = a.view
    BY <1>0 DEF ReceiveFailure, gatewayVars, pageVars, followVars
  <2>2. poll' # None => poll'.reply.view = None
    BY FollowAssumption DEF IInv, TypeInv, ReceiveFailure, Following, NoReply, Subscription, Reply
  <2> QED
    BY <1>0, <1>1, <2>1, <2>2, FollowAssumption DEF IInv, Order, Reached, TypeInv, Application, View
<1>5. HeldOnlyWhileFollowing'
  BY <1>0 DEF HeldOnlyWhileFollowing
<1> QED
  BY <1>1, <1>2, <1>3, <1>4, <1>5 DEF IInv

LEMMA ReceiveKeeps ==
  ASSUME IInv, Receive
  PROVE  IInv'
<1>0. /\ poll \in Subscription /\ poll # None
      /\ poll' \in Subscription /\ poll' # None /\ poll'.reply.view = None
  <2>1. poll \in Subscription /\ poll # None
    BY DEF IInv, TypeInv, Receive, Following
  <2>2. poll' = [cursor |-> poll.reply.sequence, reply |-> NoReply]
    BY DEF Receive
  <2>3. poll' \in Subscription /\ poll'.reply.view = None
    BY <2>1, <2>2 DEF Subscription, Reply, NoReply
  <2> QED
    BY <2>1, <2>3, FollowAssumption
<1>1. UNCHANGED <<gatewayVars, pageVars, last>>
  BY DEF Receive
<1>2. CASE poll.reply.view = None
  <2>0. /\ latest' = None /\ pin' = None /\ applies' \in SUBSET Application
        /\ \A b \in applies' : \E a \in applies :
             /\ b = [a EXCEPT !.current = FALSE]
             /\ b.view = a.view /\ b.step = a.step /\ b.from = a.from
    BY <1>2, VoidedApplications DEF IInv, Receive
  <2>1. TypeInv'
    BY <1>0, <1>1, <2>0 DEF IInv, TypeInv, gatewayVars, pageVars
  <2>2. Selected' /\ OneAtATime'
    <3>1. Selected'
      BY <1>1, <2>0 DEF IInv, Selected, pageVars
    <3>2. OneAtATime'
      <4>1. \A c, d \in applies : c = d
        BY DEF IInv, OneAtATime
      <4> SUFFICES ASSUME NEW c \in applies', NEW d \in applies' PROVE c = d
        BY DEF OneAtATime
      <4> QED
        BY <2>0, <4>1
    <3> QED
      BY <3>1, <3>2
  <2>3. Order'
    <3>1. /\ UNCHANGED <<view, sequence, last>>
          /\ \A b \in applies' : \E a \in applies : b.view = a.view
      BY <1>1, <2>0 DEF gatewayVars
    <3> QED
      BY <1>0, <2>0, <2>1, <3>1, FollowAssumption DEF IInv, Order, Reached, TypeInv, Application, View
  <2> QED
    BY <2>0, <2>1, <2>2, <2>3 DEF IInv, HeldOnlyWhileFollowing
<1>3. CASE poll.reply.view # None
  <2> DEFINE v == poll.reply.view
  <2>0. v \in View /\ v # None /\ UNCHANGED pin
    BY <1>0, <1>3 DEF Subscription, Reply, Receive
  <2>1. CASE Busy
    <3>1. latest' = v /\ UNCHANGED applies
      BY <1>3, <2>1 DEF Receive, Receives
    <3>2. TypeInv' /\ Selected' /\ OneAtATime'
      BY <1>0, <1>1, <2>0, <3>1 DEF IInv, TypeInv, Selected, OneAtATime, gatewayVars, pageVars
    <3>3. Order'
      BY <1>0, <1>1, <1>3, <2>0, <3>1, <3>2 DEF IInv, Order, Reached, TypeInv, Application, View, gatewayVars
    <3> QED
      BY <1>0, <2>0, <3>2, <3>3 DEF IInv, HeldOnlyWhileFollowing, Following
  <2>2. CASE ~Busy
    <3>1. latest' = None /\ applies' = Beginning(v)
      BY <1>3, <2>2 DEF Receive, Receives, Busy
    <3>2. /\ applies' \in SUBSET Application /\ OneAtATime'
          /\ \A b \in applies' : b.view = v /\ b.step = "queued" /\ b.from = None
      <4> DEFINE b == [view |-> v, current |-> TRUE, step |-> "queued", from |-> None]
      <4>1. b \in Application
        BY <2>0 DEF Application
      <4>2. applies' \in {{}, {b}}
        BY <3>1 DEF Beginning
      <4>3. b.view = v /\ b.step = "queued" /\ b.from = None
        OBVIOUS
      <4> HIDE DEF b, v
      <4>4. CASE applies' = {}
        BY <4>4 DEF OneAtATime
      <4>5. CASE applies' = {b}
        BY <4>1, <4>3, <4>5 DEF OneAtATime
      <4> QED
        BY <4>2, <4>4, <4>5
    <3>3. TypeInv' /\ Selected'
      BY <1>0, <1>1, <3>1, <3>2 DEF IInv, TypeInv, Selected, gatewayVars, pageVars
    <3>4. Order'
      BY <1>0, <1>1, <1>3, <2>0, <3>1, <3>2, <3>3 DEF IInv, Order, Reached, TypeInv, View, gatewayVars
    <3> QED
      BY <1>0, <2>0, <3>2, <3>3, <3>4 DEF IInv, HeldOnlyWhileFollowing, Following
  <2> QED
    BY <2>1, <2>2
<1> QED
  BY <1>2, <1>3

-----------------------------------------------------------------------------
(* The awaits of an application, and the user. *)

\* A step that goes on with a view, or is done with it and begins the one that
\* waited; it releases the scroll position or leaves it alone.
LEMMA ApplicationStep ==
  ASSUME IInv, NEW a \in applies,
         UNCHANGED <<gatewayVars, known, poll, last>>,
         opened' \in SUBSET Path, opened \subseteq opened', active' \in opened' \cup {None},
         pin' \in {pin, None},
         \/ Done(a)
         \/ \E step \in {"creating", "microscope"} : To(a, step)
         \/ Activate(a) /\ a.view.path \in opened'
  PROVE  IInv'
<1>1. /\ latest' \in {latest, None} /\ applies' \in SUBSET Application /\ OneAtATime'
      /\ \A b \in applies' :
           /\ b.step = "activating" => b.view.path \in opened'
           /\ b.from \in opened' \cup {None}
           /\ \/ b.view = a.view
              \/ latest # None /\ latest' = None /\ b.view = latest
  <2>1. CASE Done(a)
    BY <2>1, DoneApplications DEF IInv
  <2>2. CASE \E step \in {"creating", "microscope"} : To(a, step)
    BY <2>2, ToApplications DEF IInv, Selected
  <2>3. CASE Activate(a) /\ a.view.path \in opened'
    <3>1. active \in opened \cup {None}
      BY DEF IInv, TypeInv
    <3> QED
      BY <2>3, <3>1, ActivateApplications DEF IInv
  <2> QED
    BY <2>1, <2>2, <2>3
<1>2. TypeInv'
  BY <1>1 DEF IInv, TypeInv, gatewayVars
<1>3. Selected'
  BY <1>1 DEF Selected
<1>4. Order'
  <2>1. UNCHANGED <<view, sequence, last>> /\ poll' \in {poll, None}
    BY DEF gatewayVars
  <2>2. \A b \in applies' : \/ \E d \in applies : b.view = d.view
                            \/ latest # None /\ latest' = None /\ b.view = latest
    <3> TAKE b \in applies'
    <3>1. CASE b.view = a.view
      BY <3>1
    <3>2. CASE latest # None /\ latest' = None /\ b.view = latest
      BY <3>2
    <3> QED
      BY <1>1, <3>1, <3>2
  <2>3. TypeInv /\ Order
    BY DEF IInv
  <2> QED
    BY <1>1, <2>1, <2>2, <2>3, FlowKeepsOrder
<1>5. HeldOnlyWhileFollowing'
  BY DEF IInv, HeldOnlyWhileFollowing, Following
<1> QED
  BY <1>1, <1>2, <1>3, <1>4, <1>5 DEF IInv

LEMMA OpenKeeps ==
  ASSUME IInv, NEW a \in applies, Open(a)
  PROVE  IInv'
<1>1. /\ UNCHANGED <<gatewayVars, known, poll, last, opened>>
      /\ opened \in SUBSET Path /\ active \in opened \cup {None}
  BY DEF IInv, TypeInv, Open
<1>2. /\ pin' \in {pin, None} /\ active' \in {active, None}
      /\ \/ Done(a)
         \/ \E step \in {"creating", "microscope"} : To(a, step)
         \/ Activate(a) /\ a.view.path \in opened
  BY DEF Open, Activate
<1> QED
  BY <1>1, <1>2, ApplicationStep

LEMMA CreatedKeeps ==
  ASSUME IInv, NEW a \in applies, Created(a)
  PROVE  IInv'
<1>1. /\ UNCHANGED <<gatewayVars, known, poll, last>>
      /\ opened \in SUBSET Path /\ active \in opened \cup {None} /\ a.view.path \in Path
  BY DEF IInv, TypeInv, Created, Application, View
<1>2. /\ pin' \in {pin, None} /\ active' \in {active, None}
      /\ opened' \in {opened, opened \cup {a.view.path}}
      /\ Done(a) \/ (Activate(a) /\ a.view.path \in opened')
  BY DEF Created, Listed, Activate
<1> QED
  BY <1>1, <1>2, ApplicationStep

LEMMA ActivatedKeeps ==
  ASSUME IInv, NEW a \in applies, Activated(a)
  PROVE  IInv'
<1>1. /\ UNCHANGED <<gatewayVars, known, poll, last, opened, pin>>
      /\ opened \in SUBSET Path
      /\ a.view.path \in opened /\ a.from \in opened \cup {None}
  BY DEF IInv, TypeInv, Activated, Selected
<1>2. /\ active' \in {a.view.path, a.from}
      /\ Done(a) \/ To(a, "microscope")
  BY DEF Activated
<1> QED
  BY <1>1, <1>2, ApplicationStep

LEMMA ShowKeeps ==
  ASSUME IInv, NEW a \in applies, Show(a)
  PROVE  IInv' /\ last' >= last
<1>0. /\ UNCHANGED <<gatewayVars, known, active, opened, poll>>
      /\ Done(a)
  BY DEF Show
<1>1. CASE UNCHANGED <<pin, last>>
  <2>1. opened \in SUBSET Path /\ active \in opened \cup {None} /\ last \in Int
    BY DEF IInv, TypeInv
  <2> QED
    BY <1>0, <1>1, <2>1, ApplicationStep
<1>2. CASE Shown(a) /\ pin' = [n |-> a.view.n, current |-> a.current] /\ last' = a.view.n
  <2>1. /\ latest' = None /\ applies' \in SUBSET Application /\ OneAtATime'
        /\ \A b \in applies' :
             latest # None /\ b.view = latest /\ b.step = "queued" /\ b.from = None
    BY <1>0, DoneApplications DEF IInv
  <2>2. a.view \in View /\ a.view.n \in 1 .. MaxSequence
    BY DEF IInv, TypeInv, Application, View
  <2>3. TypeInv'
    BY <1>0, <1>2, <2>1, <2>2, FollowAssumption DEF IInv, TypeInv, gatewayVars
  <2>4. Selected'
    BY <2>1 DEF Selected
  <2>5. Order' /\ last' >= last
    BY <1>0, <1>2, <2>1, <2>2, FollowAssumption
       DEF IInv, Order, Reached, TypeInv, View, Subscription, Reply, gatewayVars
  <2>6. HeldOnlyWhileFollowing'
    BY <1>0, <1>2 DEF HeldOnlyWhileFollowing, Shown, Applies, Allowed, Following
  <2> QED
    BY <2>1, <2>3, <2>4, <2>5, <2>6 DEF IInv
<1> QED
  BY <1>1, <1>2 DEF Show

LEMMA BrowseKeeps ==
  ASSUME IInv, NEW p \in Path, Browse(p)
  PROVE  IInv'
<1>1. TypeInv'
  BY DEF IInv, TypeInv, Browse, gatewayVars
<1>2. Selected' /\ OneAtATime'
  BY DEF IInv, Selected, OneAtATime, Browse
<1>3. Order'
  BY DEF IInv, Order, Reached, Browse, gatewayVars
<1>4. HeldOnlyWhileFollowing'
  BY DEF HeldOnlyWhileFollowing, Browse
<1> QED
  BY <1>1, <1>2, <1>3, <1>4 DEF IInv

-----------------------------------------------------------------------------
LEMMA InitEstablishes == Init => IInv
<1> SUFFICES ASSUME Init PROVE IInv
  OBVIOUS
<1>1. TypeInv /\ Selected /\ OneAtATime
  BY FollowAssumption DEF Init, TypeInv, Selected, OneAtATime
<1>2. Order /\ HeldOnlyWhileFollowing
  BY FollowAssumption DEF Init, Order, Reached, HeldOnlyWhileFollowing
<1> QED
  BY <1>1, <1>2 DEF IInv

LEMMA NextKeeps == IInv /\ [Next]_vars => IInv' /\ last' >= last
<1> SUFFICES ASSUME IInv, [Next]_vars PROVE IInv' /\ last' >= last
  OBVIOUS
<1>0. last \in Int
  BY DEF IInv, TypeInv
<1>1. CASE Turnover
  BY <1>0, <1>1, TurnoverKeeps DEF Turnover, followVars
<1>2. CASE Watch
  BY <1>0, <1>2, WatchKeeps DEF Watch, followVars
<1>3. CASE Click
  BY <1>0, <1>3, ClickKeeps DEF Click
<1>4. CASE Promoted
  BY <1>0, <1>4, PromotedKeeps DEF Promoted
<1>5. CASE Answer
  BY <1>0, <1>5, AnswerKeeps DEF Answer
<1>6. CASE Receive
  BY <1>0, <1>6, ReceiveKeeps DEF Receive
<1>7. CASE ReceiveFailure
  BY <1>0, <1>7, ReceiveFailureKeeps DEF ReceiveFailure
<1>8. ASSUME NEW a \in applies, Open(a) PROVE IInv' /\ last' >= last
  BY <1>0, <1>8, OpenKeeps DEF Open
<1>9. ASSUME NEW a \in applies, Created(a) PROVE IInv' /\ last' >= last
  BY <1>0, <1>9, CreatedKeeps DEF Created
<1>10. ASSUME NEW a \in applies, Activated(a) PROVE IInv' /\ last' >= last
  BY <1>0, <1>10, ActivatedKeeps DEF Activated
<1>11. ASSUME NEW a \in applies, Show(a) PROVE IInv' /\ last' >= last
  BY <1>11, ShowKeeps
<1>12. ASSUME NEW p \in Path, Publish(p) PROVE IInv' /\ last' >= last
  BY <1>0, <1>12, PublishKeeps DEF Publish, followVars
<1>13. ASSUME NEW p \in Path, Browse(p) PROVE IInv' /\ last' >= last
  BY <1>0, <1>13, BrowseKeeps DEF Browse
<1>14. CASE UNCHANGED vars
  BY <1>0, <1>14 DEF vars, gatewayVars, pageVars, followVars, IInv, TypeInv, Selected, OneAtATime,
     Order, Reached, HeldOnlyWhileFollowing, Following
<1> QED
  BY <1>1, <1>2, <1>3, <1>4, <1>5, <1>6, <1>7, <1>8, <1>9, <1>10, <1>11, <1>12, <1>13, <1>14
     DEF Next, Applying

-----------------------------------------------------------------------------
(* The theorems. *)

\* The inductive invariant holds of every behaviour.
THEOREM FollowInvariance == Spec => []IInv
BY InitEstablishes, NextKeeps, PTL DEF Spec

\* "Stop following immediately releases scroll control": whatever awaits were
\* under way when following stopped, paused or began again, none of them takes
\* the scroll position over afterwards.
THEOREM FollowInvHolds == Spec => []FollowInv
<1>1. IInv => FollowInv
  BY DEF IInv, TypeInv, FollowInv, FollowTypeOK
<1> QED
  BY <1>1, FollowInvariance, PTL

\* The page never goes back to an older view, however views were coalesced and
\* subscriptions restarted (follow.ts, drain; collaboration.ts, subscribe).
THEOREM NeverBackHolds == Spec => NeverBack
<1>1. IInv /\ [Next]_vars => [last' >= last]_vars
  BY NextKeeps
<1> QED
  BY <1>1, FollowInvariance, PTL DEF Spec, NeverBack
=============================================================================
