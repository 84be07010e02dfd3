------------------------------ MODULE StaffDevice ------------------------------
(***************************************************************************)
(* A tab of the staff: the picker's or the manager's section of App, each   *)
(* with its provider and its pages.  The sections share nothing on the     *)
(* client; which of them is open is decided by the address and by the      *)
(* permissions of the user.  (The courier's section, CourierApp, is the     *)
(* largest and is checked alone.)                                          *)
(***************************************************************************)
EXTENDS Naturals, FiniteSets, Sequences

CONSTANTS
  Tasks, Points, at, NoTask, NoPoint, Slots, MaxEvents,
  Orders, Issues, Requests, Filters, Lanes, MaxMoves,
  Sections        \* what the user's permissions open (RequirePermission)

VARIABLES
  section,
  task, online, initDue, point, saved, located, ready, loading, queue, mine, transfers,
  screen, page, accepting, calls, events,
  status, applied, edits, linked, visible, scope, due, shown, loaded, fetching, refreshing,
  failed, form, asked, opened, moves

Picker == INSTANCE PickerApp
Desk == INSTANCE ManagerDesk

pickerVars == << task, online, initDue, point, saved, located, ready, loading, queue, mine,
                 transfers, screen, page, accepting, calls, events >>
deskVars == << status, applied, edits, linked, visible, scope, due, shown, loaded, fetching,
               refreshing, failed, form, asked, opened, moves >>
deviceVars == << section, pickerVars, deskVars >>

ASSUME DeviceAssumption == Sections \subseteq {"picker", "manager"}
ASSUME PickerHolds == Picker!PickerAssumption
ASSUME DeskHolds == Desk!DeskAssumption

PickerClosed == /\ Picker!PickerMount /\ saved = NoPoint
                /\ screen = "queue" /\ page = Picker!NoPage
                /\ task = [t \in Tasks |-> "hidden"]
DeskClosed == Desk!DeskMount /\ scope \in {Desk!Page(d) : d \in Orders}

DeviceInit ==
  /\ section \in Sections
  /\ IF section = "picker" THEN Picker!PickerInit ELSE PickerClosed
  /\ IF section = "manager" THEN Desk!DeskInit ELSE DeskClosed

InPicker == section = "picker" /\ UNCHANGED << section, deskVars >>
InDesk == section = "manager" /\ UNCHANGED << section, pickerVars >>

DeviceNext ==
  \/ InPicker /\ Picker!PickerNext
  \/ InDesk /\ Desk!DeskNext

\* The browser tells of the network and of the tab again, every call is answered
\* or cut off, what settles is applied, effects run and timers fire.  Nobody is
\* assumed to press a button.
PickerFairness ==
  /\ WF_pickerVars(section = "picker" /\ Picker!goOnline)
  /\ \A s \in Slots : /\ WF_pickerVars(section = "picker" /\ Picker!Served(s))
                      /\ WF_pickerVars(section = "picker" /\ Picker!Applied(s))
  /\ WF_pickerVars(section = "picker" /\ \E s \in Slots : Picker!init(s))
  /\ WF_pickerVars(section = "picker" /\ \E s \in Slots : Picker!loadOrder(s))
  /\ WF_pickerVars(section = "picker" /\ \E s \in Slots : Picker!poll(s))

DeskFairness ==
  /\ WF_deskVars(section = "manager" /\ Desk!goOnline) /\ WF_deskVars(section = "manager" /\ Desk!show)
  /\ \A s \in Lanes : /\ WF_deskVars(section = "manager" /\ Desk!Served(s))
                      /\ WF_deskVars(section = "manager" /\ Desk!Settled(s))
  /\ WF_deskVars(section = "manager" /\ \E s \in Lanes : Desk!load(s))
  /\ WF_deskVars(section = "manager" /\ \E s \in Lanes : Desk!poll(s))

DeviceSpec == /\ DeviceInit /\ [][DeviceNext]_deviceVars
              /\ PickerFairness /\ DeskFairness

------------------------------------------------------------------------------
(* Properties of the sections; each is stated in its module. *)

\* The spinner of the picker's layout ends.
PickerSpinnerEnds == Picker!SpinnerEnds

\* The picker's lists show in the end what the server holds for the chosen point.
PickerListsCatchUp == section = "picker" => Picker!ListsCatchUp

\* A dialog of the manager edits an order at most once.
DeskEditsOncePerDialog == Desk!EditedOncePerDialog

\* The manager's refresh button comes back.
DeskRefreshEnds == Desk!RefreshEnds

\* The manager's page shows in the end what the server holds for its filters.
DeskPageCatchesUp == section = "manager" => Desk!DeskCatchesUp

===============================================================================
