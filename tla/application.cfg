SPECIFICATION FairSpec
CONSTANTS
    Apps = {"light", "usr_logic", "mqtt"}
    Props = {switch, color}
    Switch = switch
    Actions = {blink}
    Inputs = 2
    StringInputs = {1}
    Events = {status_report}
    MaxEvents = 2
    MaxInFlight = 1
    MaxQueue = 2
    MaxSent = 2
INVARIANTS ReadyForMessages ChangeKept ControlAcked OwnInput
PROPERTIES FlagUntilReply RoomAgain
CHECK_DEADLOCK FALSE
