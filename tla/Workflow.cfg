SPECIFICATION FairSpec
CONSTANTS
    order = order
    audit = audit
    charge = charge
    ship = ship
    tally = tally
    Flows = {order, audit}
    Bodies <- MCBodies
    Redeployed <- MCRedeployed
    Activities = {charge, ship, tally}
    Own <- MCOwn
    Recovered = {charge}
    Durabilities <- MCDurabilities
    GroupMaxEvents = 2
    SleepMs = 3
    MaxCrashes = 2
    MaxFaults = 1
    MaxEvents = 3
INVARIANTS ReplayFaithful OwnResults TimersElapse OneAnswer
PROPERTIES Completes
