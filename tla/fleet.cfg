\* Two dispatchers under an approval with one ceiling at 1.
SPECIFICATION FairSpec
CONSTANTS
  d1 = d1
  d2 = d2
  Dispatcher <- MCDispatchers
  Billable <- MCDispatchers
  Spends <- MCSpends
  MaxFaults = 1
  MaxTampers = 1
  Nobody = Nobody
INVARIANTS FleetInv DecidesOnLatest DenialIsTrue
PROPERTIES EveryDispatchSettles
