SPECIFICATION Spec
CONSTANTS
    method = method
    interface = interface
    a = a
    b = b
    None = None
    Names <- MCNames
    Spellings = {1, 2}
    Values <- MCValues
    RouteConfigs <- MCRouteConfigs
    MaxPuts = 2
    MaxRandom = 2
INVARIANTS TypeOK RoutedByConfiguration WeightsRespected ReadAsRouted
CHECK_DEADLOCK FALSE
