SPECIFICATION TimeoutSpec
CONSTANT Ops = {o1}
PROPERTY EveryRequestAnswered
