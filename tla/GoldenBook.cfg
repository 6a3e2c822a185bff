\* Every sequence of four orders at two prices and a zero price, with
\* quantities 0..2: partial fills, sweeps, cancels and rejects all occur.
CONSTANTS
    Ids = {o1, o2, o3, o4}
    Prices = {0, 1, 2}
    Qtys = {0, 1, 2}
    MaxOrders = 4
SPECIFICATION Spec
SYMMETRY Symmetry
INVARIANTS
    TypeOK
    IndexIsBook
    NeverCrossed
PROPERTIES
    ImplementsPriceTime
CHECK_DEADLOCK FALSE
