\* Two demands on one product, two requests at once, two help desk queries and one fault.
SPECIFICATION Spec
CONSTANTS
    o1 = o1  o2 = o2  t1 = t1  t2 = t2  c1 = c1  c2 = c2  cake = cake
    Orders = {o1, o2}
    Products = {cake}
    Tickets = {t1, t2}
    About <- MCAbout
    Callers = {c1, c2}
    None = None
    MaxQty = 1
    MaxPool = 1
    MaxSlips = 1
SYMMETRY MCSymmetry
CONSTRAINT Competes
INVARIANTS
    PromisesAreCovered
    UnitsFollowOrder
CHECK_DEADLOCK FALSE
