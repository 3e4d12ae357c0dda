\* One handler at a time, two deals, three orders.
CONSTANTS
    Deals = {d1, d2}
    Tasks = {t1}
    Clicks = {packing, done}
    Infos = {i1, i2}
    MaxOrders = 3
SYMMETRY Symmetries
SPECIFICATION Spec
PROPERTIES
    ResetClearsCheckout
    NewOrderPending
