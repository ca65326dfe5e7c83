CONSTANTS
    Requests = {r1, r2}
    Customers = {ann, bob}
    Staff = staff
    Ids = {i1, i2}
    MaxCount = 2
    Unit = 4
    Asked = {1, 2, 4}
    None = none
    Services = {"authz"}

SPECIFICATION HealthySpec

PROPERTIES
    RolesListed

CHECK_DEADLOCK FALSE
