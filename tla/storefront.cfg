SPECIFICATION MCSpec
CONSTANTS
 None = None
 egg = egg
 large = large
 grocery = grocery
 pharmacy = pharmacy
 size = size
 extra = extra
 small = small
 sku = sku
 brand = brand
 Branches = {b1}
 Types = {grocery, pharmacy}
 Writers = {w1, w2}
 Readers = {r1, r2}
 OptionGroups = {size, extra}
 ItemOptions = {small, egg}
 Variants = {large}
 Fields = {sku, brand}
 MaxSelect = 2
 Keys <- MCKeys
 GroupOf <- MCGroupOf
 Required <- MCRequired
INVARIANTS PrimaryAgrees  MenuRulesHold
SYMMETRY Alike
CHECK_DEADLOCK FALSE
