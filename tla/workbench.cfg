SPECIFICATION Spec
CONSTANTS
    t1 = t1
    t2 = t2
    t3 = t3
    l1 = l1
    l2 = l2
    l3 = l3
    e1 = e1
    e2 = e2
    Terminals = {t1, t2, t3}
    Listings = {l1, l2, l3}
    Editors = {e1, e2}
    ActivityBar = 1
    MinSidebar = 2
    MinPanel = 2
    MinTerminal = 3
    MinHeight = 3
    CollapseBelow = 2
    DefaultHeight = 4
    Header = 1
    Windows <- MCWindows
    Quotas <- MCQuotas
SYMMETRY WorkbenchSymmetry
INVARIANTS DocksFollow MetricsFollow
PROPERTIES PanelsFit
CHECK_DEADLOCK FALSE
