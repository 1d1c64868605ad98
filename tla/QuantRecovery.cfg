SPECIFICATION FairSpec
CONSTANTS
 t1=t1
 t2=t2
 a=a
 b=b
 c=c
 c1=c1
 c2=c2
 Tasks={t1,t2}
 Jobs={a,b}
 Customers={c1,c2}
 CustomerOf <- MCCustomerOf
 JobsOf <- SameStock
 NoTask=NoTask
 NoCustomer=NoCustomer
 Expires=TRUE
 MaxCrashes=1
INVARIANTS SnapshotKept ToldOnce
PROPERTY ReadyIsDelivered
CHECK_DEADLOCK FALSE
